-------------------------- MODULE WorkqueueProofs --------------------------
(***************************************************************************)
(* Proofs of the safety properties of Workqueue: types, that no wake-up is *)
(* lost and that flushing is complete for any number of CPUs, tasks and    *)
(* works; and, for at most two CPUs, that the pending bit has one owner,   *)
(* that no BUG_ON() is hit and that cancelling is complete.                *)
(***************************************************************************)
EXTENDS Workqueue, FiniteSetTheorems, SequenceTheorems, WellFoundedInduction, TLAPS

-----------------------------------------------------------------------------
(* Constants *)

\* Tasks, works and CPUs are different things.
LEMMA Agents ==
  /\ Task \subseteq Agent /\ Work \subseteq Agent /\ CPU \subseteq Agent
  /\ \A t \in Task : t \notin Work /\ t \notin CPU
  /\ \A w \in Work : w \notin Task /\ w \notin CPU
  /\ \A c \in CPU : c \notin Task /\ c \notin Work
  /\ None \notin Task /\ None \notin Work /\ None \notin CPU /\ None \notin Agent
  /\ Work \subseteq Item /\ Task \subseteq Item /\ None \notin Item
  /\ \A i \in Item : i \in Work \/ i \in Task
BY WorkqueueAssumption DEF Agent, Item

\* The CPUs are numbers.
LEMMA CpuNumbers ==
  /\ NCPU \in Nat /\ NCPU >= 1 /\ 1 \in CPU
  /\ \A c \in CPU : c \in Int /\ 1 <= c /\ c <= NCPU
  /\ \A c \in CPU : c < NCPU => c + 1 \in CPU
BY WorkqueueAssumption DEF CPU

-----------------------------------------------------------------------------
(* Lists *)

\* list_add_tail().
LEMMA AppendFacts ==
  ASSUME NEW S, NEW s \in Seq(S), NEW y \in S
  PROVE  /\ Append(s, y) \in Seq(S) /\ Append(s, y) # <<>>
         /\ \A x : In(x, Append(s, y)) <=> In(x, s) \/ x = y
         /\ \A x : Once(x, s) /\ (x = y => ~In(x, s)) => Once(x, Append(s, y))
         /\ \A x, z : Ahead(x, z, s) => Ahead(x, z, Append(s, y))
         /\ \A x : In(x, s) => Ahead(x, y, Append(s, y))
<1> DEFINE r == Append(s, y)
<1>1. /\ r \in Seq(S) /\ Len(r) = Len(s) + 1 /\ Len(s) \in Nat
      /\ \A m \in 1..Len(s) : r[m] = s[m]
      /\ r[Len(s) + 1] = y
  OBVIOUS
<1> HIDE DEF r
<1>2. r # <<>>
  BY <1>1
<1>3. ASSUME NEW x PROVE In(x, r) <=> In(x, s) \/ x = y
  BY <1>1 DEF In
<1>4. ASSUME NEW x, Once(x, s), x = y => ~In(x, s) PROVE Once(x, r)
  BY <1>1, <1>4 DEF In, Once
<1>5. ASSUME NEW x, NEW z, Ahead(x, z, s) PROVE Ahead(x, z, r)
  BY <1>1, <1>5 DEF Ahead
<1>6. ASSUME NEW x, In(x, s) PROVE Ahead(x, y, r)
  BY <1>1, <1>6 DEF Ahead, In
<1> QED
  BY <1>1, <1>2, <1>3, <1>4, <1>5, <1>6 DEF r

\* list_add(): to the front.
LEMMA ConsFacts ==
  ASSUME NEW S, NEW s \in Seq(S), NEW y \in S
  PROVE  /\ <<y>> \o s \in Seq(S) /\ <<y>> \o s # <<>>
         /\ \A x : In(x, <<y>> \o s) <=> In(x, s) \/ x = y
         /\ \A x : Once(x, s) /\ (x = y => ~In(x, s)) => Once(x, <<y>> \o s)
         /\ \A x, z : Ahead(x, z, s) => Ahead(x, z, <<y>> \o s)
<1> DEFINE r == <<y>> \o s
<1>1. /\ r \in Seq(S) /\ Len(r) = Len(s) + 1 /\ Len(s) \in Nat
      /\ \A m \in 2..Len(s) + 1 : r[m] = s[m - 1]
      /\ r[1] = y
  OBVIOUS
<1> HIDE DEF r
<1>2. r # <<>>
  BY <1>1
<1>7. \A m \in 1..Len(s) : m + 1 \in 1..Len(r) /\ r[m + 1] = s[m]
  BY <1>1
<1>3. ASSUME NEW x PROVE In(x, r) <=> In(x, s) \/ x = y
  BY <1>1, <1>7 DEF In
<1>4. ASSUME NEW x, Once(x, s), x = y => ~In(x, s) PROVE Once(x, r)
  <2>1. SUFFICES ASSUME NEW m \in 1..Len(r), NEW n \in 1..Len(r), r[m] = x, r[n] = x
                 PROVE  m = n
    BY DEF Once
  <2>2. \A i \in 1..Len(r) : i = 1 \/ (i - 1 \in 1..Len(s) /\ r[i] = s[i - 1])
    BY <1>1
  <2>3. CASE x = y
    <3>1. m = 1
      BY <2>1, <2>2, <2>3, <1>4 DEF In
    <3>2. n = 1
      BY <2>1, <2>2, <2>3, <1>4 DEF In
    <3> QED
      BY <3>1, <3>2
  <2>4. CASE x # y
    <3>1. m - 1 \in 1..Len(s) /\ n - 1 \in 1..Len(s) /\ s[m - 1] = x /\ s[n - 1] = x
      BY <2>1, <2>2, <2>4, <1>1
    <3>2. m - 1 = n - 1
      BY <3>1, <1>4 DEF Once
    <3> QED
      BY <3>2, <1>1
  <2> QED
    BY <2>3, <2>4
<1>5. ASSUME NEW x, NEW z, Ahead(x, z, s) PROVE Ahead(x, z, r)
  <2>1. PICK m \in 1..Len(s), n \in 1..Len(s) : m < n /\ s[m] = x /\ s[n] = z
    BY <1>5 DEF Ahead
  <2>2. m + 1 < n + 1
    BY <2>1, <1>1
  <2> QED
    BY <2>1, <2>2, <1>7 DEF Ahead
<1> QED
  BY <1>1, <1>2, <1>3, <1>4, <1>5 DEF r

\* list_del_init() of the first item.
LEMMA TailFacts ==
  ASSUME NEW S, NEW s \in Seq(S), s # <<>>
  PROVE  /\ Head(s) \in S /\ Tail(s) \in Seq(S)
         /\ \A x : In(x, s) <=> x = Head(s) \/ In(x, Tail(s))
         /\ \A x : Once(x, s) => Once(x, Tail(s)) /\ (x = Head(s) => ~In(x, Tail(s)))
         /\ \A x, y : Ahead(x, y, s) => In(y, Tail(s)) /\ (x = Head(s) \/ Ahead(x, y, Tail(s)))
<1> DEFINE r == Tail(s)
<1>1. /\ r \in Seq(S) /\ Len(s) = Len(r) + 1 /\ Len(r) \in Nat
      /\ \A m \in 1..Len(r) : r[m] = s[m + 1]
      /\ Head(s) = s[1] /\ s[1] \in S
  OBVIOUS
<1> HIDE DEF r
<1>7. \A m \in 2..Len(s) : m - 1 \in 1..Len(r) /\ r[m - 1] = s[m]
  BY <1>1
<1>8. \A m \in 1..Len(s) : m = 1 \/ m \in 2..Len(s)
  BY <1>1
<1>9. \A m \in 1..Len(r) : m + 1 \in 1..Len(s) /\ s[m + 1] = r[m]
  BY <1>1
<1>3. ASSUME NEW x PROVE In(x, s) <=> x = Head(s) \/ In(x, r)
  <2>1. ASSUME In(x, s) PROVE x = Head(s) \/ In(x, r)
    BY <2>1, <1>1, <1>7, <1>8 DEF In
  <2>2. ASSUME In(x, r) PROVE In(x, s)
    BY <2>2, <1>9 DEF In
  <2>3. ASSUME x = Head(s) PROVE In(x, s)
    <3>1. 1 \in 1..Len(s)
      BY <1>1
    <3> QED
      BY <3>1, <2>3, <1>1 DEF In
  <2> QED
    BY <2>1, <2>2, <2>3
<1>4. ASSUME NEW x, Once(x, s) PROVE Once(x, r) /\ (x = Head(s) => ~In(x, r))
  <2>1. Once(x, r)
    <3>1. SUFFICES ASSUME NEW m \in 1..Len(r), NEW n \in 1..Len(r), r[m] = x, r[n] = x
                   PROVE  m = n
      BY DEF Once
    <3>2. m + 1 = n + 1
      BY <1>4, <1>9, <3>1 DEF Once
    <3> QED
      BY <1>1, <3>2
  <2>2. 1 \in 1..Len(s)
    BY <1>1
  <2>3. ASSUME x = Head(s), NEW m \in 1..Len(r), r[m] = x PROVE FALSE
    <3>1. m + 1 \in 1..Len(s) /\ s[m + 1] = x /\ s[1] = x
      BY <1>1, <1>9, <2>3
    <3>2. m + 1 = 1
      BY <1>4, <2>2, <3>1 DEF Once
    <3> QED
      BY <1>1, <3>2
  <2> QED
    BY <2>1, <2>3 DEF In
<1>5. ASSUME NEW x, NEW y, Ahead(x, y, s) PROVE In(y, r) /\ (x = Head(s) \/ Ahead(x, y, r))
  <2>1. PICK m \in 1..Len(s), n \in 1..Len(s) : m < n /\ s[m] = x /\ s[n] = y
    BY <1>5 DEF Ahead
  <2>2. n \in 2..Len(s) /\ (m = 1 \/ m \in 2..Len(s)) /\ m - 1 < n - 1
    BY <2>1, <1>1, <1>8
  <2> QED
    BY <2>1, <2>2, <1>1, <1>7 DEF Ahead, In
<1> QED
  BY <1>1, <1>3, <1>4, <1>5 DEF r

\* A non-empty set of naturals has a least element.
LEMMA MinIn ==
  ASSUME NEW I \in SUBSET Nat, I # {}
  PROVE  Min(I) \in I
<1> DEFINE R == {ss \in Nat \X Nat : ss[1] < ss[2]}
<1>1. IsWellFoundedOn(R, Nat)
  BY NatLessThanWellFounded, Zenon DEF OpToRel
<1>2. PICK x \in I : \A y \in I : ~(<<y, x>> \in R)
  BY <1>1, WFMin, Zenon
<1>3. \A y \in I : x =< y
  <2> TAKE y \in I
  <2>1. x \in Nat /\ y \in Nat /\ <<y, x>> \in Nat \X Nat
    OBVIOUS
  <2>2. ~(y < x)
    BY <2>1, <1>2
  <2> QED
    BY <2>1, <2>2
<1> QED
  BY <1>3 DEF Min

\* SelectInSeq() finds the first place of w.
LEMMA FirstPlace ==
  ASSUME NEW S, NEW s \in Seq(S), NEW w, In(w, s)
  PROVE  \E i \in 1..Len(s) : s[i] = w /\ RemoveFirst(s, w) = RemoveAt(s, i)
<1> DEFINE I == {i \in 1..Len(s) : s[i] = w}
<1>1. RemoveFirst(s, w) = RemoveAt(s, Min(I))
  BY DEF In, RemoveFirst, SelectInSeq
<1>2. I \in SUBSET Nat /\ I # {}
  BY DEF In
<1>3. Min(I) \in I
  <2> HIDE DEF I
  <2> QED
    BY <1>2, MinIn
<1> QED
  BY <1>1, <1>3

\* list_del_init() of one work.
LEMMA RemoveFacts ==
  ASSUME NEW S, NEW s \in Seq(S), NEW w
  PROVE  LET r == RemoveFirst(s, w) IN
         /\ r \in Seq(S)
         /\ s = <<>> => r = <<>>
         /\ \A x : In(x, r) => In(x, s)
         /\ \A x : x # w /\ In(x, s) => In(x, r)
         /\ \A x : Once(x, s) => Once(x, r)
         /\ Once(w, s) => ~In(w, r)
         /\ \A x, y : x # w /\ y # w /\ Ahead(x, y, s) => Ahead(x, y, r)
<1>1. CASE ~In(w, s)
  <2>1. RemoveFirst(s, w) = s
    BY <1>1 DEF RemoveFirst, In
  <2> QED
    BY <2>1, <1>1
<1>2. CASE In(w, s)
  <2>1. PICK i \in 1..Len(s) : s[i] = w /\ RemoveFirst(s, w) = RemoveAt(s, i)
    BY <1>2, FirstPlace
  <2> DEFINE r == RemoveFirst(s, w)
  <2>2. /\ r \in Seq(S) /\ Len(r) = Len(s) - 1 /\ Len(s) \in Nat
        /\ \A m \in 1..Len(r) : r[m] = IF m < i THEN s[m] ELSE s[m + 1]
    <3> DEFINE p == SubSeq(s, 1, i - 1)
               q == SubSeq(s, i + 1, Len(s))
    <3>1. /\ p \in Seq(S) /\ Len(p) = i - 1 /\ \A m \in 1..i - 1 : p[m] = s[m]
          /\ i - 1 \in Nat /\ Len(s) \in Nat /\ i <= Len(s)
      OBVIOUS
    <3>2. /\ q \in Seq(S) /\ Len(q) = Len(s) - i
          /\ \A m \in 1..Len(s) - i : q[m] = s[i + m]
      OBVIOUS
    <3> HIDE DEF p, q
    <3>3. /\ p \o q \in Seq(S) /\ Len(p \o q) = Len(s) - 1
          /\ \A m \in 1..Len(s) - 1 : (p \o q)[m] = IF m <= i - 1 THEN p[m] ELSE q[m - (i - 1)]
      <4>1. /\ p \o q \in Seq(S) /\ Len(p \o q) = Len(p) + Len(q)
            /\ \A m \in 1..Len(p) + Len(q) :
                 (p \o q)[m] = IF m <= Len(p) THEN p[m] ELSE q[m - Len(p)]
        BY <3>1, <3>2, ConcatProperties
      <4>2. Len(p) + Len(q) = Len(s) - 1
        BY <3>1, <3>2
      <4> QED
        BY <4>1, <4>2, <3>1
    <3>4. r = p \o q
      BY <2>1 DEF RemoveAt, p, q
    <3>5. ASSUME NEW m \in 1..Len(s) - 1, ~(m < i) PROVE q[m - (i - 1)] = s[m + 1]
      <4>1. m - (i - 1) \in 1..Len(s) - i /\ i + (m - (i - 1)) = m + 1
        BY <3>1, <3>5
      <4> QED
        BY <4>1, <3>2
    <3>6. ASSUME NEW m \in 1..Len(s) - 1 PROVE r[m] = IF m < i THEN s[m] ELSE s[m + 1]
      <4> HIDE DEF r
      <4>1. CASE m < i
        BY <4>1, <3>1, <3>3, <3>4
      <4>2. CASE ~(m < i)
        BY <4>2, <3>1, <3>3, <3>4, <3>5
      <4> QED
        BY <4>1, <4>2
    <3> HIDE DEF r
    <3>7. r \in Seq(S) /\ Len(r) = Len(s) - 1 /\ Len(s) \in Nat
      BY <3>1, <3>3, <3>4
    <3> QED
      BY <3>6, <3>7
  <2> HIDE DEF r
  <2>3. \A m \in 1..Len(s) : /\ m < i => m \in 1..Len(r) /\ r[m] = s[m]
                             /\ m > i => m - 1 \in 1..Len(r) /\ r[m - 1] = s[m]
    BY <2>1, <2>2
  <2>4. s # <<>>
    BY <2>1
  <2>5. ASSUME NEW x, In(x, r) PROVE In(x, s)
    <3>1. PICK m \in 1..Len(r) : r[m] = x
      BY <2>5 DEF In
    <3>2. m \in 1..Len(s) /\ m + 1 \in 1..Len(s)
      BY <2>2
    <3> QED
      BY <3>1, <3>2, <2>2 DEF In
  <2>6. ASSUME NEW x, x # w, In(x, s) PROVE In(x, r)
    <3>1. PICK m \in 1..Len(s) : s[m] = x
      BY <2>6 DEF In
    <3>2. m < i \/ m > i
      BY <3>1, <2>1, <2>6, <2>2
    <3> QED
      BY <3>1, <3>2, <2>3 DEF In
  <2>7. ASSUME NEW x, Once(x, s) PROVE Once(x, r)
    <3>1. SUFFICES ASSUME NEW m \in 1..Len(r), NEW n \in 1..Len(r), r[m] = x, r[n] = x
                   PROVE  m = n
      BY DEF Once
    <3> DEFINE M == IF m < i THEN m ELSE m + 1
               N == IF n < i THEN n ELSE n + 1
    <3>2. M \in 1..Len(s) /\ N \in 1..Len(s) /\ s[M] = x /\ s[N] = x
      <4>1. M \in 1..Len(s) /\ s[M] = x
        BY <3>1, <2>2
      <4>2. N \in 1..Len(s) /\ s[N] = x
        BY <3>1, <2>2
      <4> QED
        BY <4>1, <4>2
    <3>3. M = N
      BY <3>2, <2>7 DEF Once
    <3> QED
      BY <3>3, <2>2
  <2>8. ASSUME Once(w, s) PROVE ~In(w, r)
    <3>1. SUFFICES ASSUME NEW m \in 1..Len(r), r[m] = w PROVE FALSE
      BY DEF In
    <3> DEFINE M == IF m < i THEN m ELSE m + 1
    <3>2. M \in 1..Len(s) /\ s[M] = w /\ M # i
      BY <3>1, <2>2
    <3> QED
      BY <3>2, <2>1, <2>8 DEF Once
  <2>9. ASSUME NEW x, NEW y, x # w, y # w, Ahead(x, y, s) PROVE Ahead(x, y, r)
    <3>1. PICK m \in 1..Len(s), n \in 1..Len(s) : m < n /\ s[m] = x /\ s[n] = y
      BY <2>9 DEF Ahead
    <3> DEFINE M == IF m < i THEN m ELSE m - 1
               N == IF n < i THEN n ELSE n - 1
    <3>2. m # i /\ n # i
      BY <3>1, <2>1, <2>9
    <3>3. M \in 1..Len(r) /\ N \in 1..Len(r) /\ r[M] = x /\ r[N] = y
      BY <3>1, <3>2, <2>3, <2>1
    <3>4. M < N
      BY <3>1, <3>2, <2>1, <2>2
    <3> HIDE DEF M, N
    <3> QED
      BY <3>3, <3>4 DEF Ahead
  <2> QED
    BY <2>2, <2>4, <2>5, <2>6, <2>7, <2>8, <2>9 DEF r
<1> QED
  BY <1>1, <1>2

-----------------------------------------------------------------------------
(* Steps *)

\* The three ways into the loop of run_workqueue() under cwq->lock: c takes
\* the next item off its list when it has finished i, with stk left to return to.
TakeFrom(c, stk, i) ==
  /\ Free(c) /\ TakeFirst(c, stk) /\ Account(c, i)
  /\ UNCHANGED <<works, lock, state, should_stop, env, wrk, cpu, kind, at, done>>

Take(c) ==
  \/ pc[c] = "run" /\ TakeFrom(c, <<>>, None)
  \/ pc[c] \in {"func", "end"} /\ TakeFrom(c, Front(stack[c]), Last(stack[c]))
  \/ /\ pc[c] = "func" /\ NCPU = 1 /\ Len(stack[c]) < MaxDepth /\ worklist[c] # <<>>
     /\ TakeFrom(c, stack[c], None)

\* Whoever may run does so on a CPU that is up and not occupied.
LEMMA RunsOnline ==
  ASSUME NEW a
  PROVE  /\ RunsOn(a) \subseteq online
         /\ \A c \in RunsOn(a) : ~Occupied(c)
         /\ a \in online => RunsOn(a) \subseteq {a}
BY DEF RunsOn

\* Next, with the steps of run_workqueue() as one.
LEMMA NextCases ==
  ASSUME Next
  PROVE  \/ \E a \in Agent : \/ \E w \in load.works : queue_work(a, w) \/ queue_delayed_work(a, w)
                             \/ SetWqData(a) \/ ListAdd(a) \/ SetWqDataUnlocked(a) \/ AddTimer(a)
         \/ \E w \in Work : delayed_work_timer_fn(w)
         \/ \E c \in CPU : /\ RunsOn(c) # {}
                           /\ \/ prepare_to_wait(c) \/ TestList(c) \/ StopCheck(c)
                              \/ Take(c) \/ CallFunc(c)
         \/ \E t \in Task :
              \/ flush_workqueue(t) \/ Steal(t)
              \/ \E c \in CPU : CpuDead(t, c)
              \/ \E w \in load.works, k \in CancelCalls : Cancel(t, w, k)
              \/ flush_cpu_workqueue(t) \/ FlushWait(t) \/ FlushReturns(t)
              \/ DelTimer(t) \/ Grab(t) \/ GetCwq(t) \/ LockCwq(t)
              \/ wait_on_work(t) \/ wait_on_cpu_work(t) \/ WorkWait(t) \/ ClearBit(t)
              \/ kthread_stop(t) \/ Stopped(t)
<1>1. ASSUME NEW c \in CPU, run_workqueue(c) \/ FuncReturns(c) \/ FlushOwnQueue(c)
      PROVE  Take(c)
  <2>1. CASE run_workqueue(c)
    BY <2>1, Zenon DEF run_workqueue, Take, TakeFrom
  <2>2. CASE FuncReturns(c)
    BY <2>2, Zenon DEF FuncReturns, Take, TakeFrom
  <2>3. CASE FlushOwnQueue(c)
    BY <2>3, Zenon DEF FlushOwnQueue, Take, TakeFrom
  <2> QED
    BY <1>1, <2>1, <2>2, <2>3
<1> QED
  BY <1>1 DEF Next, Insert, Worker, Wait

\* The stack without its innermost function.
LEMMA FrontFacts ==
  ASSUME NEW S, NEW s \in Seq(S), s # <<>>
  PROVE  /\ Front(s) \in Seq(S) /\ Last(s) \in S /\ Len(Front(s)) = Len(s) - 1
         /\ \A x : In(x, Front(s)) => In(x, s)
         /\ \A x : In(x, s) => In(x, Front(s)) \/ x = Last(s)
         /\ In(Last(s), s)
<1> DEFINE f == Front(s)
<1>1. Len(s) \in Nat /\ Len(s) >= 1 /\ Last(s) = s[Len(s)] /\ Last(s) \in S
  BY DEF Last
<1>2. /\ f \in Seq(S) /\ Len(f) = Len(s) - 1
      /\ \A m \in 1..Len(f) : f[m] = s[m]
  <2> DEFINE n == Len(s) - 1
  <2>1. n \in Nat /\ \A m \in 1..n : s[m] \in S
    BY <1>1
  <2> HIDE DEF n
  <2>2. /\ SubSeq(s, 1, n) \in Seq(S)
        /\ Len(SubSeq(s, 1, n)) = IF 1 <= n THEN n - 1 + 1 ELSE 0
        /\ \A m \in 1..n - 1 + 1 : SubSeq(s, 1, n)[m] = s[1 + m - 1]
    BY <2>1, SubSeqProperties
  <2>3. f = SubSeq(s, 1, n)
    BY DEF Front, n
  <2>4. Len(f) = n /\ f \in Seq(S)
    BY <2>1, <2>2, <2>3
  <2>5. \A m \in 1..n : f[m] = s[m]
    BY <2>1, <2>2, <2>3
  <2> QED
    BY <2>4, <2>5 DEF n
<1> HIDE DEF f
<1>3. \A x : In(x, f) => In(x, s)
  BY <1>1, <1>2 DEF In
<1>4. \A x : In(x, s) => In(x, f) \/ x = Last(s)
  <2> SUFFICES ASSUME NEW x, NEW m \in 1..Len(s), s[m] = x, x # Last(s) PROVE In(x, f)
    BY DEF In
  <2>1. m \in 1..Len(f)
    BY <1>1, <1>2
  <2> QED
    BY <2>1, <1>2 DEF In
<1>5. In(Last(s), s)
  BY <1>1 DEF In
<1> QED
  BY <1>1, <1>2, <1>3, <1>4, <1>5 DEF f

\* c has finished i, returns to stk and goes on with the rest of it ...
Leaves(c, stk, i) ==
  /\ \A x \in Item : In(x, stk) => In(x, stack[c])
  /\ \A x \in Item : In(x, stack[c]) => In(x, stk) \/ x = i
  /\ Flat => stk = <<>>
  /\ Account(c, i)

\* ... because its list is empty, ...
TakesNone(c, stk) ==
  /\ worklist[c] = <<>> /\ UNCHANGED worklist
  /\ current_work' = [current_work EXCEPT ![c] = None]
  /\ stack' = [stack EXCEPT ![c] = stk]
  /\ pc' = [pc EXCEPT ![c] = IF stk = <<>> THEN "prepare" ELSE "func"]

\* ... or takes h, which leaves the list s.
Takes(c, stk, h, s) ==
  /\ worklist[c] # <<>> /\ h = Head(worklist[c])
  /\ \A x : In(x, worklist[c]) <=> x = h \/ In(x, s)
  /\ \A x : Once(x, worklist[c]) => Once(x, s) /\ (x = h => ~In(x, s))
  /\ \A x, y : Ahead(x, y, worklist[c]) => In(y, s) /\ (x = h \/ Ahead(x, y, s))
  /\ worklist' = [worklist EXCEPT ![c] = s]
  /\ current_work' = [current_work EXCEPT ![c] = h]
  /\ pc' = [pc EXCEPT ![c] = "clear"]
  /\ \E r \in Seq(Item) :
       /\ stack' = [stack EXCEPT ![c] = r]
       /\ r # <<>> /\ Last(r) = h /\ Len(r) = Len(stk) + 1
       /\ stk = <<>> => r[1] = h
       /\ \A x : In(x, r) <=> In(x, stk) \/ x = h

\* What a step of run_workqueue()'s loop does.
LEMMA TakeEffect ==
  ASSUME IInv, NEW c \in CPU, Take(c)
  PROVE  /\ pc[c] \in {"run", "func", "end"} /\ Free(c)
         /\ UNCHANGED <<works, lock, state, should_stop, env, wrk, cpu, kind, at, done>>
         /\ \E stk \in Seq(Item), i \in Item \cup {None} :
              /\ Leaves(c, stk, i)
              /\ TakesNone(c, stk) \/ \E h \in Item, s \in Seq(Item) : Takes(c, stk, h, s)
<1>0. /\ stack[c] \in Seq(Item) /\ worklist[c] \in Seq(Item) /\ stack \in [CPU -> Seq(Item)]
      /\ pc[c] \in {"func", "end"} => stack[c] # <<>>
      /\ pc[c] = "run" => stack[c] = <<>>
      /\ Flat /\ stack[c] # <<>> => Len(stack[c]) = 1
  BY DEF IInv, TypeOK, WorkerInv, InsertPlace, CurrentInv
<1>1. PICK stk \in Seq(Item), i \in Item \cup {None} :
        /\ TakeFrom(c, stk, i) /\ pc[c] \in {"run", "func", "end"}
        /\ \A x \in Item : In(x, stk) => In(x, stack[c])
        /\ \A x \in Item : In(x, stack[c]) => In(x, stk) \/ x = i
        /\ Flat => stk = <<>>
  <2>1. CASE pc[c] = "run" /\ TakeFrom(c, <<>>, None)
    BY <2>1, <1>0
  <2>2. CASE pc[c] \in {"func", "end"} /\ TakeFrom(c, Front(stack[c]), Last(stack[c]))
    <3>1. PICK f \in Seq(Item), i \in Item : f = Front(stack[c]) /\ i = Last(stack[c])
      BY <2>2, <1>0, FrontFacts
    <3>2. /\ \A x : In(x, f) => In(x, stack[c])
          /\ \A x : In(x, stack[c]) => In(x, f) \/ x = i
          /\ Len(f) = Len(stack[c]) - 1
      BY <2>2, <1>0, <3>1, FrontFacts
    <3>3. Flat => f = <<>>
      <4>1. ASSUME Flat PROVE Len(f) = 0
        <5>1. Len(stack[c]) = 1
          BY <4>1, <1>0, <2>2
        <5> QED
          BY <5>1, <3>2
      <4> QED
        BY <3>1, <4>1
    <3> QED
      BY <2>2, <3>1, <3>2, <3>3
  <2>3. CASE /\ pc[c] = "func" /\ NCPU = 1 /\ Len(stack[c]) < MaxDepth /\ worklist[c] # <<>>
             /\ TakeFrom(c, stack[c], None)
    <3>1. ~Flat
      <4>1. Len(stack[c]) \in Nat /\ Len(stack[c]) # 0
        BY <1>0, <2>3
      <4> QED
        BY <2>3, <4>1, WorkqueueAssumption DEF Flat
    <3> QED
      BY <2>3, <3>1, <1>0
  <2> QED
    BY <2>1, <2>2, <2>3 DEF Take
<1>2. Leaves(c, stk, i) /\ Free(c)
      /\ UNCHANGED <<works, lock, state, should_stop, env, wrk, cpu, kind, at, done>>
  BY <1>1, Zenon DEF Leaves, TakeFrom
<1>3. CASE worklist[c] = <<>>
  <2>1. TakesNone(c, stk)
    BY <1>1, <1>3 DEF TakeFrom, TakeFirst, Goto, TakesNone
  <2> QED
    BY <1>1, <1>2, <2>1
<1>4. CASE worklist[c] # <<>>
  <2>1. PICK h \in Item, s \in Seq(Item), r \in Seq(Item) :
          h = Head(worklist[c]) /\ s = Tail(worklist[c]) /\ r = Append(stk, h)
    <3>1. Head(worklist[c]) \in Item /\ Tail(worklist[c]) \in Seq(Item)
      BY <1>0, <1>4, TailFacts
    <3>2. Append(stk, Head(worklist[c])) \in Seq(Item)
      BY <3>1, AppendFacts
    <3> QED
      BY <3>1, <3>2
  <2>2. /\ worklist' = [worklist EXCEPT ![c] = s] /\ current_work' = [current_work EXCEPT ![c] = h]
        /\ stack' = [stack EXCEPT ![c] = r] /\ pc' = [pc EXCEPT ![c] = "clear"]
    BY <1>1, <1>4, <2>1 DEF TakeFrom, TakeFirst, Goto
  <2>3. /\ \A x : In(x, worklist[c]) <=> x = h \/ In(x, s)
        /\ \A x : Once(x, worklist[c]) => Once(x, s) /\ (x = h => ~In(x, s))
        /\ \A x, y : Ahead(x, y, worklist[c]) => In(y, s) /\ (x = h \/ Ahead(x, y, s))
    BY <1>0, <1>4, <2>1, TailFacts
  <2>4. /\ r # <<>> /\ Len(r) = Len(stk) + 1 /\ r[Len(stk) + 1] = h /\ Last(r) = h
        /\ stk = <<>> => r[1] = h
    BY <2>1 DEF Last
  <2>5. \A x : In(x, r) <=> In(x, stk) \/ x = h
    BY <2>1, AppendFacts
  <2>6. Takes(c, stk, h, s)
    BY <1>4, <2>1, <2>2, <2>3, <2>4, <2>5 DEF Takes
  <2> QED
    BY <1>1, <1>2, <2>6
<1> QED
  BY <1>3, <1>4

\* for_each_cpu_mask() goes on with a queue, or ends behind the last one.
Advances(t, loop, out) ==
  \/ /\ kind[t] # "cleanup" /\ cpu[t] + 1 \in CPU
     /\ pc' = [pc EXCEPT ![t] = loop] /\ cpu' = [cpu EXCEPT ![t] = cpu[t] + 1]
  \/ /\ kind[t] = "cleanup" \/ \A c \in CPU : c <= cpu[t]
     /\ pc' = [pc EXCEPT ![t] = out] /\ cpu' = cpu

\* for_each_cpu_mask() from a queue.
LEMMA NextCpuEffect ==
  ASSUME NEW t \in Task, cpu[t] \in CPU, NEW loop, NEW out, NextCpu(t, loop, out)
  PROVE  Advances(t, loop, out)
<1>1. CASE cpu[t] < NCPU /\ kind[t] # "cleanup"
  BY <1>1, CpuNumbers DEF NextCpu, Goto, Advances
<1>2. CASE ~(cpu[t] < NCPU) \/ kind[t] = "cleanup"
  <2>1. kind[t] = "cleanup" \/ \A c \in CPU : c <= cpu[t]
    BY <1>2, CpuNumbers
  <2> QED
    BY <1>2, <2>1 DEF NextCpu, Goto, Advances
<1> QED
  BY <1>1, <1>2

\* A barrier of t goes into list r.
Inserts(t, r) ==
  /\ worklist' = [worklist EXCEPT ![cpu[t]] = r]
  /\ state' = [state EXCEPT ![cpu[t]] = "RUNNING"]
  /\ done' = [done EXCEPT ![t] = FALSE]
  /\ cpu' = cpu

\* flush_cpu_workqueue() waits at a busy queue and goes on behind an idle one.
LEMMA FlushCpuEffect ==
  ASSUME IInv, NEW t \in Task, flush_cpu_workqueue(t)
  PROVE  /\ pc[t] = "flush" /\ cpu[t] \in CPU /\ kind[t] \in {"flush", "cleanup"} /\ Free(cpu[t])
         /\ UNCHANGED <<pending, data, timer, current_work, lock, stack, should_stop, online, load,
                        wrk, kind, at, owed>>
         /\ \/ /\ Busy(cpu[t]) /\ Inserts(t, Append(worklist[cpu[t]], t))
               /\ pc' = [pc EXCEPT ![t] = "flushwait"]
            \/ /\ ~Busy(cpu[t]) /\ Advances(t, "flush", "flushed")
               /\ UNCHANGED <<worklist, state, done>>
<1>1. pc[t] = "flush" /\ cpu[t] \in CPU /\ kind[t] \in {"flush", "cleanup"}
  BY DEF IInv, TaskInv, FlushPlace, flush_cpu_workqueue
<1>2. CASE Busy(cpu[t])
  BY <1>1, <1>2 DEF flush_cpu_workqueue, InsertBarrier, WakeWorker, Inserts, Goto, works, env
<1>3. CASE ~Busy(cpu[t])
  <2>1. NextCpu(t, "flush", "flushed")
    BY <1>3 DEF flush_cpu_workqueue
  <2> QED
    BY <1>1, <1>3, <2>1, NextCpuEffect DEF flush_cpu_workqueue, works, env
<1> QED
  BY <1>2, <1>3

\* wait_on_cpu_work() waits where the work runs and goes on where it does not.
LEMMA WaitCpuEffect ==
  ASSUME IInv, NEW t \in Task, wait_on_cpu_work(t)
  PROVE  /\ pc[t] = "waitcpu" /\ cpu[t] \in CPU /\ kind[t] \in CancelCalls /\ Free(cpu[t])
         /\ UNCHANGED <<pending, data, timer, current_work, lock, stack, should_stop, online, load,
                        wrk, kind, at, owed>>
         /\ \/ /\ current_work[cpu[t]] = wrk[t] /\ Inserts(t, <<t>> \o worklist[cpu[t]])
               /\ pc' = [pc EXCEPT ![t] = "waitwork"]
            \/ /\ current_work[cpu[t]] # wrk[t] /\ Advances(t, "waitcpu", "clearbit")
               /\ UNCHANGED <<worklist, state, done>>
<1>1. pc[t] = "waitcpu" /\ cpu[t] \in CPU /\ kind[t] \in CancelCalls
  BY DEF IInv, TaskInv, CancelPlace, wait_on_cpu_work
<1>2. CASE current_work[cpu[t]] = wrk[t]
  BY <1>1, <1>2 DEF wait_on_cpu_work, InsertBarrier, WakeWorker, Inserts, Goto, works, env
<1>3. CASE current_work[cpu[t]] # wrk[t]
  <2>1. NextCpu(t, "waitcpu", "clearbit")
    BY <1>3 DEF wait_on_cpu_work
  <2> QED
    BY <1>1, <1>3, <2>1, NextCpuEffect DEF wait_on_cpu_work, works, env
<1> QED
  BY <1>2, <1>3

-----------------------------------------------------------------------------
(* Who moves *)

\* Nobody but a moves, ...
Mover(a) ==
  /\ \A b \in Agent : b # a => pc'[b] = pc[b] /\ cpu'[b] = cpu[b] /\ wrk'[b] = wrk[b]
  /\ \A t \in Task : t # a => kind'[t] = kind[t] /\ at'[t] = at[t]

\* ... and a moves from a place in P to one in Q.
Moves(a, P, Q) == a \in Agent /\ Mover(a) /\ pc[a] \in P /\ pc'[a] \in Q

\* queue_work: a goes from idle or func to set; changes pending and its cpu,
\* wrk.
LEMMA QueueWorkMoves ==
  ASSUME IInv, NEW a \in Agent, NEW w \in load.works, queue_work(a, w)
  PROVE  /\ Moves(a, {"idle", "func"}, {"set"})
         /\ UNCHANGED <<data, timer, worklist, current_work, lock, stack, state, should_stop,
                       online, load, kind, at, done, owed>>
<1>0. /\ pc \in [Agent -> Place] /\ wrk \in [Agent -> Work \cup {None}]
      /\ cpu \in [Agent -> CPU \cup {None}] /\ at \in [Task -> CPU \cup {None}]
      /\ kind \in [Task -> Calls \cup {"none", "flush", "cleanup"}]
  BY DEF IInv, TypeOK, TaskInv
<1> QED
  BY <1>0, Agents DEF Moves, Mover, queue_work, Goto, MayCall, Outside, Return, cwq,
      worker, env

\* queue_delayed_work: a goes from idle or func to setnow; changes pending and
\* its wrk.
LEMMA QueueDelayedWorkMoves ==
  ASSUME IInv, NEW a \in Agent, NEW w \in load.works, queue_delayed_work(a, w)
  PROVE  /\ Moves(a, {"idle", "func"}, {"setnow"})
         /\ UNCHANGED <<data, timer, worklist, current_work, lock, stack, state, should_stop,
                       online, load, cpu, kind, at, done, owed>>
<1>0. /\ pc \in [Agent -> Place] /\ wrk \in [Agent -> Work \cup {None}]
      /\ cpu \in [Agent -> CPU \cup {None}] /\ at \in [Task -> CPU \cup {None}]
      /\ kind \in [Task -> Calls \cup {"none", "flush", "cleanup"}]
  BY DEF IInv, TypeOK, TaskInv
<1> QED
  BY <1>0, Agents DEF Moves, Mover, queue_delayed_work, Goto, MayCall, Outside, Return,
      cwq, worker, env

\* SetWqData: a goes from set to add; changes lock, data.
LEMMA SetWqDataMoves ==
  ASSUME IInv, NEW a \in Agent, SetWqData(a)
  PROVE  /\ Moves(a, {"set"}, {"add"})
         /\ UNCHANGED <<pending, timer, worklist, current_work, stack, state, should_stop, online,
                       load, wrk, cpu, kind, at, done, owed>>
<1>0. /\ pc \in [Agent -> Place] /\ wrk \in [Agent -> Work \cup {None}]
      /\ cpu \in [Agent -> CPU \cup {None}] /\ at \in [Task -> CPU \cup {None}]
      /\ kind \in [Task -> Calls \cup {"none", "flush", "cleanup"}]
  BY DEF IInv, TypeOK, TaskInv
<1> QED
  BY <1>0, Agents DEF Moves, Mover, SetWqData, Goto, worker, env

\* ListAdd: a goes from add to idle or func; changes worklist, state, lock and
\* its wrk, cpu, kind.
LEMMA ListAddMoves ==
  ASSUME IInv, NEW a \in Agent, ListAdd(a)
  PROVE  /\ Moves(a, {"add"}, {"idle", "func"})
         /\ UNCHANGED <<pending, data, timer, current_work, stack, should_stop, online, load, at,
                       done, owed>>
<1>0. /\ pc \in [Agent -> Place] /\ wrk \in [Agent -> Work \cup {None}]
      /\ cpu \in [Agent -> CPU \cup {None}] /\ at \in [Task -> CPU \cup {None}]
      /\ kind \in [Task -> Calls \cup {"none", "flush", "cleanup"}]
  BY DEF IInv, TypeOK, TaskInv
<1> QED
  BY <1>0, Agents DEF Moves, Mover, ListAdd, Return, Goto, Outside, works, env

\* SetWqDataUnlocked: a goes from setnow to arm; changes data.
LEMMA SetWqDataUnlockedMoves ==
  ASSUME IInv, NEW a \in Agent, SetWqDataUnlocked(a)
  PROVE  /\ Moves(a, {"setnow"}, {"arm"})
         /\ UNCHANGED <<pending, timer, worklist, current_work, lock, stack, state, should_stop,
                       online, load, wrk, cpu, kind, at, done, owed>>
<1>0. /\ pc \in [Agent -> Place] /\ wrk \in [Agent -> Work \cup {None}]
      /\ cpu \in [Agent -> CPU \cup {None}] /\ at \in [Task -> CPU \cup {None}]
      /\ kind \in [Task -> Calls \cup {"none", "flush", "cleanup"}]
  BY DEF IInv, TypeOK, TaskInv
<1> QED
  BY <1>0, Agents DEF Moves, Mover, SetWqDataUnlocked, Goto, cwq, worker, env

\* AddTimer: a goes from arm to idle or func; changes timer and its wrk, cpu,
\* kind.
LEMMA AddTimerMoves ==
  ASSUME IInv, NEW a \in Agent, AddTimer(a)
  PROVE  /\ Moves(a, {"arm"}, {"idle", "func"})
         /\ UNCHANGED <<pending, data, worklist, current_work, lock, stack, state, should_stop,
                       online, load, at, done, owed>>
<1>0. /\ pc \in [Agent -> Place] /\ wrk \in [Agent -> Work \cup {None}]
      /\ cpu \in [Agent -> CPU \cup {None}] /\ at \in [Task -> CPU \cup {None}]
      /\ kind \in [Task -> Calls \cup {"none", "flush", "cleanup"}]
  BY DEF IInv, TypeOK, TaskInv
<1> QED
  BY <1>0, Agents DEF Moves, Mover, AddTimer, Return, Goto, Outside, cwq, worker, env

\* delayed_work_timer_fn: w goes from idle to set; changes timer and its cpu,
\* wrk.
LEMMA DelayedWorkTimerFnMoves ==
  ASSUME IInv, NEW w \in Work, delayed_work_timer_fn(w)
  PROVE  /\ Moves(w, {"idle"}, {"set"})
         /\ UNCHANGED <<pending, data, worklist, current_work, lock, stack, state, should_stop,
                       online, load, kind, at, done, owed>>
<1>0. /\ pc \in [Agent -> Place] /\ wrk \in [Agent -> Work \cup {None}]
      /\ cpu \in [Agent -> CPU \cup {None}] /\ at \in [Task -> CPU \cup {None}]
      /\ kind \in [Task -> Calls \cup {"none", "flush", "cleanup"}]
  BY DEF IInv, TypeOK, TaskInv
<1> QED
  BY <1>0, Agents DEF Moves, Mover, delayed_work_timer_fn, Goto, cwq, worker, env

\* prepare_to_wait: c goes from prepare to test; changes state.
LEMMA PrepareToWaitMoves ==
  ASSUME IInv, NEW c \in CPU, prepare_to_wait(c)
  PROVE  /\ Moves(c, {"prepare"}, {"test"})
         /\ UNCHANGED <<pending, data, timer, worklist, current_work, lock, stack, should_stop,
                       online, load, wrk, cpu, kind, at, done, owed>>
<1>0. /\ pc \in [Agent -> Place] /\ wrk \in [Agent -> Work \cup {None}]
      /\ cpu \in [Agent -> CPU \cup {None}] /\ at \in [Task -> CPU \cup {None}]
      /\ kind \in [Task -> Calls \cup {"none", "flush", "cleanup"}]
  BY DEF IInv, TypeOK, TaskInv
<1> QED
  BY <1>0, Agents DEF Moves, Mover, prepare_to_wait, Goto, works, cwq, env

\* TestList: c goes from test to sched or stopcheck; changes state.
LEMMA TestListMoves ==
  ASSUME IInv, NEW c \in CPU, TestList(c)
  PROVE  /\ Moves(c, {"test"}, {"sched", "stopcheck"})
         /\ UNCHANGED <<pending, data, timer, worklist, current_work, lock, stack, should_stop,
                       online, load, wrk, cpu, kind, at, done, owed>>
<1>0. /\ pc \in [Agent -> Place] /\ wrk \in [Agent -> Work \cup {None}]
      /\ cpu \in [Agent -> CPU \cup {None}] /\ at \in [Task -> CPU \cup {None}]
      /\ kind \in [Task -> Calls \cup {"none", "flush", "cleanup"}]
  BY DEF IInv, TypeOK, TaskInv
<1> QED
  BY <1>0, Agents DEF Moves, Mover, TestList, Goto, works, cwq, env

\* StopCheck: c goes from stopcheck or sched to exit or run.
LEMMA StopCheckMoves ==
  ASSUME IInv, NEW c \in CPU, StopCheck(c)
  PROVE  /\ Moves(c, {"stopcheck", "sched"}, {"exit", "run"})
         /\ UNCHANGED <<pending, data, timer, worklist, current_work, lock, stack, state,
                       should_stop, online, load, wrk, cpu, kind, at, done, owed>>
<1>0. /\ pc \in [Agent -> Place] /\ wrk \in [Agent -> Work \cup {None}]
      /\ cpu \in [Agent -> CPU \cup {None}] /\ at \in [Task -> CPU \cup {None}]
      /\ kind \in [Task -> Calls \cup {"none", "flush", "cleanup"}]
  BY DEF IInv, TypeOK, TaskInv
<1> QED
  BY <1>0, Agents DEF Moves, Mover, StopCheck, Goto, works, cwq, worker, env

\* Take: c goes from run or func or end to prepare or func or clear; changes
\* current_work, worklist, stack, owed.
LEMMA TakeMoves ==
  ASSUME IInv, NEW c \in CPU, Take(c)
  PROVE  /\ Moves(c, {"run", "func", "end"}, {"prepare", "func", "clear"})
         /\ UNCHANGED <<pending, data, timer, lock, state, should_stop, online, load, wrk, cpu,
                       kind, at, done>>
<1>1. PICK stk \in Seq(Item) :
        TakesNone(c, stk) \/ \E h \in Item, s \in Seq(Item) : Takes(c, stk, h, s)
  BY TakeEffect
<1>2. /\ pc[c] \in {"run", "func", "end"}
      /\ UNCHANGED <<pending, data, timer, lock, state, should_stop, online, load, wrk, cpu, kind,
                     at, done>>
  BY TakeEffect DEF works, env
<1> QED
  BY <1>1, <1>2, Agents DEF Moves, Mover, IInv, TypeOK, TakesNone, Takes

\* CallFunc: c goes from clear to func or end; changes pending, done.
LEMMA CallFuncMoves ==
  ASSUME IInv, NEW c \in CPU, CallFunc(c)
  PROVE  /\ Moves(c, {"clear"}, {"func", "end"})
         /\ UNCHANGED <<data, timer, worklist, current_work, lock, stack, state, should_stop,
                       online, load, wrk, cpu, kind, at, owed>>
<1>0. /\ pc \in [Agent -> Place] /\ wrk \in [Agent -> Work \cup {None}]
      /\ cpu \in [Agent -> CPU \cup {None}] /\ at \in [Task -> CPU \cup {None}]
      /\ kind \in [Task -> Calls \cup {"none", "flush", "cleanup"}]
  BY DEF IInv, TypeOK, TaskInv
<1> QED
  BY <1>0, Agents DEF Moves, Mover, CallFunc, Goto, cwq, worker, env

\* flush_workqueue: t goes from idle to flush; changes owed and its kind, cpu.
LEMMA FlushWorkqueueMoves ==
  ASSUME IInv, NEW t \in Task, flush_workqueue(t)
  PROVE  /\ Moves(t, {"idle"}, {"flush"})
         /\ UNCHANGED <<pending, data, timer, worklist, current_work, lock, stack, state,
                       should_stop, online, load, wrk, at, done>>
<1>0. /\ pc \in [Agent -> Place] /\ wrk \in [Agent -> Work \cup {None}]
      /\ cpu \in [Agent -> CPU \cup {None}] /\ at \in [Task -> CPU \cup {None}]
      /\ kind \in [Task -> Calls \cup {"none", "flush", "cleanup"}]
  BY DEF IInv, TypeOK, TaskInv
<1> QED
  BY <1>0, Agents DEF Moves, Mover, flush_workqueue, Goto, MayCall, Outside, Return,
      works, cwq, worker, env

\* CpuDead: t goes from idle to flush; changes online and its kind, cpu.
LEMMA CpuDeadMoves ==
  ASSUME IInv, NEW t \in Task, NEW c \in CPU, CpuDead(t, c)
  PROVE  /\ Moves(t, {"idle"}, {"flush"})
         /\ UNCHANGED <<pending, data, timer, worklist, current_work, lock, stack, state,
                       should_stop, load, wrk, at, done, owed>>
<1>0. /\ pc \in [Agent -> Place] /\ wrk \in [Agent -> Work \cup {None}]
      /\ cpu \in [Agent -> CPU \cup {None}] /\ at \in [Task -> CPU \cup {None}]
      /\ kind \in [Task -> Calls \cup {"none", "flush", "cleanup"}]
  BY DEF IInv, TypeOK, TaskInv
<1> QED
  BY <1>0, Agents DEF Moves, Mover, CpuDead, Goto, MayCall, Outside, Return, works, cwq,
      worker

\* Cancel: t goes from idle to grab or deltimer; changes its kind, wrk.
LEMMA CancelMoves ==
  ASSUME IInv, NEW t \in Task, NEW w \in load.works, NEW k \in CancelCalls, Cancel(t, w, k)
  PROVE  /\ Moves(t, {"idle"}, {"grab", "deltimer"})
         /\ UNCHANGED <<pending, data, timer, worklist, current_work, lock, stack, state,
                       should_stop, online, load, cpu, at, done, owed>>
<1>0. /\ pc \in [Agent -> Place] /\ wrk \in [Agent -> Work \cup {None}]
      /\ cpu \in [Agent -> CPU \cup {None}] /\ at \in [Task -> CPU \cup {None}]
      /\ kind \in [Task -> Calls \cup {"none", "flush", "cleanup"}]
  BY DEF IInv, TypeOK, TaskInv
<1> QED
  BY <1>0, Agents DEF Moves, Mover, Cancel, Goto, MayCall, Outside, Return, works, cwq,
      worker, env, CancelCalls

\* Steal: t goes from steal to waiton or grab or deltimer; changes worklist,
\* owed, lock and its at.
LEMMA StealMoves ==
  ASSUME IInv, NEW t \in Task, Steal(t)
  PROVE  /\ Moves(t, {"steal"}, {"waiton", "grab", "deltimer"})
         /\ UNCHANGED <<pending, data, timer, current_work, stack, state, should_stop, online,
                       load, wrk, cpu, kind, done>>
<1>0. /\ pc \in [Agent -> Place] /\ wrk \in [Agent -> Work \cup {None}]
      /\ cpu \in [Agent -> CPU \cup {None}] /\ at \in [Task -> CPU \cup {None}]
      /\ kind \in [Task -> Calls \cup {"none", "flush", "cleanup"}]
  BY DEF IInv, TypeOK, TaskInv
<1> QED
  BY <1>0, Agents DEF Moves, Mover, Steal, Goto, Retry, works, worker, env

\* flush_cpu_workqueue: t goes from flush to flush or flushed or flushwait;
\* changes worklist, state, done and its cpu.
LEMMA FlushCpuWorkqueueMoves ==
  ASSUME IInv, NEW t \in Task, flush_cpu_workqueue(t)
  PROVE  /\ Moves(t, {"flush"}, {"flush", "flushed", "flushwait"})
         /\ UNCHANGED <<pending, data, timer, current_work, lock, stack, should_stop, online, load,
                       wrk, kind, at, owed>>
<1>0. /\ pc \in [Agent -> Place] /\ cpu \in [Agent -> CPU \cup {None}]
  BY DEF IInv, TypeOK
<1>1. /\ pc[t] = "flush" /\ cpu[t] \in CPU /\ kind[t] \in {"flush", "cleanup"} /\ Free(cpu[t])
      /\ UNCHANGED <<pending, data, timer, current_work, lock, stack, should_stop, online, load,
                     wrk, kind, at, owed>>
      /\ \/ /\ Busy(cpu[t]) /\ Inserts(t, Append(worklist[cpu[t]], t))
            /\ pc' = [pc EXCEPT ![t] = "flushwait"]
         \/ /\ ~Busy(cpu[t]) /\ Advances(t, "flush", "flushed")
            /\ UNCHANGED <<worklist, state, done>>
  BY FlushCpuEffect
<1> QED
  BY <1>0, <1>1, Agents DEF Moves, Mover, Advances, Inserts

\* FlushWait: t goes from flushwait to flush or flushed; changes its cpu.
LEMMA FlushWaitMoves ==
  ASSUME IInv, NEW t \in Task, FlushWait(t)
  PROVE  /\ Moves(t, {"flushwait"}, {"flush", "flushed"})
         /\ UNCHANGED <<pending, data, timer, worklist, current_work, lock, stack, state,
                       should_stop, online, load, wrk, kind, at, done, owed>>
<1>0. /\ pc \in [Agent -> Place] /\ wrk \in [Agent -> Work \cup {None}]
      /\ cpu \in [Agent -> CPU \cup {None}] /\ at \in [Task -> CPU \cup {None}]
      /\ kind \in [Task -> Calls \cup {"none", "flush", "cleanup"}]
  BY DEF IInv, TypeOK, TaskInv
<1>1. pc[t] = "flushwait" /\ cpu[t] \in CPU
  BY DEF FlushWait, IInv, TaskInv, FlushPlace
<1>2. Advances(t, "flush", "flushed")
  BY <1>1, NextCpuEffect DEF FlushWait
<1> QED
  BY <1>0, <1>1, <1>2, Agents DEF Moves, Mover, FlushWait, Advances, works, cwq, worker, env

\* FlushReturns: t goes from flushed to stop or idle; changes owed and its wrk,
\* cpu, kind.
LEMMA FlushReturnsMoves ==
  ASSUME IInv, NEW t \in Task, FlushReturns(t)
  PROVE  /\ Moves(t, {"flushed"}, {"stop", "idle"})
         /\ UNCHANGED <<pending, data, timer, worklist, current_work, lock, stack, state,
                       should_stop, online, load, at, done>>
<1>0. /\ pc \in [Agent -> Place] /\ wrk \in [Agent -> Work \cup {None}]
      /\ cpu \in [Agent -> CPU \cup {None}] /\ at \in [Task -> CPU \cup {None}]
      /\ kind \in [Task -> Calls \cup {"none", "flush", "cleanup"}]
  BY DEF IInv, TypeOK, TaskInv
<1> QED
  BY <1>0, Agents DEF Moves, Mover, FlushReturns, Goto, Return, Outside, works, cwq,
      worker, env

\* DelTimer: t goes from deltimer to idle or clearbit or waiton or grab;
\* changes timer and its wrk, cpu, kind.
LEMMA DelTimerMoves ==
  ASSUME IInv, NEW t \in Task, DelTimer(t)
  PROVE  /\ Moves(t, {"deltimer"}, {"idle", "clearbit", "waiton", "grab"})
         /\ UNCHANGED <<pending, data, worklist, current_work, lock, stack, state, should_stop,
                       online, load, at, done, owed>>
<1>0. /\ pc \in [Agent -> Place] /\ wrk \in [Agent -> Work \cup {None}]
      /\ cpu \in [Agent -> CPU \cup {None}] /\ at \in [Task -> CPU \cup {None}]
      /\ kind \in [Task -> Calls \cup {"none", "flush", "cleanup"}]
  BY DEF IInv, TypeOK, TaskInv
<1> QED
  BY <1>0, Agents DEF Moves, Mover, DelTimer, Goto, Return, Outside, cwq, worker, env

\* Grab: t goes from grab to getcwq or waiton; changes pending.
LEMMA GrabMoves ==
  ASSUME IInv, NEW t \in Task, Grab(t)
  PROVE  /\ Moves(t, {"grab"}, {"getcwq", "waiton"})
         /\ UNCHANGED <<data, timer, worklist, current_work, lock, stack, state, should_stop,
                       online, load, wrk, cpu, kind, at, done, owed>>
<1>0. /\ pc \in [Agent -> Place] /\ wrk \in [Agent -> Work \cup {None}]
      /\ cpu \in [Agent -> CPU \cup {None}] /\ at \in [Task -> CPU \cup {None}]
      /\ kind \in [Task -> Calls \cup {"none", "flush", "cleanup"}]
  BY DEF IInv, TypeOK, TaskInv
<1> QED
  BY <1>0, Agents DEF Moves, Mover, Grab, Goto, cwq, worker, env

\* GetCwq: t goes from getcwq to grab or deltimer or lockcwq; changes its cpu.
LEMMA GetCwqMoves ==
  ASSUME IInv, NEW t \in Task, GetCwq(t)
  PROVE  /\ Moves(t, {"getcwq"}, {"grab", "deltimer", "lockcwq"})
         /\ UNCHANGED <<pending, data, timer, worklist, current_work, lock, stack, state,
                       should_stop, online, load, wrk, kind, at, done, owed>>
<1>0. /\ pc \in [Agent -> Place] /\ wrk \in [Agent -> Work \cup {None}]
      /\ cpu \in [Agent -> CPU \cup {None}] /\ at \in [Task -> CPU \cup {None}]
      /\ kind \in [Task -> Calls \cup {"none", "flush", "cleanup"}]
  BY DEF IInv, TypeOK, TaskInv
<1> QED
  BY <1>0, Agents DEF Moves, Mover, GetCwq, Goto, Retry, works, cwq, worker, env

\* LockCwq: t goes from lockcwq to steal or grab or deltimer; changes lock and
\* its at.
LEMMA LockCwqMoves ==
  ASSUME IInv, NEW t \in Task, LockCwq(t)
  PROVE  /\ Moves(t, {"lockcwq"}, {"steal", "grab", "deltimer"})
         /\ UNCHANGED <<pending, data, timer, worklist, current_work, stack, state, should_stop,
                       online, load, wrk, cpu, kind, done, owed>>
<1>0. /\ pc \in [Agent -> Place] /\ wrk \in [Agent -> Work \cup {None}]
      /\ cpu \in [Agent -> CPU \cup {None}] /\ at \in [Task -> CPU \cup {None}]
      /\ kind \in [Task -> Calls \cup {"none", "flush", "cleanup"}]
  BY DEF IInv, TypeOK, TaskInv
<1> QED
  BY <1>0, Agents DEF Moves, Mover, LockCwq, Goto, Retry, works, worker, env

\* wait_on_work: t goes from waiton to clearbit or waitcpu; changes its cpu.
LEMMA WaitOnWorkMoves ==
  ASSUME IInv, NEW t \in Task, wait_on_work(t)
  PROVE  /\ Moves(t, {"waiton"}, {"clearbit", "waitcpu"})
         /\ UNCHANGED <<pending, data, timer, worklist, current_work, lock, stack, state,
                       should_stop, online, load, wrk, kind, at, done, owed>>
<1>0. /\ pc \in [Agent -> Place] /\ wrk \in [Agent -> Work \cup {None}]
      /\ cpu \in [Agent -> CPU \cup {None}] /\ at \in [Task -> CPU \cup {None}]
      /\ kind \in [Task -> Calls \cup {"none", "flush", "cleanup"}]
  BY DEF IInv, TypeOK, TaskInv
<1> QED
  BY <1>0, Agents DEF Moves, Mover, wait_on_work, Goto, works, cwq, worker, env

\* wait_on_cpu_work: t goes from waitcpu to waitcpu or clearbit or waitwork;
\* changes worklist, state, done and its cpu.
LEMMA WaitOnCpuWorkMoves ==
  ASSUME IInv, NEW t \in Task, wait_on_cpu_work(t)
  PROVE  /\ Moves(t, {"waitcpu"}, {"waitcpu", "clearbit", "waitwork"})
         /\ UNCHANGED <<pending, data, timer, current_work, lock, stack, should_stop, online, load,
                       wrk, kind, at, owed>>
<1>0. /\ pc \in [Agent -> Place] /\ cpu \in [Agent -> CPU \cup {None}]
  BY DEF IInv, TypeOK
<1>1. /\ pc[t] = "waitcpu" /\ cpu[t] \in CPU /\ kind[t] \in CancelCalls /\ Free(cpu[t])
      /\ UNCHANGED <<pending, data, timer, current_work, lock, stack, should_stop, online, load,
                     wrk, kind, at, owed>>
      /\ \/ /\ current_work[cpu[t]] = wrk[t] /\ Inserts(t, <<t>> \o worklist[cpu[t]])
            /\ pc' = [pc EXCEPT ![t] = "waitwork"]
         \/ /\ current_work[cpu[t]] # wrk[t] /\ Advances(t, "waitcpu", "clearbit")
            /\ UNCHANGED <<worklist, state, done>>
  BY WaitCpuEffect
<1> QED
  BY <1>0, <1>1, Agents DEF Moves, Mover, Advances, Inserts

\* WorkWait: t goes from waitwork to waitcpu or clearbit; changes its cpu.
LEMMA WorkWaitMoves ==
  ASSUME IInv, NEW t \in Task, WorkWait(t)
  PROVE  /\ Moves(t, {"waitwork"}, {"waitcpu", "clearbit"})
         /\ UNCHANGED <<pending, data, timer, worklist, current_work, lock, stack, state,
                       should_stop, online, load, wrk, kind, at, done, owed>>
<1>0. /\ pc \in [Agent -> Place] /\ wrk \in [Agent -> Work \cup {None}]
      /\ cpu \in [Agent -> CPU \cup {None}] /\ at \in [Task -> CPU \cup {None}]
      /\ kind \in [Task -> Calls \cup {"none", "flush", "cleanup"}]
  BY DEF IInv, TypeOK, TaskInv
<1>1. pc[t] = "waitwork" /\ cpu[t] \in CPU
  BY DEF WorkWait, IInv, TaskInv
<1>2. Advances(t, "waitcpu", "clearbit")
  BY <1>1, NextCpuEffect DEF WorkWait
<1> QED
  BY <1>0, <1>1, <1>2, Agents DEF Moves, Mover, WorkWait, Advances, works, cwq, worker, env

\* ClearBit: t goes from clearbit to idle; changes pending and its wrk, cpu,
\* kind.
LEMMA ClearBitMoves ==
  ASSUME IInv, NEW t \in Task, ClearBit(t)
  PROVE  /\ Moves(t, {"clearbit"}, {"idle"})
         /\ UNCHANGED <<data, timer, worklist, current_work, lock, stack, state, should_stop,
                       online, load, at, done, owed>>
<1>0. /\ pc \in [Agent -> Place] /\ wrk \in [Agent -> Work \cup {None}]
      /\ cpu \in [Agent -> CPU \cup {None}] /\ at \in [Task -> CPU \cup {None}]
      /\ kind \in [Task -> Calls \cup {"none", "flush", "cleanup"}]
  BY DEF IInv, TypeOK, TaskInv
<1> QED
  BY <1>0, Agents DEF Moves, Mover, ClearBit, Return, Goto, Outside, cwq, worker, env

\* kthread_stop: t goes from stop to stopwait; changes should_stop, state.
LEMMA KthreadStopMoves ==
  ASSUME IInv, NEW t \in Task, kthread_stop(t)
  PROVE  /\ Moves(t, {"stop"}, {"stopwait"})
         /\ UNCHANGED <<pending, data, timer, worklist, current_work, lock, stack, online, load,
                       wrk, cpu, kind, at, done, owed>>
<1>0. /\ pc \in [Agent -> Place] /\ wrk \in [Agent -> Work \cup {None}]
      /\ cpu \in [Agent -> CPU \cup {None}] /\ at \in [Task -> CPU \cup {None}]
      /\ kind \in [Task -> Calls \cup {"none", "flush", "cleanup"}]
  BY DEF IInv, TypeOK, TaskInv
<1> QED
  BY <1>0, Agents DEF Moves, Mover, kthread_stop, Goto, works, cwq, env

\* Stopped: t goes from stopwait to idle; changes its wrk, cpu, kind.
LEMMA StoppedMoves ==
  ASSUME IInv, NEW t \in Task, Stopped(t)
  PROVE  /\ Moves(t, {"stopwait"}, {"idle"})
         /\ UNCHANGED <<pending, data, timer, worklist, current_work, lock, stack, state,
                       should_stop, online, load, at, done, owed>>
<1>0. /\ pc \in [Agent -> Place] /\ wrk \in [Agent -> Work \cup {None}]
      /\ cpu \in [Agent -> CPU \cup {None}] /\ at \in [Task -> CPU \cup {None}]
      /\ kind \in [Task -> Calls \cup {"none", "flush", "cleanup"}]
  BY DEF IInv, TypeOK, TaskInv
<1> QED
  BY <1>0, Agents DEF Moves, Mover, Stopped, Return, Goto, Outside, works, cwq, worker,
      env

-----------------------------------------------------------------------------
(* Types and control *)

\* TypeOK in three parts.
PlaceOK == pc \in [Agent -> Place]
ListOK ==
  /\ worklist \in [CPU -> Seq(Item)] /\ current_work \in [CPU -> Item \cup {None}]
  /\ stack \in [CPU -> Seq(Item)]
FieldOK ==
  /\ pending \in [Work -> BOOLEAN] /\ data \in [Work -> CPU \cup {None}]
  /\ timer \subseteq Work /\ lock \in [CPU -> Agent \cup {None}]
  /\ state \in [CPU -> {"RUNNING", "INTERRUPTIBLE"}]
  /\ should_stop \in [CPU -> BOOLEAN] /\ online \subseteq CPU
  /\ wrk \in [Agent -> Work \cup {None}]
  /\ cpu \in [Agent -> CPU \cup {None}] /\ at \in [Task -> CPU \cup {None}]
  /\ done \in [Task -> BOOLEAN]

\* The parts make the whole, now and in the next state.
LEMMA TypeParts ==
  /\ TypeOK <=> PlaceOK /\ ListOK /\ FieldOK
  /\ TypeOK' <=> PlaceOK' /\ ListOK' /\ FieldOK'
BY Zenon DEF TypeOK, PlaceOK, ListOK, FieldOK

-----------------------------------------------------------------------------
(* Flushing *)

\* What Account() leaves of the works owed to t.
LEMMA AccountFacts ==
  ASSUME NEW c \in CPU, NEW i, Account(c, i), NEW t \in Task,
         owed[t] \subseteq Work \X CPU \X {"queued", "running"},
         worklist[c] # <<>> => Head(worklist[c]) \in Item
  PROVE  /\ owed'[t] \subseteq Work \X CPU \X {"queued", "running"}
         /\ owed[t] = {} => owed'[t] = {}
         /\ \A w \in Work, d \in CPU : <<w, d, "queued">> \in owed'[t] =>
              <<w, d, "queued">> \in owed[t] /\ (worklist[c] = <<>> \/ d # c \/ w # Head(worklist[c]))
         /\ \A w \in Work, d \in CPU : <<w, d, "running">> \in owed'[t] =>
              \/ <<w, d, "running">> \in owed[t] /\ (d # c \/ w # i)
              \/ <<w, d, "queued">> \in owed[t] /\ d = c /\ worklist[c] # <<>> /\ w = Head(worklist[c])
<1> DEFINE Moved(o) == IF worklist[c] # <<>> /\ o = <<Head(worklist[c]), c, "queued">>
                         THEN <<o[1], c, "running">> ELSE o
<1>1. owed'[t] = {Moved(o) : o \in owed[t] \ {<<i, c, "running">>}}
  BY DEF Account
<1>2. ASSUME NEW x \in owed'[t]
      PROVE  \E o \in owed[t] : o # <<i, c, "running">> /\ x = Moved(o)
  BY <1>1
<1>3. ASSUME NEW w, NEW d, NEW p, <<w, d, p>> \in owed[t]
      PROVE  w \in Work /\ d \in CPU /\ p \in {"queued", "running"}
  BY <1>3
<1>4. ASSUME NEW x \in owed'[t]
      PROVE  \E w \in Work, d \in CPU, p \in {"queued", "running"} :
               /\ <<w, d, p>> \in owed[t] /\ <<w, d, p>> # <<i, c, "running">>
               /\ \/ /\ x = <<w, d, p>>
                     /\ worklist[c] = <<>> \/ <<w, d, p>> # <<Head(worklist[c]), c, "queued">>
                  \/ /\ x = <<w, c, "running">> /\ d = c /\ p = "queued"
                     /\ worklist[c] # <<>> /\ w = Head(worklist[c])
  <2>1. PICK o \in owed[t] : o # <<i, c, "running">> /\ x = Moved(o)
    BY <1>2
  <2>2. PICK w \in Work, d \in CPU, p \in {"queued", "running"} : o = <<w, d, p>>
    BY <2>1
  <2>3. CASE worklist[c] # <<>> /\ o = <<Head(worklist[c]), c, "queued">>
    BY <2>1, <2>2, <2>3
  <2>4. CASE ~(worklist[c] # <<>> /\ o = <<Head(worklist[c]), c, "queued">>)
    BY <2>1, <2>2, <2>4
  <2> QED
    BY <2>3, <2>4
<1> HIDE DEF Moved
<1>5. owed[t] = {} => owed'[t] = {}
  BY <1>4
<1>6. owed'[t] \subseteq Work \X CPU \X {"queued", "running"}
  <2> SUFFICES ASSUME NEW x \in owed'[t]
               PROVE  x \in Work \X CPU \X {"queued", "running"}
    OBVIOUS
  <2>1. PICK w \in Work, d \in CPU, p \in {"queued", "running"} :
          /\ <<w, d, p>> \in owed[t] /\ <<w, d, p>> # <<i, c, "running">>
          /\ \/ /\ x = <<w, d, p>>
                /\ worklist[c] = <<>> \/ <<w, d, p>> # <<Head(worklist[c]), c, "queued">>
             \/ /\ x = <<w, c, "running">> /\ d = c /\ p = "queued"
                /\ worklist[c] # <<>> /\ w = Head(worklist[c])
    BY <1>4, Zenon
  <2> QED
    BY <2>1
<1>7. ASSUME NEW w \in Work, NEW d \in CPU, <<w, d, "queued">> \in owed'[t]
      PROVE  /\ <<w, d, "queued">> \in owed[t]
             /\ worklist[c] = <<>> \/ d # c \/ w # Head(worklist[c])
  BY <1>4, <1>7
<1>8. ASSUME NEW w \in Work, NEW d \in CPU, <<w, d, "running">> \in owed'[t]
      PROVE  \/ <<w, d, "running">> \in owed[t] /\ (d # c \/ w # i)
             \/ <<w, d, "queued">> \in owed[t] /\ d = c /\ worklist[c] # <<>> /\ w = Head(worklist[c])
  BY <1>4, <1>8
<1> QED
  BY <1>5, <1>6, <1>7, <1>8

\* Every agent is at a place of the code.
LEMMA PlaceStep ==
  ASSUME IInv, Next
  PROVE  PlaceOK'
<1>0. TypeOK
  BY DEF IInv
<1>t. /\ pc \in [Agent -> Place]
  BY DEF IInv, TypeOK
<1>1. ASSUME NEW a \in Agent, NEW w \in load.works, queue_work(a, w) PROVE PlaceOK'
  BY <1>0, <1>t, <1>1, Agents
  DEF queue_work, Goto, Free, OnList, MayCall, SetPending, Outside,
      Return, PlaceOK, Place
<1>2. ASSUME NEW a \in Agent, NEW w \in load.works, queue_delayed_work(a, w) PROVE PlaceOK'
  BY <1>0, <1>t, <1>2, Agents
  DEF queue_delayed_work, Goto, Free, OnList, MayCall, SetPending,
      Outside, Return, PlaceOK, Place
<1>3. ASSUME NEW a \in Agent, SetWqData(a) PROVE PlaceOK'
  BY <1>0, <1>t, <1>3, Agents DEF SetWqData, Goto, Free, OnList, StoreCwq, PlaceOK, Place
<1>4. ASSUME NEW a \in Agent, ListAdd(a) PROVE PlaceOK'
  BY <1>0, <1>t, <1>4, Agents
  DEF ListAdd, Return, WakeWorker, Goto, Free, OnList, Outside,
      PlaceOK, Place
<1>5. ASSUME NEW a \in Agent, SetWqDataUnlocked(a) PROVE PlaceOK'
  BY <1>0, <1>t, <1>5, Agents DEF SetWqDataUnlocked, Goto, Free, OnList, PlaceOK, Place
<1>6. ASSUME NEW a \in Agent, AddTimer(a) PROVE PlaceOK'
  BY <1>0, <1>t, <1>6, Agents DEF AddTimer, Return, Goto, Free, OnList, Outside, PlaceOK, Place
<1>7. ASSUME NEW w \in Work, delayed_work_timer_fn(w) PROVE PlaceOK'
  BY <1>0, <1>t, <1>7, Agents DEF delayed_work_timer_fn, Goto, Free, OnList, PlaceOK, Place
<1>8. ASSUME NEW c \in CPU, RunsOn(c) # {}, prepare_to_wait(c) PROVE PlaceOK'
  BY <1>0, <1>t, <1>8, Agents DEF prepare_to_wait, Goto, Free, OnList, PlaceOK, Place
<1>9. ASSUME NEW c \in CPU, RunsOn(c) # {}, TestList(c) PROVE PlaceOK'
  BY <1>0, <1>t, <1>9, Agents DEF TestList, Goto, Free, OnList, PlaceOK, Place
<1>10. ASSUME NEW c \in CPU, RunsOn(c) # {}, StopCheck(c) PROVE PlaceOK'
  BY <1>0, <1>t, <1>10, Agents DEF StopCheck, Goto, Free, OnList, PlaceOK, Place
<1>11. ASSUME NEW c \in CPU, RunsOn(c) # {}, Take(c) PROVE PlaceOK'
  <2>1. PICK stk \in Seq(Item), i \in Item \cup {None} :
          /\ Leaves(c, stk, i)
          /\ TakesNone(c, stk) \/ \E h \in Item, s \in Seq(Item) : Takes(c, stk, h, s)
    BY <1>11, TakeEffect
  <2>2. /\ pc[c] \in {"run", "func", "end"} /\ Free(c)
        /\ UNCHANGED <<lock, state, should_stop, online, load, wrk, cpu, kind, at, done, pending, data,
                       timer>>
    BY <1>11, TakeEffect DEF works, env
  <2>3. CASE TakesNone(c, stk)
    BY <1>0, <1>t, Agents, <2>1, <2>2, <2>3 DEF TakesNone, Leaves, PlaceOK, Place
  <2>4. ASSUME NEW h \in Item, NEW rest \in Seq(Item), Takes(c, stk, h, rest)
        PROVE  PlaceOK'
    <3>1. PICK r \in Seq(Item) :
            /\ stack' = [stack EXCEPT ![c] = r]
            /\ r # <<>> /\ Last(r) = h /\ Len(r) = Len(stk) + 1
            /\ stk = <<>> => r[1] = h
            /\ \A x : In(x, r) <=> In(x, stk) \/ x = h
      BY <2>4 DEF Takes
    <3> QED
      BY <1>0, <1>t, Agents, <2>1, <2>2, <2>4, <3>1 DEF Takes, Leaves, PlaceOK, Place
  <2> QED
    BY <2>1, <2>3, <2>4
<1>12. ASSUME NEW c \in CPU, RunsOn(c) # {}, CallFunc(c) PROVE PlaceOK'
  BY <1>0, <1>t, <1>12, Agents DEF CallFunc, Goto, Free, OnList, PlaceOK, Place
<1>13. ASSUME NEW t \in Task, flush_workqueue(t) PROVE PlaceOK'
  BY <1>0, <1>t, <1>13, Agents
  DEF flush_workqueue, Goto, Free, OnList, MayCall, Outside,
      Return, PlaceOK, Place
<1>14. ASSUME NEW t \in Task, NEW c \in CPU, CpuDead(t, c) PROVE PlaceOK'
  BY <1>0, <1>t, <1>14, Agents
  DEF CpuDead, Goto, Free, OnList, MayCall, Outside, Return,
      PlaceOK, Place
<1>15. ASSUME NEW t \in Task, NEW w \in load.works, NEW k \in CancelCalls, Cancel(t, w, k)
      PROVE  PlaceOK'
  BY <1>0, <1>t, <1>15, Agents
  DEF Cancel, Goto, Free, OnList, MayCall, Outside, Return,
      PlaceOK, Place
<1>16. ASSUME NEW t \in Task, Steal(t) PROVE PlaceOK'
  BY <1>0, <1>t, <1>16, Agents DEF Steal, Goto, Free, OnList, Retry, StillThere, PlaceOK, Place
<1>17. ASSUME NEW t \in Task, flush_cpu_workqueue(t) PROVE PlaceOK'
  BY <1>0, <1>t, <1>17, Agents
  DEF flush_cpu_workqueue, Goto, Free, OnList, InsertBarrier,
      NextCpu, Busy, WakeWorker, PlaceOK, Place
<1>18. ASSUME NEW t \in Task, FlushWait(t) PROVE PlaceOK'
  BY <1>0, <1>t, <1>18, Agents
  DEF FlushWait, NextCpu, BarrierDone, Goto, Free, OnList,
      PlaceOK, Place
<1>19. ASSUME NEW t \in Task, FlushReturns(t) PROVE PlaceOK'
  BY <1>0, <1>t, <1>19, Agents
  DEF FlushReturns, Goto, Free, OnList, Return, Outside, PlaceOK,
      Place
<1>20. ASSUME NEW t \in Task, DelTimer(t) PROVE PlaceOK'
  BY <1>0, <1>t, <1>20, Agents DEF DelTimer, Goto, Free, OnList, Return, Outside, PlaceOK, Place
<1>21. ASSUME NEW t \in Task, Grab(t) PROVE PlaceOK'
  BY <1>0, <1>t, <1>21, Agents DEF Grab, Goto, Free, OnList, PlaceOK, Place
<1>22. ASSUME NEW t \in Task, GetCwq(t) PROVE PlaceOK'
  BY <1>0, <1>t, <1>22, Agents DEF GetCwq, Goto, Free, OnList, Retry, PlaceOK, Place
<1>23. ASSUME NEW t \in Task, LockCwq(t) PROVE PlaceOK'
  BY <1>0, <1>t, <1>23, Agents DEF LockCwq, Goto, Free, OnList, Retry, PlaceOK, Place
<1>24. ASSUME NEW t \in Task, wait_on_work(t) PROVE PlaceOK'
  BY <1>0, <1>t, <1>24, Agents DEF wait_on_work, Goto, Free, OnList, FirstQueue, PlaceOK, Place
<1>25. ASSUME NEW t \in Task, wait_on_cpu_work(t) PROVE PlaceOK'
  BY <1>0, <1>t, <1>25, Agents
  DEF wait_on_cpu_work, Goto, Free, OnList, InsertBarrier,
      NextCpu, WakeWorker, PlaceOK, Place
<1>26. ASSUME NEW t \in Task, WorkWait(t) PROVE PlaceOK'
  BY <1>0, <1>t, <1>26, Agents
  DEF WorkWait, NextCpu, BarrierDone, Goto, Free, OnList, PlaceOK,
      Place
<1>27. ASSUME NEW t \in Task, ClearBit(t) PROVE PlaceOK'
  BY <1>0, <1>t, <1>27, Agents DEF ClearBit, Return, Goto, Free, OnList, Outside, PlaceOK, Place
<1>28. ASSUME NEW t \in Task, kthread_stop(t) PROVE PlaceOK'
  BY <1>0, <1>t, <1>28, Agents DEF kthread_stop, Goto, Free, OnList, WakeWorker, PlaceOK, Place
<1>29. ASSUME NEW t \in Task, Stopped(t) PROVE PlaceOK'
  BY <1>0, <1>t, <1>29, Agents DEF Stopped, Return, Goto, Free, OnList, Outside, PlaceOK, Place
<1> QED
  BY <1>1, <1>2, <1>3, <1>4, <1>5, <1>6, <1>7, <1>8, <1>9, <1>10, <1>11, <1>12, <1>13, <1>14,
     <1>15, <1>16, <1>17, <1>18, <1>19, <1>20, <1>21, <1>22, <1>23, <1>24, <1>25, <1>26, <1>27,
     <1>28, <1>29, NextCases

\* Lists and stacks hold works and barriers.
LEMMA ListStep ==
  ASSUME IInv, Next
  PROVE  ListOK'
<1>0. TypeOK /\ TaskInv /\ AgentInv /\ WorkerInv
  BY DEF IInv
<1>t. /\ worklist \in [CPU -> Seq(Item)] /\ current_work \in [CPU -> Item \cup {None}]
      /\ stack \in [CPU -> Seq(Item)] /\ cpu \in [Agent -> CPU \cup {None}]
      /\ wrk \in [Agent -> Work \cup {None}]
  BY DEF IInv, TypeOK
<1>1. CASE UNCHANGED <<worklist, current_work, stack>>
  BY <1>t, <1>1 DEF ListOK
<1>2. ASSUME NEW a \in Agent, ListAdd(a) PROVE ListOK'
  <2>1. wrk[a] \in Item /\ cpu[a] \in CPU
    BY <1>0, <1>t, <1>2, Agents DEF ListAdd, AgentInv, InsertPlace, TypeOK
  <2>2. Append(worklist[cpu[a]], wrk[a]) \in Seq(Item)
    BY <1>t, <2>1, AppendFacts
  <2> QED
    BY <1>t, <1>2, <2>1, <2>2 DEF ListAdd, ListOK
<1>3. ASSUME NEW c \in CPU, RunsOn(c) # {}, Take(c) PROVE ListOK'
  <2>1. PICK stk \in Seq(Item), i \in Item \cup {None} :
          /\ Leaves(c, stk, i)
          /\ TakesNone(c, stk) \/ \E h \in Item, s \in Seq(Item) : Takes(c, stk, h, s)
    BY <1>3, TakeEffect
  <2>2. /\ pc[c] \in {"run", "func", "end"} /\ Free(c)
        /\ UNCHANGED <<lock, state, should_stop, online, load, wrk, cpu, kind, at, done, pending, data,
                       timer>>
    BY <1>3, TakeEffect DEF works, env
  <2>3. CASE TakesNone(c, stk)
    BY <1>0, <1>t, Agents, <2>1, <2>2, <2>3 DEF TakesNone, Leaves, ListOK
  <2>4. ASSUME NEW h \in Item, NEW rest \in Seq(Item), Takes(c, stk, h, rest)
        PROVE  ListOK'
    <3>1. PICK r \in Seq(Item) :
            /\ stack' = [stack EXCEPT ![c] = r]
            /\ r # <<>> /\ Last(r) = h /\ Len(r) = Len(stk) + 1
            /\ stk = <<>> => r[1] = h
            /\ \A x : In(x, r) <=> In(x, stk) \/ x = h
      BY <2>4 DEF Takes
    <3> QED
      BY <1>0, <1>t, Agents, <2>1, <2>2, <2>4, <3>1 DEF Takes, Leaves, ListOK
  <2> QED
    BY <2>1, <2>3, <2>4
<1>4. ASSUME NEW t \in Task, Steal(t) PROVE ListOK'
  <2>1. \A c \in CPU : RemoveFirst(worklist[c], wrk[t]) \in Seq(Item)
    BY <1>t, RemoveFacts
  <2> QED
    BY <1>t, <1>4, <2>1 DEF Steal, ListOK, worker
<1>5. ASSUME NEW t \in Task, flush_cpu_workqueue(t) PROVE ListOK'
  <2>1. t \in Item /\ cpu[t] \in CPU
    BY <1>0, <1>5, Agents DEF flush_cpu_workqueue, TaskInv, FlushPlace
  <2>2. Append(worklist[cpu[t]], t) \in Seq(Item)
    BY <1>t, <2>1, AppendFacts
  <2> QED
    BY <1>t, <1>5, <2>1, <2>2 DEF flush_cpu_workqueue, InsertBarrier, ListOK
<1>6. ASSUME NEW t \in Task, wait_on_cpu_work(t) PROVE ListOK'
  <2>1. t \in Item /\ cpu[t] \in CPU
    BY <1>0, <1>6, Agents DEF wait_on_cpu_work, TaskInv
  <2>2. <<t>> \o worklist[cpu[t]] \in Seq(Item)
    BY <1>t, <2>1, ConsFacts
  <2> QED
    BY <1>t, <1>6, <2>1, <2>2 DEF wait_on_cpu_work, InsertBarrier, ListOK
<1> QED
  <2>1. ASSUME NEW a \in Agent, NEW w \in load.works, queue_work(a, w)
        PROVE  UNCHANGED <<worklist, current_work, stack>>
    BY <2>1 DEF queue_work, Return, cwq, worker
  <2>2. ASSUME NEW a \in Agent, NEW w \in load.works, queue_delayed_work(a, w)
        PROVE  UNCHANGED <<worklist, current_work, stack>>
    BY <2>2 DEF queue_delayed_work, Return, cwq, worker
  <2>3. ASSUME NEW a \in Agent, SetWqData(a) PROVE UNCHANGED <<worklist, current_work, stack>>
    BY <2>3 DEF SetWqData, StoreCwq, worker
  <2>4. ASSUME NEW a \in Agent, SetWqDataUnlocked(a)
        PROVE  UNCHANGED <<worklist, current_work, stack>>
    BY <2>4 DEF SetWqDataUnlocked, cwq, worker
  <2>5. ASSUME NEW a \in Agent, AddTimer(a) PROVE UNCHANGED <<worklist, current_work, stack>>
    BY <2>5 DEF AddTimer, Return, cwq, worker
  <2>6. ASSUME NEW w \in Work, delayed_work_timer_fn(w)
        PROVE  UNCHANGED <<worklist, current_work, stack>>
    BY <2>6 DEF delayed_work_timer_fn, cwq, worker
  <2>7. ASSUME NEW c \in CPU, RunsOn(c) # {}, prepare_to_wait(c)
        PROVE  UNCHANGED <<worklist, current_work, stack>>
    BY <2>7 DEF prepare_to_wait, cwq
  <2>8. ASSUME NEW c \in CPU, RunsOn(c) # {}, TestList(c)
        PROVE  UNCHANGED <<worklist, current_work, stack>>
    BY <2>8 DEF TestList, cwq
  <2>9. ASSUME NEW c \in CPU, RunsOn(c) # {}, StopCheck(c)
        PROVE  UNCHANGED <<worklist, current_work, stack>>
    BY <2>9 DEF StopCheck, cwq, worker
  <2>10. ASSUME NEW c \in CPU, RunsOn(c) # {}, CallFunc(c)
        PROVE  UNCHANGED <<worklist, current_work, stack>>
    BY <2>10 DEF CallFunc, cwq, worker
  <2>11. ASSUME NEW t \in Task, flush_workqueue(t)
        PROVE  UNCHANGED <<worklist, current_work, stack>>
    BY <2>11 DEF flush_workqueue, Return, cwq, worker
  <2>12. ASSUME NEW t \in Task, NEW c \in CPU, CpuDead(t, c)
        PROVE  UNCHANGED <<worklist, current_work, stack>>
    BY <2>12 DEF CpuDead, Return, cwq, worker
  <2>13. ASSUME NEW t \in Task, NEW w \in load.works, NEW k \in CancelCalls, Cancel(t, w, k)
        PROVE  UNCHANGED <<worklist, current_work, stack>>
    BY <2>13 DEF Cancel, Return, cwq, worker
  <2>14. ASSUME NEW t \in Task, FlushWait(t) PROVE UNCHANGED <<worklist, current_work, stack>>
    BY <2>14 DEF FlushWait, NextCpu, cwq, worker
  <2>15. ASSUME NEW t \in Task, FlushReturns(t) PROVE UNCHANGED <<worklist, current_work, stack>>
    BY <2>15 DEF FlushReturns, Return, cwq, worker
  <2>16. ASSUME NEW t \in Task, DelTimer(t) PROVE UNCHANGED <<worklist, current_work, stack>>
    BY <2>16 DEF DelTimer, Return, cwq, worker
  <2>17. ASSUME NEW t \in Task, Grab(t) PROVE UNCHANGED <<worklist, current_work, stack>>
    BY <2>17 DEF Grab, cwq, worker
  <2>18. ASSUME NEW t \in Task, GetCwq(t) PROVE UNCHANGED <<worklist, current_work, stack>>
    BY <2>18 DEF GetCwq, cwq, worker
  <2>19. ASSUME NEW t \in Task, LockCwq(t) PROVE UNCHANGED <<worklist, current_work, stack>>
    BY <2>19 DEF LockCwq, worker
  <2>20. ASSUME NEW t \in Task, wait_on_work(t) PROVE UNCHANGED <<worklist, current_work, stack>>
    BY <2>20 DEF wait_on_work, cwq, worker
  <2>21. ASSUME NEW t \in Task, WorkWait(t) PROVE UNCHANGED <<worklist, current_work, stack>>
    BY <2>21 DEF WorkWait, NextCpu, cwq, worker
  <2>22. ASSUME NEW t \in Task, ClearBit(t) PROVE UNCHANGED <<worklist, current_work, stack>>
    BY <2>22 DEF ClearBit, Return, cwq, worker
  <2>23. ASSUME NEW t \in Task, kthread_stop(t) PROVE UNCHANGED <<worklist, current_work, stack>>
    BY <2>23 DEF kthread_stop, cwq
  <2>24. ASSUME NEW t \in Task, Stopped(t) PROVE UNCHANGED <<worklist, current_work, stack>>
    BY <2>24 DEF Stopped, Return, cwq, worker
  <2> QED
    BY <2>1, <2>2, <2>3, <2>4, <2>5, <2>6, <2>7, <2>8, <2>9, <2>10, <2>11, <2>12, <2>13, <2>14,
       <2>15, <2>16, <2>17, <2>18, <2>19, <2>20, <2>21, <2>22, <2>23, <2>24, <1>1, <1>2, <1>3,
       <1>4, <1>5, <1>6, NextCases

\* Works, locks, the states of the workers and the fields of the agents.
LEMMA FieldStep ==
  ASSUME IInv, Next
  PROVE  FieldOK'
<1>0. TypeOK /\ TaskInv /\ AgentInv
  BY DEF IInv
<1>t. /\ pending \in [Work -> BOOLEAN] /\ data \in [Work -> CPU \cup {None}]
      /\ timer \subseteq Work /\ lock \in [CPU -> Agent \cup {None}]
      /\ state \in [CPU -> {"RUNNING", "INTERRUPTIBLE"}] /\ should_stop \in [CPU -> BOOLEAN]
      /\ online \subseteq CPU /\ wrk \in [Agent -> Work \cup {None}]
      /\ cpu \in [Agent -> CPU \cup {None}] /\ at \in [Task -> CPU \cup {None}]
      /\ done \in [Task -> BOOLEAN] /\ pc \in [Agent -> Place]
  BY DEF IInv, TypeOK
<1>1. CASE UNCHANGED <<pending, data, timer, lock, state, should_stop, online, wrk, cpu, at, done>>
  BY <1>t, <1>1 DEF FieldOK
<1>2. ASSUME NEW a \in Agent, NEW w \in load.works, queue_work(a, w) PROVE FieldOK'
  BY <1>0, <1>t, <1>2, Agents, RunsOnline
  DEF queue_work, Goto, Free, OnList, MayCall,
      SetPending, Outside, Return, cwq, worker, env, FieldOK, AgentInv, InsertPlace, CancelPlace
<1>3. ASSUME NEW a \in Agent, NEW w \in load.works, queue_delayed_work(a, w) PROVE FieldOK'
  BY <1>0, <1>t, <1>3, Agents, RunsOnline
  DEF queue_delayed_work, Goto, Free, OnList, MayCall,
      SetPending, Outside, Return, cwq, worker, env, FieldOK, AgentInv, InsertPlace, CancelPlace
<1>4. ASSUME NEW a \in Agent, SetWqData(a) PROVE FieldOK'
  BY <1>0, <1>t, <1>4, Agents, RunsOnline
  DEF SetWqData, Goto, Free, OnList, StoreCwq, worker,
      env, FieldOK, AgentInv, InsertPlace, CancelPlace
<1>5. ASSUME NEW a \in Agent, ListAdd(a) PROVE FieldOK'
  BY <1>0, <1>t, <1>5, Agents, RunsOnline
  DEF ListAdd, Return, WakeWorker, Goto, Free, OnList,
      Outside, works, env, FieldOK
<1>6. ASSUME NEW a \in Agent, SetWqDataUnlocked(a) PROVE FieldOK'
  BY <1>0, <1>t, <1>6, Agents, RunsOnline
  DEF SetWqDataUnlocked, Goto, Free, OnList, cwq,
      worker, env, FieldOK, AgentInv, InsertPlace, CancelPlace
<1>7. ASSUME NEW a \in Agent, AddTimer(a) PROVE FieldOK'
  BY <1>0, <1>t, <1>7, Agents, RunsOnline
  DEF AddTimer, Return, Goto, Free, OnList, Outside,
      cwq, worker, env, FieldOK, AgentInv, InsertPlace, CancelPlace
<1>8. ASSUME NEW w \in Work, delayed_work_timer_fn(w) PROVE FieldOK'
  BY <1>0, <1>t, <1>8, Agents, RunsOnline
  DEF delayed_work_timer_fn, Goto, Free, OnList, cwq,
      worker, env, FieldOK
<1>9. ASSUME NEW c \in CPU, RunsOn(c) # {}, prepare_to_wait(c) PROVE FieldOK'
  BY <1>0, <1>t, <1>9, Agents, RunsOnline
  DEF prepare_to_wait, Goto, Free, OnList, works, cwq,
      env, FieldOK
<1>10. ASSUME NEW c \in CPU, RunsOn(c) # {}, TestList(c) PROVE FieldOK'
  BY <1>0, <1>t, <1>10, Agents, RunsOnline
  DEF TestList, Goto, Free, OnList, works, cwq, env,
      FieldOK
<1>11. ASSUME NEW c \in CPU, RunsOn(c) # {}, CallFunc(c) PROVE FieldOK'
  BY <1>t, <1>11 DEF CallFunc, FieldOK, cwq, worker, env
<1>12. ASSUME NEW t \in Task, flush_workqueue(t) PROVE FieldOK'
  BY <1>0, <1>t, <1>12, Agents, RunsOnline, CpuNumbers
  DEF flush_workqueue, Goto, Free, OnList,
      MayCall, Outside, Return, works, cwq, worker, env, FieldOK
<1>13. ASSUME NEW t \in Task, NEW c \in CPU, CpuDead(t, c) PROVE FieldOK'
  BY <1>0, <1>t, <1>13, Agents, RunsOnline
  DEF CpuDead, Goto, Free, OnList, MayCall, Outside,
      Return, works, cwq, worker, FieldOK
<1>14. ASSUME NEW t \in Task, NEW w \in load.works, NEW k \in CancelCalls, Cancel(t, w, k)
      PROVE  FieldOK'
  BY <1>0, <1>t, <1>14, Agents, RunsOnline
  DEF Cancel, Goto, Free, OnList, MayCall, Outside,
      Return, works, cwq, worker, env, FieldOK, AgentInv, InsertPlace, CancelPlace
<1>15. ASSUME NEW t \in Task, Steal(t) PROVE FieldOK'
  BY <1>0, <1>t, <1>15, Agents, RunsOnline
  DEF Steal, Goto, Free, OnList, Retry, StillThere,
      works, worker, env, FieldOK
<1>16. ASSUME NEW t \in Task, flush_cpu_workqueue(t) PROVE FieldOK'
  <2>1. /\ pc[t] = "flush" /\ cpu[t] \in CPU /\ kind[t] \in {"flush", "cleanup"} /\ Free(cpu[t])
        /\ UNCHANGED <<pending, data, timer, current_work, lock, stack, should_stop, online, load,
                       wrk, kind, at, owed>>
        /\ \/ /\ Busy(cpu[t]) /\ Inserts(t, Append(worklist[cpu[t]], t))
              /\ pc' = [pc EXCEPT ![t] = "flushwait"]
           \/ /\ ~Busy(cpu[t]) /\ Advances(t, "flush", "flushed")
              /\ UNCHANGED <<worklist, state, done>>
    BY <1>16, FlushCpuEffect
  <2>2. cpu' \in [Agent -> CPU \cup {None}]
    BY <1>t, <2>1, Agents DEF Advances, Inserts
  <2>3. done' \in [Task -> BOOLEAN]
    BY <1>t, <2>1, Zenon DEF Inserts
  <2>4. state' \in [CPU -> {"RUNNING", "INTERRUPTIBLE"}]
    BY <1>t, <2>1 DEF Inserts
  <2> QED
    BY <1>t, <2>1, <2>2, <2>3, <2>4 DEF FieldOK
<1>17. ASSUME NEW t \in Task, FlushWait(t) PROVE FieldOK'
  BY <1>0, <1>t, <1>17, Agents, RunsOnline, CpuNumbers
  DEF FlushWait, NextCpu, BarrierDone,
      Goto, Free, OnList, works, cwq, worker, env, FieldOK, TaskInv, FlushPlace
<1>18. ASSUME NEW t \in Task, FlushReturns(t) PROVE FieldOK'
  BY <1>0, <1>t, <1>18, Agents, RunsOnline
  DEF FlushReturns, Goto, Free, OnList, Return,
      Outside, works, cwq, worker, env, FieldOK
<1>19. ASSUME NEW t \in Task, DelTimer(t) PROVE FieldOK'
  BY <1>0, <1>t, <1>19, Agents, RunsOnline
  DEF DelTimer, Goto, Free, OnList, Return, Outside,
      cwq, worker, env, FieldOK
<1>20. ASSUME NEW t \in Task, Grab(t) PROVE FieldOK'
  BY <1>0, <1>t, <1>20, Agents, RunsOnline
  DEF Grab, Goto, Free, OnList, cwq, worker, env,
      FieldOK, AgentInv, InsertPlace, CancelPlace
<1>21. ASSUME NEW t \in Task, GetCwq(t) PROVE FieldOK'
  BY <1>0, <1>t, <1>21, Agents, RunsOnline
  DEF GetCwq, Goto, Free, OnList, Retry, works, cwq,
      worker, env, FieldOK, AgentInv, InsertPlace, CancelPlace
<1>22. ASSUME NEW t \in Task, LockCwq(t) PROVE FieldOK'
  BY <1>0, <1>t, <1>22, Agents, RunsOnline
  DEF LockCwq, Goto, Free, OnList, Retry, works,
      worker, env, FieldOK
<1>23. ASSUME NEW t \in Task, wait_on_work(t) PROVE FieldOK'
  BY <1>0, <1>t, <1>23, Agents, RunsOnline, CpuNumbers
  DEF wait_on_work, Goto, Free, OnList,
      FirstQueue, works, cwq, worker, env, FieldOK
<1>24. ASSUME NEW t \in Task, wait_on_cpu_work(t) PROVE FieldOK'
  <2>1. /\ pc[t] = "waitcpu" /\ cpu[t] \in CPU /\ kind[t] \in CancelCalls /\ Free(cpu[t])
        /\ UNCHANGED <<pending, data, timer, current_work, lock, stack, should_stop, online, load,
                       wrk, kind, at, owed>>
        /\ \/ /\ current_work[cpu[t]] = wrk[t] /\ Inserts(t, <<t>> \o worklist[cpu[t]])
              /\ pc' = [pc EXCEPT ![t] = "waitwork"]
           \/ /\ current_work[cpu[t]] # wrk[t] /\ Advances(t, "waitcpu", "clearbit")
              /\ UNCHANGED <<worklist, state, done>>
    BY <1>24, WaitCpuEffect
  <2>2. cpu' \in [Agent -> CPU \cup {None}]
    BY <1>t, <2>1, Agents DEF Advances, Inserts
  <2>3. done' \in [Task -> BOOLEAN]
    BY <1>t, <2>1, Zenon DEF Inserts
  <2>4. state' \in [CPU -> {"RUNNING", "INTERRUPTIBLE"}]
    BY <1>t, <2>1 DEF Inserts
  <2> QED
    BY <1>t, <2>1, <2>2, <2>3, <2>4 DEF FieldOK
<1>25. ASSUME NEW t \in Task, WorkWait(t) PROVE FieldOK'
  BY <1>0, <1>t, <1>25, Agents, RunsOnline, CpuNumbers
  DEF WorkWait, NextCpu, BarrierDone,
      Goto, Free, OnList, works, cwq, worker, env, FieldOK, TaskInv
<1>26. ASSUME NEW t \in Task, ClearBit(t) PROVE FieldOK'
  BY <1>0, <1>t, <1>26, Agents, RunsOnline
  DEF ClearBit, Return, Goto, Free, OnList, Outside,
      cwq, worker, env, FieldOK, AgentInv, InsertPlace, CancelPlace
<1>27. ASSUME NEW t \in Task, kthread_stop(t) PROVE FieldOK'
  BY <1>0, <1>t, <1>27, Agents, RunsOnline
  DEF kthread_stop, Goto, Free, OnList, WakeWorker,
      works, cwq, env, FieldOK
<1>28. ASSUME NEW t \in Task, Stopped(t) PROVE FieldOK'
  BY <1>0, <1>t, <1>28, Agents, RunsOnline
  DEF Stopped, Return, Goto, Free, OnList, Outside,
      works, cwq, worker, env, FieldOK
<1> QED
  <2>1. ASSUME NEW c \in CPU, RunsOn(c) # {}, StopCheck(c)
        PROVE  UNCHANGED <<pending, data, timer, lock, state, should_stop, online, wrk, cpu, at, done>>
    BY <2>1 DEF StopCheck, works, cwq, worker, env
  <2>2. ASSUME NEW c \in CPU, RunsOn(c) # {}, Take(c)
        PROVE  UNCHANGED <<pending, data, timer, lock, state, should_stop, online, wrk, cpu, at, done>>
    BY <2>2 DEF Take, TakeFrom, TakeFirst, Account, works, env
  <2> QED
    BY <2>1, <2>2, <1>1, <1>2, <1>3, <1>4, <1>5, <1>6, <1>7, <1>8, <1>9, <1>10, <1>11, <1>12,
       <1>13, <1>14, <1>15, <1>16, <1>17, <1>18, <1>19, <1>20, <1>21, <1>22, <1>23, <1>24, <1>25,
       <1>26, <1>27, <1>28, NextCases

\* A worker is inside a function, or at the head of its loops.
LEMMA WorkerStep ==
  ASSUME IInv, Next
  PROVE  WorkerInv'
<1>0. WorkerInv /\ TaskInv /\ AgentInv
  BY DEF IInv
<1>t. /\ pc \in [Agent -> Place] /\ stack \in [CPU -> Seq(Item)]
      /\ current_work \in [CPU -> Item \cup {None}]
  BY DEF IInv, TypeOK
<1>1. ASSUME NEW a \in Agent, NEW w \in load.works, queue_work(a, w) PROVE WorkerInv'
  BY <1>0, <1>t, <1>1, Agents
  DEF queue_work, Goto, Free, OnList, MayCall, SetPending, Outside,
      Return, cwq, worker, WorkerInv, InsertPlace
<1>2. ASSUME NEW a \in Agent, NEW w \in load.works, queue_delayed_work(a, w) PROVE WorkerInv'
  BY <1>0, <1>t, <1>2, Agents
  DEF queue_delayed_work, Goto, Free, OnList, MayCall, SetPending,
      Outside, Return, cwq, worker, WorkerInv, InsertPlace
<1>3. ASSUME NEW a \in Agent, SetWqData(a) PROVE WorkerInv'
  BY <1>0, <1>t, <1>3, Agents
  DEF SetWqData, Goto, Free, OnList, StoreCwq, worker, WorkerInv,
      InsertPlace
<1>4. ASSUME NEW a \in Agent, ListAdd(a) PROVE WorkerInv'
  BY <1>0, <1>t, <1>4, Agents
  DEF ListAdd, Return, WakeWorker, Goto, Free, OnList, Outside,
      WorkerInv, InsertPlace
<1>5. ASSUME NEW a \in Agent, SetWqDataUnlocked(a) PROVE WorkerInv'
  BY <1>0, <1>t, <1>5, Agents
  DEF SetWqDataUnlocked, Goto, Free, OnList, cwq, worker,
      WorkerInv, InsertPlace
<1>6. ASSUME NEW a \in Agent, AddTimer(a) PROVE WorkerInv'
  BY <1>0, <1>t, <1>6, Agents
  DEF AddTimer, Return, Goto, Free, OnList, Outside, cwq, worker,
      WorkerInv, InsertPlace
<1>7. ASSUME NEW w \in Work, delayed_work_timer_fn(w) PROVE WorkerInv'
  BY <1>0, <1>t, <1>7, Agents
  DEF delayed_work_timer_fn, Goto, Free, OnList, cwq, worker,
      WorkerInv, InsertPlace
<1>8. ASSUME NEW c \in CPU, RunsOn(c) # {}, prepare_to_wait(c) PROVE WorkerInv'
  BY <1>0, <1>t, <1>8, Agents DEF prepare_to_wait, Goto, Free, OnList, cwq, WorkerInv, InsertPlace
<1>9. ASSUME NEW c \in CPU, RunsOn(c) # {}, TestList(c) PROVE WorkerInv'
  BY <1>0, <1>9, TestListMoves, Agents DEF Moves, Mover, WorkerInv, InsertPlace
<1>10. ASSUME NEW c \in CPU, RunsOn(c) # {}, StopCheck(c) PROVE WorkerInv'
  BY <1>0, <1>t, <1>10, Agents
  DEF StopCheck, Goto, Free, OnList, cwq, worker, WorkerInv,
      InsertPlace
<1>11. ASSUME NEW c \in CPU, RunsOn(c) # {}, Take(c) PROVE WorkerInv'
  <2>1. PICK stk \in Seq(Item), i \in Item \cup {None} :
          /\ Leaves(c, stk, i)
          /\ TakesNone(c, stk) \/ \E h \in Item, s \in Seq(Item) : Takes(c, stk, h, s)
    BY <1>11, TakeEffect
  <2>2. /\ pc[c] \in {"run", "func", "end"} /\ Free(c)
        /\ UNCHANGED <<lock, state, should_stop, online, load, wrk, cpu, kind, at, done, pending, data,
                       timer>>
    BY <1>11, TakeEffect DEF works, env
  <2>3. CASE TakesNone(c, stk)
    BY <1>0, <1>t, Agents, <2>1, <2>2, <2>3 DEF TakesNone, Leaves, WorkerInv, InsertPlace
  <2>4. ASSUME NEW h \in Item, NEW rest \in Seq(Item), Takes(c, stk, h, rest)
        PROVE  WorkerInv'
    <3>1. PICK r \in Seq(Item) :
            /\ stack' = [stack EXCEPT ![c] = r]
            /\ r # <<>> /\ Last(r) = h /\ Len(r) = Len(stk) + 1
            /\ stk = <<>> => r[1] = h
            /\ \A x : In(x, r) <=> In(x, stk) \/ x = h
      BY <2>4 DEF Takes
    <3> QED
      BY <1>0, <1>t, Agents, <2>1, <2>2, <2>4, <3>1 DEF Takes, Leaves, WorkerInv, InsertPlace
  <2> QED
    BY <2>1, <2>3, <2>4
<1>12. ASSUME NEW c \in CPU, RunsOn(c) # {}, CallFunc(c) PROVE WorkerInv'
  BY <1>0, <1>t, <1>12, Agents
  DEF CallFunc, Goto, Free, OnList, cwq, worker, WorkerInv,
      InsertPlace
<1>13. ASSUME NEW t \in Task, flush_workqueue(t) PROVE WorkerInv'
  BY <1>0, <1>t, <1>13, Agents
  DEF flush_workqueue, Goto, Free, OnList, MayCall, Outside,
      Return, cwq, worker, WorkerInv, InsertPlace
<1>14. ASSUME NEW t \in Task, NEW c \in CPU, CpuDead(t, c) PROVE WorkerInv'
  BY <1>0, <1>t, <1>14, Agents
  DEF CpuDead, Goto, Free, OnList, MayCall, Outside, Return, cwq,
      worker, WorkerInv, InsertPlace
<1>15. ASSUME NEW t \in Task, NEW w \in load.works, NEW k \in CancelCalls, Cancel(t, w, k)
      PROVE  WorkerInv'
  BY <1>0, <1>t, <1>15, Agents
  DEF Cancel, Goto, Free, OnList, MayCall, Outside, Return, cwq,
      worker, WorkerInv, InsertPlace
<1>16. ASSUME NEW t \in Task, Steal(t) PROVE WorkerInv'
  BY <1>0, <1>t, <1>16, Agents
  DEF Steal, Goto, Free, OnList, Retry, StillThere, worker,
      WorkerInv, InsertPlace
<1>17. ASSUME NEW t \in Task, flush_cpu_workqueue(t) PROVE WorkerInv'
  BY <1>0, <1>t, <1>17, Agents
  DEF flush_cpu_workqueue, Goto, Free, OnList, InsertBarrier,
      NextCpu, Busy, WakeWorker, WorkerInv, InsertPlace
<1>18. ASSUME NEW t \in Task, FlushWait(t) PROVE WorkerInv'
  BY <1>0, <1>t, <1>18, Agents
  DEF FlushWait, NextCpu, BarrierDone, Goto, Free, OnList, cwq,
      worker, WorkerInv, InsertPlace
<1>19. ASSUME NEW t \in Task, FlushReturns(t) PROVE WorkerInv'
  BY <1>0, <1>t, <1>19, Agents
  DEF FlushReturns, Goto, Free, OnList, Return, Outside, cwq,
      worker, WorkerInv, InsertPlace
<1>20. ASSUME NEW t \in Task, DelTimer(t) PROVE WorkerInv'
  BY <1>0, <1>t, <1>20, Agents
  DEF DelTimer, Goto, Free, OnList, Return, Outside, cwq, worker,
      WorkerInv, InsertPlace
<1>21. ASSUME NEW t \in Task, Grab(t) PROVE WorkerInv'
  BY <1>0, <1>t, <1>21, Agents DEF Grab, Goto, Free, OnList, cwq, worker, WorkerInv, InsertPlace
<1>22. ASSUME NEW t \in Task, GetCwq(t) PROVE WorkerInv'
  BY <1>0, <1>t, <1>22, Agents
  DEF GetCwq, Goto, Free, OnList, Retry, cwq, worker, WorkerInv,
      InsertPlace
<1>23. ASSUME NEW t \in Task, LockCwq(t) PROVE WorkerInv'
  BY <1>0, <1>t, <1>23, Agents
  DEF LockCwq, Goto, Free, OnList, Retry, worker, WorkerInv,
      InsertPlace
<1>24. ASSUME NEW t \in Task, wait_on_work(t) PROVE WorkerInv'
  BY <1>0, <1>t, <1>24, Agents
  DEF wait_on_work, Goto, Free, OnList, FirstQueue, cwq, worker,
      WorkerInv, InsertPlace
<1>25. ASSUME NEW t \in Task, wait_on_cpu_work(t) PROVE WorkerInv'
  BY <1>0, <1>t, <1>25, Agents
  DEF wait_on_cpu_work, Goto, Free, OnList, InsertBarrier,
      NextCpu, WakeWorker, WorkerInv, InsertPlace
<1>26. ASSUME NEW t \in Task, WorkWait(t) PROVE WorkerInv'
  BY <1>0, <1>t, <1>26, Agents
  DEF WorkWait, NextCpu, BarrierDone, Goto, Free, OnList, cwq,
      worker, WorkerInv, InsertPlace
<1>27. ASSUME NEW t \in Task, ClearBit(t) PROVE WorkerInv'
  BY <1>0, <1>t, <1>27, Agents
  DEF ClearBit, Return, Goto, Free, OnList, Outside, cwq, worker,
      WorkerInv, InsertPlace
<1>28. ASSUME NEW t \in Task, kthread_stop(t) PROVE WorkerInv'
  BY <1>0, <1>t, <1>28, Agents
  DEF kthread_stop, Goto, Free, OnList, WakeWorker, cwq,
      WorkerInv, InsertPlace
<1>29. ASSUME NEW t \in Task, Stopped(t) PROVE WorkerInv'
  BY <1>0, <1>t, <1>29, Agents
  DEF Stopped, Return, Goto, Free, OnList, Outside, cwq, worker,
      WorkerInv, InsertPlace
<1> QED
  BY <1>1, <1>2, <1>3, <1>4, <1>5, <1>6, <1>7, <1>8, <1>9, <1>10, <1>11, <1>12, <1>13, <1>14,
     <1>15, <1>16, <1>17, <1>18, <1>19, <1>20, <1>21, <1>22, <1>23, <1>24, <1>25, <1>26, <1>27,
     <1>28, <1>29, NextCases

\* A task is in one call at a time.
LEMMA TaskStep ==
  ASSUME IInv, Next
  PROVE  TaskInv'
<1>0. TaskInv /\ AgentInv /\ WorkerInv
  BY DEF IInv
<1>t. /\ pc \in [Agent -> Place] /\ cpu \in [Agent -> CPU \cup {None}]
      /\ at \in [Task -> CPU \cup {None}]
      /\ kind \in [Task -> Calls \cup {"none", "flush", "cleanup"}] /\ online \subseteq CPU
      /\ data \in [Work -> CPU \cup {None}]
  BY DEF IInv, TypeOK, TaskInv
<1>1. ASSUME NEW a \in Agent, NEW w \in load.works, queue_work(a, w) PROVE TaskInv'
  BY <1>0, <1>t, <1>1, Agents, RunsOnline, CpuNumbers
  DEF queue_work, Goto, Free, OnList,
      MayCall, SetPending, Outside, Return, env, TaskInv, InsertPlace, FlushPlace, CancelPlace,
      CancelCalls, Calls
<1>2. ASSUME NEW a \in Agent, NEW w \in load.works, queue_delayed_work(a, w) PROVE TaskInv'
  BY <1>0, <1>t, <1>2, Agents, RunsOnline, CpuNumbers
  DEF queue_delayed_work, Goto, Free,
      OnList, MayCall, SetPending, Outside, Return, env, TaskInv, InsertPlace, FlushPlace,
      CancelPlace, CancelCalls, Calls
<1>3. ASSUME NEW a \in Agent, SetWqData(a) PROVE TaskInv'
  BY <1>0, <1>t, <1>3, Agents, RunsOnline, CpuNumbers
  DEF SetWqData, Goto, Free, OnList,
      StoreCwq, env, TaskInv, InsertPlace, FlushPlace, CancelPlace, CancelCalls, Calls
<1>4. ASSUME NEW a \in Agent, ListAdd(a) PROVE TaskInv'
  BY <1>0, <1>t, <1>4, Agents, RunsOnline, CpuNumbers
  DEF ListAdd, Return, WakeWorker, Goto,
      Free, OnList, Outside, env, TaskInv, InsertPlace, FlushPlace, CancelPlace, CancelCalls,
      Calls
<1>5. ASSUME NEW a \in Agent, SetWqDataUnlocked(a) PROVE TaskInv'
  BY <1>0, <1>t, <1>5, Agents, RunsOnline, CpuNumbers
  DEF SetWqDataUnlocked, Goto, Free,
      OnList, env, TaskInv, InsertPlace, FlushPlace, CancelPlace, CancelCalls, Calls
<1>6. ASSUME NEW a \in Agent, AddTimer(a) PROVE TaskInv'
  BY <1>0, <1>t, <1>6, Agents, RunsOnline, CpuNumbers
  DEF AddTimer, Return, Goto, Free, OnList,
      Outside, env, TaskInv, InsertPlace, FlushPlace, CancelPlace, CancelCalls, Calls
<1>7. ASSUME NEW w \in Work, delayed_work_timer_fn(w) PROVE TaskInv'
  BY <1>0, <1>t, <1>7, Agents, RunsOnline, CpuNumbers
  DEF delayed_work_timer_fn, Goto, Free,
      OnList, env, TaskInv, InsertPlace, FlushPlace, CancelPlace, CancelCalls, Calls
<1>8. ASSUME NEW c \in CPU, RunsOn(c) # {}, prepare_to_wait(c) PROVE TaskInv'
  BY <1>0, <1>t, <1>8, Agents, RunsOnline, CpuNumbers
  DEF prepare_to_wait, Goto, Free, OnList,
      env, TaskInv, InsertPlace, FlushPlace, CancelPlace, CancelCalls, Calls
<1>9. ASSUME NEW c \in CPU, RunsOn(c) # {}, TestList(c) PROVE TaskInv'
  BY <1>0, <1>t, <1>9, Agents, RunsOnline, CpuNumbers
  DEF TestList, Goto, Free, OnList, env,
      TaskInv, InsertPlace, FlushPlace, CancelPlace, CancelCalls, Calls
<1>10. ASSUME NEW c \in CPU, RunsOn(c) # {}, StopCheck(c) PROVE TaskInv'
  BY <1>0, <1>t, <1>10, Agents, RunsOnline, CpuNumbers
  DEF StopCheck, Goto, Free, OnList, env,
      TaskInv, InsertPlace, FlushPlace, CancelPlace, CancelCalls, Calls
<1>11. ASSUME NEW c \in CPU, RunsOn(c) # {}, Take(c) PROVE TaskInv'
  <2>1. PICK stk \in Seq(Item), i \in Item \cup {None} :
          /\ Leaves(c, stk, i)
          /\ TakesNone(c, stk) \/ \E h \in Item, s \in Seq(Item) : Takes(c, stk, h, s)
    BY <1>11, TakeEffect
  <2>2. /\ pc[c] \in {"run", "func", "end"} /\ Free(c)
        /\ UNCHANGED <<lock, state, should_stop, online, load, wrk, cpu, kind, at, done, pending, data,
                       timer>>
    BY <1>11, TakeEffect DEF works, env
  <2>3. CASE TakesNone(c, stk)
    BY <1>0, <1>t, Agents, <2>1, <2>2, <2>3 DEF TakesNone, Leaves, TaskInv, InsertPlace, FlushPlace, CancelPlace, CancelCalls, Calls
  <2>4. ASSUME NEW h \in Item, NEW rest \in Seq(Item), Takes(c, stk, h, rest)
        PROVE  TaskInv'
    <3>1. PICK r \in Seq(Item) :
            /\ stack' = [stack EXCEPT ![c] = r]
            /\ r # <<>> /\ Last(r) = h /\ Len(r) = Len(stk) + 1
            /\ stk = <<>> => r[1] = h
            /\ \A x : In(x, r) <=> In(x, stk) \/ x = h
      BY <2>4 DEF Takes
    <3> QED
      BY <1>0, <1>t, Agents, <2>1, <2>2, <2>4, <3>1 DEF Takes, Leaves, TaskInv, InsertPlace, FlushPlace, CancelPlace, CancelCalls, Calls
  <2> QED
    BY <2>1, <2>3, <2>4
<1>12. ASSUME NEW c \in CPU, RunsOn(c) # {}, CallFunc(c) PROVE TaskInv'
  BY <1>0, <1>t, <1>12, Agents, RunsOnline, CpuNumbers
  DEF CallFunc, Goto, Free, OnList, env,
      TaskInv, InsertPlace, FlushPlace, CancelPlace, CancelCalls, Calls
<1>13. ASSUME NEW t \in Task, flush_workqueue(t) PROVE TaskInv'
  BY <1>0, <1>t, <1>13, Agents, RunsOnline, CpuNumbers
  DEF flush_workqueue, Goto, Free, OnList,
      MayCall, Outside, Return, env, TaskInv, InsertPlace, FlushPlace, CancelPlace, CancelCalls,
      Calls
<1>14. ASSUME NEW t \in Task, NEW c \in CPU, CpuDead(t, c) PROVE TaskInv'
  BY <1>0, <1>t, <1>14, Agents, RunsOnline, CpuNumbers
  DEF CpuDead, Goto, Free, OnList,
      MayCall, Outside, Return, TaskInv, InsertPlace, FlushPlace, CancelPlace, CancelCalls, Calls
<1>15. ASSUME NEW t \in Task, NEW w \in load.works, NEW k \in CancelCalls, Cancel(t, w, k)
      PROVE  TaskInv'
  BY <1>0, <1>t, <1>15, Agents, RunsOnline, CpuNumbers
  DEF Cancel, Goto, Free, OnList, MayCall,
      Outside, Return, env, TaskInv, InsertPlace, FlushPlace, CancelPlace, CancelCalls, Calls
<1>16. ASSUME NEW t \in Task, Steal(t) PROVE TaskInv'
  BY <1>0, <1>t, <1>16, Agents, RunsOnline, CpuNumbers
  DEF Steal, Goto, Free, OnList, Retry,
      StillThere, env, TaskInv, InsertPlace, FlushPlace, CancelPlace, CancelCalls, Calls
<1>17. ASSUME NEW t \in Task, flush_cpu_workqueue(t) PROVE TaskInv'
  BY <1>0, <1>t, <1>17, Agents, RunsOnline, CpuNumbers
  DEF flush_cpu_workqueue, Goto, Free,
      OnList, InsertBarrier, NextCpu, Busy, WakeWorker, env, TaskInv, InsertPlace, FlushPlace,
      CancelPlace, CancelCalls, Calls
<1>18. ASSUME NEW t \in Task, FlushWait(t) PROVE TaskInv'
  BY <1>0, <1>t, <1>18, Agents, RunsOnline, CpuNumbers
  DEF FlushWait, NextCpu, BarrierDone,
      Goto, Free, OnList, env, TaskInv, InsertPlace, FlushPlace, CancelPlace, CancelCalls, Calls
<1>19. ASSUME NEW t \in Task, FlushReturns(t) PROVE TaskInv'
  BY <1>0, <1>t, <1>19, Agents, RunsOnline, CpuNumbers
  DEF FlushReturns, Goto, Free, OnList,
      Return, Outside, env, TaskInv, InsertPlace, FlushPlace, CancelPlace, CancelCalls, Calls
<1>20. ASSUME NEW t \in Task, DelTimer(t) PROVE TaskInv'
  BY <1>0, <1>t, <1>20, Agents, RunsOnline, CpuNumbers
  DEF DelTimer, Goto, Free, OnList,
      Return, Outside, env, TaskInv, InsertPlace, FlushPlace, CancelPlace, CancelCalls, Calls
<1>21. ASSUME NEW t \in Task, Grab(t) PROVE TaskInv'
  BY <1>0, <1>t, <1>21, Agents, RunsOnline, CpuNumbers
  DEF Grab, Goto, Free, OnList, env,
      TaskInv, InsertPlace, FlushPlace, CancelPlace, CancelCalls, Calls
<1>22. ASSUME NEW t \in Task, GetCwq(t) PROVE TaskInv'
  BY <1>0, <1>t, <1>22, Agents, RunsOnline, CpuNumbers
  DEF GetCwq, Goto, Free, OnList, Retry,
      env, TaskInv, InsertPlace, FlushPlace, CancelPlace, CancelCalls, Calls, AgentInv
<1>23. ASSUME NEW t \in Task, LockCwq(t) PROVE TaskInv'
  BY <1>0, <1>t, <1>23, Agents, RunsOnline, CpuNumbers
  DEF LockCwq, Goto, Free, OnList, Retry,
      env, TaskInv, InsertPlace, FlushPlace, CancelPlace, CancelCalls, Calls
<1>24. ASSUME NEW t \in Task, wait_on_work(t) PROVE TaskInv'
  BY <1>0, <1>t, <1>24, Agents, RunsOnline, CpuNumbers
  DEF wait_on_work, Goto, Free, OnList,
      FirstQueue, env, TaskInv, InsertPlace, FlushPlace, CancelPlace, CancelCalls, Calls
<1>25. ASSUME NEW t \in Task, wait_on_cpu_work(t) PROVE TaskInv'
  BY <1>0, <1>t, <1>25, Agents, RunsOnline, CpuNumbers
  DEF wait_on_cpu_work, Goto, Free,
      OnList, InsertBarrier, NextCpu, WakeWorker, env, TaskInv, InsertPlace, FlushPlace,
      CancelPlace, CancelCalls, Calls
<1>26. ASSUME NEW t \in Task, WorkWait(t) PROVE TaskInv'
  BY <1>0, <1>t, <1>26, Agents, RunsOnline, CpuNumbers
  DEF WorkWait, NextCpu, BarrierDone,
      Goto, Free, OnList, env, TaskInv, InsertPlace, FlushPlace, CancelPlace, CancelCalls, Calls
<1>27. ASSUME NEW t \in Task, ClearBit(t) PROVE TaskInv'
  BY <1>0, <1>t, <1>27, Agents, RunsOnline, CpuNumbers
  DEF ClearBit, Return, Goto, Free,
      OnList, Outside, env, TaskInv, InsertPlace, FlushPlace, CancelPlace, CancelCalls, Calls
<1>28. ASSUME NEW t \in Task, kthread_stop(t) PROVE TaskInv'
  BY <1>0, <1>t, <1>28, Agents, RunsOnline, CpuNumbers
  DEF kthread_stop, Goto, Free, OnList,
      WakeWorker, env, TaskInv, InsertPlace, FlushPlace, CancelPlace, CancelCalls, Calls
<1>29. ASSUME NEW t \in Task, Stopped(t) PROVE TaskInv'
  BY <1>0, <1>t, <1>29, Agents, RunsOnline, CpuNumbers
  DEF Stopped, Return, Goto, Free, OnList,
      Outside, env, TaskInv, InsertPlace, FlushPlace, CancelPlace, CancelCalls, Calls
<1> QED
  BY <1>1, <1>2, <1>3, <1>4, <1>5, <1>6, <1>7, <1>8, <1>9, <1>10, <1>11, <1>12, <1>13, <1>14,
     <1>15, <1>16, <1>17, <1>18, <1>19, <1>20, <1>21, <1>22, <1>23, <1>24, <1>25, <1>26, <1>27,
     <1>28, <1>29, NextCases

\* Works, queues and locks of the agents.
LEMMA AgentStep ==
  ASSUME IInv, Next
  PROVE  AgentInv'
<1>0. AgentInv /\ TaskInv /\ WorkerInv
  BY DEF IInv
<1>t. /\ pc \in [Agent -> Place] /\ wrk \in [Agent -> Work \cup {None}]
      /\ cpu \in [Agent -> CPU \cup {None}] /\ lock \in [CPU -> Agent \cup {None}]
      /\ online \subseteq CPU /\ data \in [Work -> CPU \cup {None}]
  BY DEF IInv, TypeOK
<1>1. ASSUME NEW a \in Agent, NEW w \in load.works, queue_work(a, w) PROVE AgentInv'
  BY <1>0, <1>t, <1>1, Agents, RunsOnline, CpuNumbers
  DEF queue_work, Goto, Free, OnList,
      MayCall, SetPending, Outside, Return, cwq, env, AgentInv, InsertPlace, CancelPlace
<1>2. ASSUME NEW a \in Agent, NEW w \in load.works, queue_delayed_work(a, w) PROVE AgentInv'
  BY <1>0, <1>t, <1>2, Agents, RunsOnline, CpuNumbers
  DEF queue_delayed_work, Goto, Free,
      OnList, MayCall, SetPending, Outside, Return, cwq, env, AgentInv, InsertPlace, CancelPlace
<1>3. ASSUME NEW a \in Agent, SetWqData(a) PROVE AgentInv'
  BY <1>0, <1>t, <1>3, Agents, RunsOnline, CpuNumbers
  DEF SetWqData, Goto, Free, OnList,
      StoreCwq, env, AgentInv, InsertPlace, CancelPlace
<1>4. ASSUME NEW a \in Agent, ListAdd(a) PROVE AgentInv'
  BY <1>0, <1>t, <1>4, Agents, RunsOnline, CpuNumbers
  DEF ListAdd, Return, WakeWorker, Goto,
      Free, OnList, Outside, env, AgentInv, InsertPlace, CancelPlace
<1>5. ASSUME NEW a \in Agent, SetWqDataUnlocked(a) PROVE AgentInv'
  BY <1>0, <1>t, <1>5, Agents, RunsOnline, CpuNumbers
  DEF SetWqDataUnlocked, Goto, Free,
      OnList, cwq, env, AgentInv, InsertPlace, CancelPlace
<1>6. ASSUME NEW a \in Agent, AddTimer(a) PROVE AgentInv'
  BY <1>0, <1>t, <1>6, Agents, RunsOnline, CpuNumbers
  DEF AddTimer, Return, Goto, Free, OnList,
      Outside, cwq, env, AgentInv, InsertPlace, CancelPlace
<1>7. ASSUME NEW w \in Work, delayed_work_timer_fn(w) PROVE AgentInv'
  BY <1>0, <1>t, <1>7, Agents, RunsOnline, CpuNumbers
  DEF delayed_work_timer_fn, Goto, Free,
      OnList, cwq, env, AgentInv, InsertPlace, CancelPlace
<1>8. ASSUME NEW c \in CPU, RunsOn(c) # {}, prepare_to_wait(c) PROVE AgentInv'
  BY <1>0, <1>t, <1>8, Agents, RunsOnline, CpuNumbers
  DEF prepare_to_wait, Goto, Free, OnList,
      cwq, env, AgentInv, InsertPlace, CancelPlace
<1>9. ASSUME NEW c \in CPU, RunsOn(c) # {}, TestList(c) PROVE AgentInv'
  BY <1>0, <1>t, <1>9, Agents, RunsOnline, CpuNumbers
  DEF TestList, Goto, Free, OnList, cwq,
      env, AgentInv, InsertPlace, CancelPlace
<1>10. ASSUME NEW c \in CPU, RunsOn(c) # {}, StopCheck(c) PROVE AgentInv'
  BY <1>0, <1>t, <1>10, Agents, RunsOnline, CpuNumbers
  DEF StopCheck, Goto, Free, OnList, cwq,
      env, AgentInv, InsertPlace, CancelPlace
<1>11. ASSUME NEW c \in CPU, RunsOn(c) # {}, Take(c) PROVE AgentInv'
  <2>1. PICK stk \in Seq(Item), i \in Item \cup {None} :
          /\ Leaves(c, stk, i)
          /\ TakesNone(c, stk) \/ \E h \in Item, s \in Seq(Item) : Takes(c, stk, h, s)
    BY <1>11, TakeEffect
  <2>2. /\ pc[c] \in {"run", "func", "end"} /\ Free(c)
        /\ UNCHANGED <<lock, state, should_stop, online, load, wrk, cpu, kind, at, done, pending, data,
                       timer>>
    BY <1>11, TakeEffect DEF works, env
  <2>3. CASE TakesNone(c, stk)
    BY <1>0, <1>t, Agents, <2>1, <2>2, <2>3 DEF TakesNone, Leaves, AgentInv, InsertPlace, CancelPlace
  <2>4. ASSUME NEW h \in Item, NEW rest \in Seq(Item), Takes(c, stk, h, rest)
        PROVE  AgentInv'
    <3>1. PICK r \in Seq(Item) :
            /\ stack' = [stack EXCEPT ![c] = r]
            /\ r # <<>> /\ Last(r) = h /\ Len(r) = Len(stk) + 1
            /\ stk = <<>> => r[1] = h
            /\ \A x : In(x, r) <=> In(x, stk) \/ x = h
      BY <2>4 DEF Takes
    <3> QED
      BY <1>0, <1>t, Agents, <2>1, <2>2, <2>4, <3>1 DEF Takes, Leaves, AgentInv, InsertPlace, CancelPlace
  <2> QED
    BY <2>1, <2>3, <2>4
<1>12. ASSUME NEW c \in CPU, RunsOn(c) # {}, CallFunc(c) PROVE AgentInv'
  BY <1>0, <1>t, <1>12, Agents, RunsOnline, CpuNumbers
  DEF CallFunc, Goto, Free, OnList, cwq,
      env, AgentInv, InsertPlace, CancelPlace
<1>13. ASSUME NEW t \in Task, flush_workqueue(t) PROVE AgentInv'
  BY <1>0, <1>t, <1>13, Agents, RunsOnline, CpuNumbers
  DEF flush_workqueue, Goto, Free, OnList,
      MayCall, Outside, Return, cwq, env, AgentInv, InsertPlace, CancelPlace
<1>14. ASSUME NEW t \in Task, NEW c \in CPU, CpuDead(t, c) PROVE AgentInv'
  BY <1>0, <1>t, <1>14, Agents, RunsOnline, CpuNumbers
  DEF CpuDead, Goto, Free, OnList,
      MayCall, Outside, Return, cwq, AgentInv, InsertPlace, CancelPlace
<1>15. ASSUME NEW t \in Task, NEW w \in load.works, NEW k \in CancelCalls, Cancel(t, w, k)
      PROVE  AgentInv'
  BY <1>0, <1>t, <1>15, Agents, RunsOnline, CpuNumbers
  DEF Cancel, Goto, Free, OnList, MayCall,
      Outside, Return, cwq, env, AgentInv, InsertPlace, CancelPlace
<1>16. ASSUME NEW t \in Task, Steal(t) PROVE AgentInv'
  BY <1>0, <1>t, <1>16, Agents, RunsOnline, CpuNumbers
  DEF Steal, Goto, Free, OnList, Retry,
      StillThere, env, AgentInv, InsertPlace, CancelPlace
<1>17. ASSUME NEW t \in Task, flush_cpu_workqueue(t) PROVE AgentInv'
  BY <1>0, <1>t, <1>17, Agents, RunsOnline, CpuNumbers
  DEF flush_cpu_workqueue, Goto, Free,
      OnList, InsertBarrier, NextCpu, Busy, WakeWorker, env, AgentInv, InsertPlace, CancelPlace
<1>18. ASSUME NEW t \in Task, FlushWait(t) PROVE AgentInv'
  BY <1>0, <1>t, <1>18, Agents, RunsOnline, CpuNumbers
  DEF FlushWait, NextCpu, BarrierDone,
      Goto, Free, OnList, cwq, env, AgentInv, InsertPlace, CancelPlace
<1>19. ASSUME NEW t \in Task, FlushReturns(t) PROVE AgentInv'
  BY <1>0, <1>t, <1>19, Agents, RunsOnline, CpuNumbers
  DEF FlushReturns, Goto, Free, OnList,
      Return, Outside, cwq, env, AgentInv, InsertPlace, CancelPlace
<1>20. ASSUME NEW t \in Task, DelTimer(t) PROVE AgentInv'
  BY <1>0, <1>t, <1>20, Agents, RunsOnline, CpuNumbers
  DEF DelTimer, Goto, Free, OnList,
      Return, Outside, cwq, env, AgentInv, InsertPlace, CancelPlace
<1>21. ASSUME NEW t \in Task, Grab(t) PROVE AgentInv'
  BY <1>0, <1>t, <1>21, Agents, RunsOnline, CpuNumbers
  DEF Grab, Goto, Free, OnList, cwq, env,
      AgentInv, InsertPlace, CancelPlace
<1>22. ASSUME NEW t \in Task, GetCwq(t) PROVE AgentInv'
  BY <1>0, <1>t, <1>22, Agents, RunsOnline, CpuNumbers
  DEF GetCwq, Goto, Free, OnList, Retry,
      cwq, env, AgentInv, InsertPlace, CancelPlace
<1>23. ASSUME NEW t \in Task, LockCwq(t) PROVE AgentInv'
  <2>1. cpu[t] \in CPU /\ lock[cpu[t]] = None /\ wrk[t] \in Work
    BY <1>0, <1>23, Agents DEF LockCwq, Free, TaskInv, AgentInv, CancelPlace
  <2>2. \/ lock' = [lock EXCEPT ![cpu[t]] = t] /\ pc' = [pc EXCEPT ![t] = "steal"]
        \/ lock' = lock /\ pc' = [pc EXCEPT ![t] = "grab"]
        \/ lock' = lock /\ pc' = [pc EXCEPT ![t] = "deltimer"]
    BY <1>23 DEF LockCwq, Goto, Retry
  <2>3. UNCHANGED <<online, load, wrk, cpu>>
    BY <1>23 DEF LockCwq, env
  <2>4. CASE lock' = [lock EXCEPT ![cpu[t]] = t] /\ pc' = [pc EXCEPT ![t] = "steal"]
    <3>1. \A a \in Agent : a # t /\ pc[a] \in {"add", "steal"} => lock'[cpu[a]] = a
      BY <1>0, <1>t, <2>1, <2>4, Agents DEF AgentInv
    <3> QED
      BY <1>0, <1>t, <2>1, <2>3, <2>4, <3>1, Agents DEF AgentInv, InsertPlace, CancelPlace
  <2>5. CASE lock' = lock /\ pc' = [pc EXCEPT ![t] = "grab"]
    BY <1>0, <1>t, <2>1, <2>3, <2>5, Agents DEF AgentInv, InsertPlace, CancelPlace
  <2>6. CASE lock' = lock /\ pc' = [pc EXCEPT ![t] = "deltimer"]
    BY <1>0, <1>t, <2>1, <2>3, <2>6, Agents DEF AgentInv, InsertPlace, CancelPlace
  <2> QED
    BY <2>2, <2>4, <2>5, <2>6
<1>24. ASSUME NEW t \in Task, wait_on_work(t) PROVE AgentInv'
  BY <1>0, <1>t, <1>24, Agents, RunsOnline, CpuNumbers
  DEF wait_on_work, Goto, Free, OnList,
      FirstQueue, cwq, env, AgentInv, InsertPlace, CancelPlace
<1>25. ASSUME NEW t \in Task, wait_on_cpu_work(t) PROVE AgentInv'
  BY <1>0, <1>t, <1>25, Agents, RunsOnline, CpuNumbers
  DEF wait_on_cpu_work, Goto, Free,
      OnList, InsertBarrier, NextCpu, WakeWorker, env, AgentInv, InsertPlace, CancelPlace
<1>26. ASSUME NEW t \in Task, WorkWait(t) PROVE AgentInv'
  BY <1>0, <1>t, <1>26, Agents, RunsOnline, CpuNumbers
  DEF WorkWait, NextCpu, BarrierDone,
      Goto, Free, OnList, cwq, env, AgentInv, InsertPlace, CancelPlace
<1>27. ASSUME NEW t \in Task, ClearBit(t) PROVE AgentInv'
  BY <1>0, <1>t, <1>27, Agents, RunsOnline, CpuNumbers
  DEF ClearBit, Return, Goto, Free,
      OnList, Outside, cwq, env, AgentInv, InsertPlace, CancelPlace
<1>28. ASSUME NEW t \in Task, kthread_stop(t) PROVE AgentInv'
  BY <1>0, <1>t, <1>28, Agents, RunsOnline, CpuNumbers
  DEF kthread_stop, Goto, Free, OnList,
      WakeWorker, cwq, env, AgentInv, InsertPlace, CancelPlace
<1>29. ASSUME NEW t \in Task, Stopped(t) PROVE AgentInv'
  BY <1>0, <1>t, <1>29, Agents, RunsOnline, CpuNumbers
  DEF Stopped, Return, Goto, Free, OnList,
      Outside, cwq, env, AgentInv, InsertPlace, CancelPlace
<1> QED
  BY <1>1, <1>2, <1>3, <1>4, <1>5, <1>6, <1>7, <1>8, <1>9, <1>10, <1>11, <1>12, <1>13, <1>14,
     <1>15, <1>16, <1>17, <1>18, <1>19, <1>20, <1>21, <1>22, <1>23, <1>24, <1>25, <1>26, <1>27,
     <1>28, <1>29, NextCases

\* current_work is what the worker is in.
LEMMA CurrentStep ==
  ASSUME IInv, Next
  PROVE  CurrentInv'
<1>0. CurrentInv
  BY DEF IInv
<1>t. /\ current_work \in [CPU -> Item \cup {None}] /\ stack \in [CPU -> Seq(Item)]
  BY DEF IInv, TypeOK
<1>1. CASE UNCHANGED <<current_work, stack>>
  BY <1>0, <1>1 DEF CurrentInv
<1>2. ASSUME NEW c \in CPU, RunsOn(c) # {}, Take(c) PROVE CurrentInv'
  <2>1. PICK stk \in Seq(Item), i \in Item \cup {None} :
          /\ Leaves(c, stk, i)
          /\ TakesNone(c, stk) \/ \E h \in Item, s \in Seq(Item) : Takes(c, stk, h, s)
    BY <1>2, TakeEffect
  <2>2. /\ pc[c] \in {"run", "func", "end"} /\ Free(c)
        /\ UNCHANGED <<lock, state, should_stop, online, load, wrk, cpu, kind, at, done, pending, data,
                       timer>>
    BY <1>2, TakeEffect DEF works, env
  <2>3. CASE TakesNone(c, stk)
    BY <1>0, <1>t, Agents, <2>1, <2>2, <2>3 DEF TakesNone, Leaves, CurrentInv
  <2>4. ASSUME NEW h \in Item, NEW rest \in Seq(Item), Takes(c, stk, h, rest)
        PROVE  CurrentInv'
    <3>1. PICK r \in Seq(Item) :
            /\ stack' = [stack EXCEPT ![c] = r]
            /\ r # <<>> /\ Last(r) = h /\ Len(r) = Len(stk) + 1
            /\ stk = <<>> => r[1] = h
            /\ \A x : In(x, r) <=> In(x, stk) \/ x = h
      BY <2>4 DEF Takes
    <3> QED
      BY <1>0, <1>t, Agents, <2>1, <2>2, <2>4, <3>1 DEF Takes, Leaves, CurrentInv
  <2> QED
    BY <2>1, <2>3, <2>4
<1> QED
  <2>1. ASSUME NEW a \in Agent, NEW w \in load.works, queue_work(a, w)
        PROVE  UNCHANGED <<current_work, stack>>
    BY <2>1 DEF queue_work, Return, cwq, worker
  <2>2. ASSUME NEW a \in Agent, NEW w \in load.works, queue_delayed_work(a, w)
        PROVE  UNCHANGED <<current_work, stack>>
    BY <2>2 DEF queue_delayed_work, Return, cwq, worker
  <2>3. ASSUME NEW a \in Agent, SetWqData(a) PROVE UNCHANGED <<current_work, stack>>
    BY <2>3 DEF SetWqData, StoreCwq, worker
  <2>4. ASSUME NEW a \in Agent, ListAdd(a) PROVE UNCHANGED <<current_work, stack>>
    BY <2>4 DEF ListAdd, Return
  <2>5. ASSUME NEW a \in Agent, SetWqDataUnlocked(a) PROVE UNCHANGED <<current_work, stack>>
    BY <2>5 DEF SetWqDataUnlocked, cwq, worker
  <2>6. ASSUME NEW a \in Agent, AddTimer(a) PROVE UNCHANGED <<current_work, stack>>
    BY <2>6 DEF AddTimer, Return, cwq, worker
  <2>7. ASSUME NEW w \in Work, delayed_work_timer_fn(w) PROVE UNCHANGED <<current_work, stack>>
    BY <2>7 DEF delayed_work_timer_fn, cwq, worker
  <2>8. ASSUME NEW c \in CPU, RunsOn(c) # {}, prepare_to_wait(c)
        PROVE  UNCHANGED <<current_work, stack>>
    BY <2>8 DEF prepare_to_wait, cwq
  <2>9. ASSUME NEW c \in CPU, RunsOn(c) # {}, TestList(c) PROVE UNCHANGED <<current_work, stack>>
    BY <2>9 DEF TestList, cwq
  <2>10. ASSUME NEW c \in CPU, RunsOn(c) # {}, StopCheck(c)
        PROVE  UNCHANGED <<current_work, stack>>
    BY <2>10 DEF StopCheck, cwq, worker
  <2>11. ASSUME NEW c \in CPU, RunsOn(c) # {}, CallFunc(c) PROVE UNCHANGED <<current_work, stack>>
    BY <2>11 DEF CallFunc, cwq, worker
  <2>12. ASSUME NEW t \in Task, flush_workqueue(t) PROVE UNCHANGED <<current_work, stack>>
    BY <2>12 DEF flush_workqueue, Return, cwq, worker
  <2>13. ASSUME NEW t \in Task, NEW c \in CPU, CpuDead(t, c)
        PROVE  UNCHANGED <<current_work, stack>>
    BY <2>13 DEF CpuDead, Return, cwq, worker
  <2>14. ASSUME NEW t \in Task, NEW w \in load.works, NEW k \in CancelCalls, Cancel(t, w, k)
        PROVE  UNCHANGED <<current_work, stack>>
    BY <2>14 DEF Cancel, Return, cwq, worker
  <2>15. ASSUME NEW t \in Task, Steal(t) PROVE UNCHANGED <<current_work, stack>>
    BY <2>15 DEF Steal, worker
  <2>16. ASSUME NEW t \in Task, flush_cpu_workqueue(t) PROVE UNCHANGED <<current_work, stack>>
    BY <2>16 DEF flush_cpu_workqueue, InsertBarrier, NextCpu
  <2>17. ASSUME NEW t \in Task, FlushWait(t) PROVE UNCHANGED <<current_work, stack>>
    BY <2>17 DEF FlushWait, NextCpu, cwq, worker
  <2>18. ASSUME NEW t \in Task, FlushReturns(t) PROVE UNCHANGED <<current_work, stack>>
    BY <2>18 DEF FlushReturns, Return, cwq, worker
  <2>19. ASSUME NEW t \in Task, DelTimer(t) PROVE UNCHANGED <<current_work, stack>>
    BY <2>19 DEF DelTimer, Return, cwq, worker
  <2>20. ASSUME NEW t \in Task, Grab(t) PROVE UNCHANGED <<current_work, stack>>
    BY <2>20 DEF Grab, cwq, worker
  <2>21. ASSUME NEW t \in Task, GetCwq(t) PROVE UNCHANGED <<current_work, stack>>
    BY <2>21 DEF GetCwq, cwq, worker
  <2>22. ASSUME NEW t \in Task, LockCwq(t) PROVE UNCHANGED <<current_work, stack>>
    BY <2>22 DEF LockCwq, worker
  <2>23. ASSUME NEW t \in Task, wait_on_work(t) PROVE UNCHANGED <<current_work, stack>>
    BY <2>23 DEF wait_on_work, cwq, worker
  <2>24. ASSUME NEW t \in Task, wait_on_cpu_work(t) PROVE UNCHANGED <<current_work, stack>>
    BY <2>24 DEF wait_on_cpu_work, InsertBarrier, NextCpu
  <2>25. ASSUME NEW t \in Task, WorkWait(t) PROVE UNCHANGED <<current_work, stack>>
    BY <2>25 DEF WorkWait, NextCpu, cwq, worker
  <2>26. ASSUME NEW t \in Task, ClearBit(t) PROVE UNCHANGED <<current_work, stack>>
    BY <2>26 DEF ClearBit, Return, cwq, worker
  <2>27. ASSUME NEW t \in Task, kthread_stop(t) PROVE UNCHANGED <<current_work, stack>>
    BY <2>27 DEF kthread_stop, cwq
  <2>28. ASSUME NEW t \in Task, Stopped(t) PROVE UNCHANGED <<current_work, stack>>
    BY <2>28 DEF Stopped, Return, cwq, worker
  <2> QED
    BY <2>1, <2>2, <2>3, <2>4, <2>5, <2>6, <2>7, <2>8, <2>9, <2>10, <2>11, <2>12, <2>13, <2>14,
       <2>15, <2>16, <2>17, <2>18, <2>19, <2>20, <2>21, <2>22, <2>23, <2>24, <2>25, <2>26, <2>27,
       <2>28, <1>1, <1>2, NextCases

\* A barrier is in one place.
LEMMA BarrierStep ==
  ASSUME IInv, Next
  PROVE  BarrierInv'
<1>0. BarrierInv /\ TaskInv /\ AgentInv /\ WorkerInv
  BY DEF IInv
<1>t. /\ pc \in [Agent -> Place] /\ cpu \in [Agent -> CPU \cup {None}]
      /\ done \in [Task -> BOOLEAN] /\ worklist \in [CPU -> Seq(Item)]
      /\ stack \in [CPU -> Seq(Item)] /\ wrk \in [Agent -> Work \cup {None}]
  BY DEF IInv, TypeOK
<1>f. ASSUME NEW a \in Agent, Mover(a), UNCHANGED <<worklist, stack, done>>,
             pc[a] # "clear", pc'[a] # "clear",
             a \in Task /\ pc[a] \in {"flushwait", "waitwork"} => done[a]
      PROVE  BarrierInv'
  BY <1>0, <1>f, Agents DEF Mover, BarrierInv, Listed, Clearing
<1>1. ASSUME NEW a \in Agent, NEW w \in load.works, queue_work(a, w) PROVE BarrierInv'
  BY <1>1, QueueWorkMoves, <1>f DEF Moves
<1>2. ASSUME NEW a \in Agent, NEW w \in load.works, queue_delayed_work(a, w) PROVE BarrierInv'
  BY <1>2, QueueDelayedWorkMoves, <1>f DEF Moves
<1>3. ASSUME NEW a \in Agent, SetWqData(a) PROVE BarrierInv'
  BY <1>3, SetWqDataMoves, <1>f DEF Moves
<1>4. ASSUME NEW a \in Agent, ListAdd(a) PROVE BarrierInv'
  <2>1. wrk[a] \in Work /\ cpu[a] \in CPU /\ a \in Agent
    BY <1>0, <1>t, <1>4, Agents DEF ListAdd, AgentInv, InsertPlace, IInv, TypeOK
  <2> DEFINE r == Append(worklist[cpu[a]], wrk[a])
  <2>2. /\ \A x : In(x, r) <=> In(x, worklist[cpu[a]]) \/ x = wrk[a]
        /\ \A x : Once(x, worklist[cpu[a]]) /\ (x = wrk[a] => ~In(x, worklist[cpu[a]])) => Once(x, r)
    BY <1>t, <2>1, Agents, AppendFacts
  <2> HIDE DEF r
  <2>3. /\ pc[a] = "add" /\ worklist' = [worklist EXCEPT ![cpu[a]] = r]
        /\ pc' = [pc EXCEPT ![a] = Outside(a)] /\ cpu' = [cpu EXCEPT ![a] = None]
        /\ UNCHANGED <<stack, done>>
    BY <1>4 DEF ListAdd, Return, Goto, r
  <2> QED
    BY <1>0, <1>t, <2>1, <2>2, <2>3, Agents DEF BarrierInv, Listed, Clearing, Outside
<1>5. ASSUME NEW a \in Agent, SetWqDataUnlocked(a) PROVE BarrierInv'
  BY <1>5, SetWqDataUnlockedMoves, <1>f DEF Moves
<1>6. ASSUME NEW a \in Agent, AddTimer(a) PROVE BarrierInv'
  BY <1>6, AddTimerMoves, <1>f DEF Moves
<1>7. ASSUME NEW w \in Work, delayed_work_timer_fn(w) PROVE BarrierInv'
  BY <1>7, DelayedWorkTimerFnMoves, <1>f DEF Moves
<1>8. ASSUME NEW c \in CPU, RunsOn(c) # {}, prepare_to_wait(c) PROVE BarrierInv'
  BY <1>8, PrepareToWaitMoves, <1>f DEF Moves
<1>9. ASSUME NEW c \in CPU, RunsOn(c) # {}, TestList(c) PROVE BarrierInv'
  BY <1>9, TestListMoves, <1>f DEF Moves
<1>10. ASSUME NEW c \in CPU, RunsOn(c) # {}, StopCheck(c) PROVE BarrierInv'
  BY <1>10, StopCheckMoves, <1>f DEF Moves
<1>11. ASSUME NEW c \in CPU, RunsOn(c) # {}, Take(c) PROVE BarrierInv'
  <2>1. PICK stk \in Seq(Item), i \in Item \cup {None} :
          /\ Leaves(c, stk, i)
          /\ TakesNone(c, stk) \/ \E h \in Item, s \in Seq(Item) : Takes(c, stk, h, s)
    BY <1>11, TakeEffect
  <2>2. /\ pc[c] \in {"run", "func", "end"} /\ Free(c)
        /\ UNCHANGED <<lock, state, should_stop, online, load, wrk, cpu, kind, at, done, pending, data,
                       timer>>
    BY <1>11, TakeEffect DEF works, env
  <2>3. CASE TakesNone(c, stk)
    BY <1>0, <1>t, Agents, <2>1, <2>2, <2>3 DEF TakesNone, Leaves, BarrierInv, Listed, Clearing
  <2>4. ASSUME NEW h \in Item, NEW rest \in Seq(Item), Takes(c, stk, h, rest)
        PROVE  BarrierInv'
    <3>1. PICK r \in Seq(Item) :
            /\ stack' = [stack EXCEPT ![c] = r]
            /\ r # <<>> /\ Last(r) = h /\ Len(r) = Len(stk) + 1
            /\ stk = <<>> => r[1] = h
            /\ \A x : In(x, r) <=> In(x, stk) \/ x = h
      BY <2>4 DEF Takes
    <3> QED
      BY <1>0, <1>t, Agents, <2>1, <2>2, <2>4, <3>1 DEF Takes, Leaves, BarrierInv, Listed, Clearing
  <2> QED
    BY <2>1, <2>3, <2>4
<1>12. ASSUME NEW c \in CPU, RunsOn(c) # {}, CallFunc(c) PROVE BarrierInv'
  <2> DEFINE i == Last(stack[c])
  <2>1. /\ Moves(c, {"clear"}, {"func", "end"}) /\ UNCHANGED <<worklist, stack, cpu>>
        /\ \/ i \in Work /\ done' = done
           \/ i \in Task /\ done' = [done EXCEPT ![i] = TRUE]
    <3>1. Moves(c, {"clear"}, {"func", "end"}) /\ UNCHANGED <<worklist, stack, cpu>>
      BY <1>12, CallFuncMoves
    <3>2. \/ i \in Work /\ done' = done
          \/ i \in Task /\ done' = [done EXCEPT ![i] = TRUE]
      BY <1>12, Zenon DEF CallFunc
    <3> QED
      BY <3>1, <3>2
  <2> HIDE DEF i
  <2>2. CASE i \in Work /\ done' = done
    BY <1>0, <2>1, <2>2, Agents DEF Moves, Mover, BarrierInv, Listed, Clearing
  <2>3. CASE i \in Task /\ done' = [done EXCEPT ![i] = TRUE]
    <3>1. Clearing(c, i)
      BY <2>1 DEF Moves, Clearing, i
    <3>2. \A d \in CPU : ~Listed(d, i) /\ (d # c => ~Clearing(d, i))
      BY <1>0, <2>3, <3>1 DEF BarrierInv
    <3>3. \A t \in Task : t # i => done'[t] = done[t]
      BY <1>t, <2>3
    <3> QED
      BY <1>0, <2>1, <2>3, <3>2, <3>3, Agents DEF Moves, Mover, BarrierInv, Listed, Clearing
  <2> QED
    BY <2>1, <2>2, <2>3
<1>13. ASSUME NEW t \in Task, flush_workqueue(t) PROVE BarrierInv'
  BY <1>13, FlushWorkqueueMoves, <1>f DEF Moves
<1>14. ASSUME NEW t \in Task, NEW c \in CPU, CpuDead(t, c) PROVE BarrierInv'
  BY <1>14, CpuDeadMoves, <1>f DEF Moves
<1>15. ASSUME NEW t \in Task, NEW w \in load.works, NEW k \in CancelCalls, Cancel(t, w, k)
      PROVE  BarrierInv'
  BY <1>15, CancelMoves, <1>f DEF Moves
<1>16. ASSUME NEW t \in Task, Steal(t) PROVE BarrierInv'
  <2>1. \A c \in CPU : LET r == RemoveFirst(worklist[c], wrk[t]) IN
                        (\A x : In(x, r) => In(x, worklist[c])) /\ (\A x : Once(x, worklist[c]) => Once(x, r))
    BY <1>t, RemoveFacts
  <2>2. \A c \in CPU, x \in Task : /\ In(x, worklist'[c]) => In(x, worklist[c])
                                   /\ Once(x, worklist[c]) => Once(x, worklist'[c])
    BY <1>16, <2>1 DEF Steal
  <2>3. pc[t] = "steal" /\ UNCHANGED <<stack, cpu, done>>
        /\ \E p \in {"waiton", "grab", "deltimer"} : pc' = [pc EXCEPT ![t] = p]
    BY <1>16 DEF Steal, Goto, Retry, worker
  <2> QED
    BY <1>0, <1>t, <2>2, <2>3, Agents DEF BarrierInv, Listed, Clearing
<1>17. ASSUME NEW t \in Task, flush_cpu_workqueue(t) PROVE BarrierInv'
  <2>1. /\ pc[t] = "flush" /\ cpu[t] \in CPU /\ kind[t] \in {"flush", "cleanup"} /\ Free(cpu[t])
        /\ UNCHANGED <<pending, data, timer, current_work, lock, stack, should_stop, online, load,
                       wrk, kind, at, owed>>
        /\ \/ /\ Busy(cpu[t]) /\ Inserts(t, Append(worklist[cpu[t]], t))
              /\ pc' = [pc EXCEPT ![t] = "flushwait"]
           \/ /\ ~Busy(cpu[t]) /\ Advances(t, "flush", "flushed")
              /\ UNCHANGED <<worklist, state, done>>
    BY <1>17, FlushCpuEffect
  <2>2. CASE Inserts(t, Append(worklist[cpu[t]], t)) /\ pc' = [pc EXCEPT ![t] = "flushwait"]
    <3> DEFINE r == Append(worklist[cpu[t]], t)
    <3>1. /\ \A x : In(x, r) <=> In(x, worklist[cpu[t]]) \/ x = t
          /\ \A x : Once(x, worklist[cpu[t]]) /\ (x = t => ~In(x, worklist[cpu[t]])) => Once(x, r)
      BY <1>t, <2>1, Agents, AppendFacts
    <3>2. \A d \in CPU : ~In(t, worklist[d]) /\ ~Clearing(d, t)
      BY <1>0, <2>1 DEF BarrierInv, Listed
    <3> HIDE DEF r
    <3>3. /\ worklist' = [worklist EXCEPT ![cpu[t]] = r] /\ done' = [done EXCEPT ![t] = FALSE]
          /\ cpu' = cpu /\ stack' = stack
      BY <2>1, <2>2 DEF Inserts, r
    <3> QED
      BY <1>0, <1>t, <2>1, <2>2, <3>1, <3>2, <3>3, Agents DEF BarrierInv, Listed, Clearing
  <2>3. CASE Advances(t, "flush", "flushed") /\ UNCHANGED <<worklist, done>>
    BY <1>0, <1>t, <2>1, <2>3, Agents DEF Advances, BarrierInv, Listed, Clearing
  <2> QED
    BY <2>1, <2>2, <2>3
<1>18. ASSUME NEW t \in Task, FlushWait(t) PROVE BarrierInv'
  <2>1. done[t]
    BY <1>18 DEF FlushWait, BarrierDone
  <2> QED
    BY <1>18, <2>1, FlushWaitMoves, <1>f DEF Moves
<1>19. ASSUME NEW t \in Task, FlushReturns(t) PROVE BarrierInv'
  BY <1>19, FlushReturnsMoves, <1>f DEF Moves
<1>20. ASSUME NEW t \in Task, DelTimer(t) PROVE BarrierInv'
  BY <1>20, DelTimerMoves, <1>f DEF Moves
<1>21. ASSUME NEW t \in Task, Grab(t) PROVE BarrierInv'
  BY <1>21, GrabMoves, <1>f DEF Moves
<1>22. ASSUME NEW t \in Task, GetCwq(t) PROVE BarrierInv'
  BY <1>22, GetCwqMoves, <1>f DEF Moves
<1>23. ASSUME NEW t \in Task, LockCwq(t) PROVE BarrierInv'
  BY <1>23, LockCwqMoves, <1>f DEF Moves
<1>24. ASSUME NEW t \in Task, wait_on_work(t) PROVE BarrierInv'
  BY <1>24, WaitOnWorkMoves, <1>f DEF Moves
<1>25. ASSUME NEW t \in Task, wait_on_cpu_work(t) PROVE BarrierInv'
  <2>1. /\ pc[t] = "waitcpu" /\ cpu[t] \in CPU /\ kind[t] \in CancelCalls /\ Free(cpu[t])
        /\ UNCHANGED <<pending, data, timer, current_work, lock, stack, should_stop, online, load,
                       wrk, kind, at, owed>>
        /\ \/ /\ current_work[cpu[t]] = wrk[t] /\ Inserts(t, <<t>> \o worklist[cpu[t]])
              /\ pc' = [pc EXCEPT ![t] = "waitwork"]
           \/ /\ current_work[cpu[t]] # wrk[t] /\ Advances(t, "waitcpu", "clearbit")
              /\ UNCHANGED <<worklist, state, done>>
    BY <1>25, WaitCpuEffect
  <2>2. CASE Inserts(t, <<t>> \o worklist[cpu[t]]) /\ pc' = [pc EXCEPT ![t] = "waitwork"]
    <3> DEFINE r == <<t>> \o worklist[cpu[t]]
    <3>1. /\ \A x : In(x, r) <=> In(x, worklist[cpu[t]]) \/ x = t
          /\ \A x : Once(x, worklist[cpu[t]]) /\ (x = t => ~In(x, worklist[cpu[t]])) => Once(x, r)
      BY <1>t, <2>1, Agents, ConsFacts
    <3>2. \A d \in CPU : ~In(t, worklist[d]) /\ ~Clearing(d, t)
      BY <1>0, <2>1 DEF BarrierInv, Listed
    <3> HIDE DEF r
    <3>3. /\ worklist' = [worklist EXCEPT ![cpu[t]] = r] /\ done' = [done EXCEPT ![t] = FALSE]
          /\ cpu' = cpu /\ stack' = stack
      BY <2>1, <2>2 DEF Inserts, r
    <3> QED
      BY <1>0, <1>t, <2>1, <2>2, <3>1, <3>2, <3>3, Agents DEF BarrierInv, Listed, Clearing
  <2>3. CASE Advances(t, "waitcpu", "clearbit") /\ UNCHANGED <<worklist, done>>
    BY <1>0, <1>t, <2>1, <2>3, Agents DEF Advances, BarrierInv, Listed, Clearing
  <2> QED
    BY <2>1, <2>2, <2>3
<1>26. ASSUME NEW t \in Task, WorkWait(t) PROVE BarrierInv'
  <2>1. done[t]
    BY <1>26 DEF WorkWait, BarrierDone
  <2> QED
    BY <1>26, <2>1, WorkWaitMoves, <1>f DEF Moves
<1>27. ASSUME NEW t \in Task, ClearBit(t) PROVE BarrierInv'
  BY <1>27, ClearBitMoves, <1>f DEF Moves
<1>28. ASSUME NEW t \in Task, kthread_stop(t) PROVE BarrierInv'
  BY <1>28, KthreadStopMoves, <1>f DEF Moves
<1>29. ASSUME NEW t \in Task, Stopped(t) PROVE BarrierInv'
  BY <1>29, StoppedMoves, <1>f DEF Moves
<1> QED
  BY <1>1, <1>2, <1>3, <1>4, <1>5, <1>6, <1>7, <1>8, <1>9, <1>10, <1>11, <1>12, <1>13, <1>14,
     <1>15, <1>16, <1>17, <1>18, <1>19, <1>20, <1>21, <1>22, <1>23, <1>24, <1>25, <1>26, <1>27,
     <1>28, <1>29, NextCases

\* The worker sleeps in front of an empty list.
LEMMA SleepStep ==
  ASSUME IInv, Next
  PROVE  SleepInv'
<1>0. SleepInv /\ TaskInv /\ AgentInv /\ WorkerInv /\ CurrentInv /\ BarrierInv
  BY DEF IInv
<1>t. /\ pc \in [Agent -> Place] /\ cpu \in [Agent -> CPU \cup {None}]
      /\ kind \in [Task -> Calls \cup {"none", "flush", "cleanup"}]
      /\ worklist \in [CPU -> Seq(Item)] /\ current_work \in [CPU -> Item \cup {None}]
      /\ state \in [CPU -> {"RUNNING", "INTERRUPTIBLE"}] /\ should_stop \in [CPU -> BOOLEAN]
      /\ online \subseteq CPU /\ done \in [Task -> BOOLEAN]
      /\ wrk \in [Agent -> Work \cup {None}] /\ stack \in [CPU -> Seq(Item)]
  BY DEF IInv, TypeOK, TaskInv
<1>g. \A t \in Task : kind[t] = "cleanup" => pc[t] \in {"flush", "flushwait", "flushed", "stop", "stopwait"}
  BY <1>0 DEF SleepInv, CleanupInv, FlushPlace
<1>c. \A t \in Task : kind[t] = "cleanup" => cpu[t] \in CPU
  BY <1>0, <1>g DEF TaskInv, FlushPlace
<1>f. ASSUME NEW a \in Agent, Mover(a), UNCHANGED <<worklist, current_work, state, should_stop, online, done>>,
             \A t \in Task : kind'[t] = "cleanup" => kind[t] = "cleanup" /\ t # a,
             pc'[a] # "sched", pc'[a] # "exit"
      PROVE  SleepInv'
  BY <1>0, <1>f, Agents DEF Mover, SleepInv, WakeInv, CleanupInv, Drained
<1>1. ASSUME NEW a \in Agent, NEW w \in load.works, queue_work(a, w) PROVE SleepInv'
  BY <1>1, QueueWorkMoves, <1>f, <1>g, Agents DEF Moves
<1>2. ASSUME NEW a \in Agent, NEW w \in load.works, queue_delayed_work(a, w) PROVE SleepInv'
  BY <1>2, QueueDelayedWorkMoves, <1>f, <1>g, Agents DEF Moves
<1>3. ASSUME NEW a \in Agent, SetWqData(a) PROVE SleepInv'
  BY <1>3, SetWqDataMoves, <1>f, <1>g, Agents DEF Moves
<1>4. ASSUME NEW a \in Agent, ListAdd(a) PROVE SleepInv'
  <2>1. /\ Moves(a, {"add"}, {"idle", "func"}) /\ cpu[a] \in CPU /\ cpu[a] \in online
        /\ UNCHANGED <<current_work, should_stop, online, done>>
    BY <1>4, <1>0, <1>t, ListAddMoves DEF ListAdd, AgentInv
  <2>2. \A c \in CPU : /\ c # cpu[a] => worklist'[c] = worklist[c] /\ state'[c] = state[c]
                       /\ c = cpu[a] => state'[c] = "RUNNING"
    BY <1>4, <1>t, <2>1 DEF ListAdd, WakeWorker
  <2>3. \A t \in Task : kind'[t] = "cleanup" => kind[t] = "cleanup" /\ t # a
    BY <1>4 DEF ListAdd, Return
  <2>4. \A c \in CPU : Drained(c) => Drained(c)'
    BY <2>1, <2>2 DEF Drained
  <2>5. WakeInv'
    BY <1>0, <2>1, <2>2, <2>4, Agents DEF Moves, Mover, SleepInv, WakeInv
  <2>6. CleanupInv'
    BY <1>0, <1>c, <2>1, <2>3, <2>4, Agents DEF Moves, Mover, SleepInv, CleanupInv, Drained
  <2> QED
    BY <2>5, <2>6 DEF SleepInv
<1>5. ASSUME NEW a \in Agent, SetWqDataUnlocked(a) PROVE SleepInv'
  BY <1>5, SetWqDataUnlockedMoves, <1>f, <1>g, Agents DEF Moves
<1>6. ASSUME NEW a \in Agent, AddTimer(a) PROVE SleepInv'
  <2>1. \A t \in Task : kind'[t] = "cleanup" => kind[t] = "cleanup" /\ t # a
    BY <1>6 DEF AddTimer, Return
  <2> QED
    BY <1>6, AddTimerMoves, <1>f, <2>1 DEF Moves
<1>7. ASSUME NEW w \in Work, delayed_work_timer_fn(w) PROVE SleepInv'
  BY <1>7, DelayedWorkTimerFnMoves, <1>f, <1>g, Agents DEF Moves
<1>8. ASSUME NEW c \in CPU, RunsOn(c) # {}, prepare_to_wait(c) PROVE SleepInv'
  <2>1. /\ Moves(c, {"prepare"}, {"test"}) /\ \A d \in CPU : d # c => state'[d] = state[d]
        /\ UNCHANGED <<worklist, current_work, should_stop, online, done, kind, cpu>>
    BY <1>8, <1>t, PrepareToWaitMoves DEF prepare_to_wait
  <2> QED
    BY <1>0, <2>1, Agents DEF Moves, Mover, SleepInv, WakeInv, CleanupInv, Drained
<1>9. ASSUME NEW c \in CPU, RunsOn(c) # {}, TestList(c) PROVE SleepInv'
  <2>1. /\ Moves(c, {"test"}, {"sched", "stopcheck"}) /\ \A d \in CPU : d # c => state'[d] = state[d]
        /\ UNCHANGED <<worklist, current_work, should_stop, online, done, kind, cpu>>
    BY <1>9, <1>t, TestListMoves DEF TestList
  <2>2. pc'[c] = "sched" => ~should_stop[c] /\ worklist[c] = <<>>
    BY <1>9, <1>t, Agents DEF TestList, Goto
  <2> QED
    BY <1>0, <2>1, <2>2, Agents DEF Moves, Mover, SleepInv, WakeInv, CleanupInv, Drained
<1>10. ASSUME NEW c \in CPU, RunsOn(c) # {}, StopCheck(c) PROVE SleepInv'
  <2>1. /\ Moves(c, {"stopcheck", "sched"}, {"exit", "run"})
        /\ UNCHANGED <<worklist, current_work, state, should_stop, online, done, kind, cpu>>
    BY <1>10, StopCheckMoves
  <2>2. pc'[c] = "exit" => should_stop[c]
    BY <1>10, <1>t, Agents DEF StopCheck, Goto
  <2> QED
    BY <1>0, <2>1, <2>2, Agents DEF Moves, Mover, SleepInv, WakeInv, CleanupInv, Drained
<1>11. ASSUME NEW c \in CPU, RunsOn(c) # {}, Take(c) PROVE SleepInv'
  <2>1. PICK stk \in Seq(Item), i \in Item \cup {None} :
          /\ Leaves(c, stk, i)
          /\ TakesNone(c, stk) \/ \E h \in Item, s \in Seq(Item) : Takes(c, stk, h, s)
    BY <1>11, TakeEffect
  <2>2. /\ pc[c] \in {"run", "func", "end"} /\ Free(c)
        /\ UNCHANGED <<lock, state, should_stop, online, load, wrk, cpu, kind, at, done, pending, data,
                       timer>>
    BY <1>11, TakeEffect DEF works, env
  <2>3. CASE TakesNone(c, stk)
    BY <1>0, <1>t, Agents, <2>1, <2>2, <2>3 DEF TakesNone, Leaves, SleepInv, WakeInv, CleanupInv, Drained
  <2>4. ASSUME NEW h \in Item, NEW rest \in Seq(Item), Takes(c, stk, h, rest)
        PROVE  SleepInv'
    <3>1. PICK r \in Seq(Item) :
            /\ stack' = [stack EXCEPT ![c] = r]
            /\ r # <<>> /\ Last(r) = h /\ Len(r) = Len(stk) + 1
            /\ stk = <<>> => r[1] = h
            /\ \A x : In(x, r) <=> In(x, stk) \/ x = h
      BY <2>4 DEF Takes
    <3> QED
      BY <1>0, <1>t, Agents, <2>1, <2>2, <2>4, <3>1 DEF Takes, Leaves, SleepInv, WakeInv, CleanupInv, Drained
  <2> QED
    BY <2>1, <2>3, <2>4
<1>12. ASSUME NEW c \in CPU, RunsOn(c) # {}, CallFunc(c) PROVE SleepInv'
  <2> DEFINE i == Last(stack[c])
  <2>1. Moves(c, {"clear"}, {"func", "end"})
        /\ UNCHANGED <<worklist, current_work, state, should_stop, online, kind, cpu>>
    BY <1>12, CallFuncMoves
  <2>2. \A t \in Task : done'[t] => done[t] \/ t = i
    BY <1>12, <1>t, Zenon DEF CallFunc
  <2>3. ASSUME i \in Task, kind[i] = "cleanup" PROVE Drained(cpu[i])
    <3>1. cpu[i] = c /\ c \notin online
      BY <1>0, <2>1, <2>3 DEF BarrierInv, Moves, Clearing, SleepInv, WakeInv, CleanupInv
    <3>2. NCPU > 1 /\ stack[c] # <<>>
      BY <1>0, <2>1, <3>1 DEF SleepInv, WakeInv, CleanupInv, Moves, WorkerInv, InsertPlace
    <3>3. Len(stack[c]) = 1 /\ current_work[c] = stack[c][1]
      BY <1>0, <3>2 DEF CurrentInv, Flat
    <3>4. current_work[c] # None
      <4>1. stack[c] \in Seq(Item) /\ 1 \in 1..Len(stack[c])
        BY <1>t, <3>3
      <4>2. stack[c][1] \in Item
        BY <4>1
      <4> QED
        BY <3>3, <4>2, Agents
    <3> QED
      BY <3>1, <3>4 DEF Drained
  <2> HIDE DEF i
  <2> QED
    BY <1>0, <2>1, <2>2, <2>3, Agents DEF Moves, Mover, SleepInv, WakeInv, CleanupInv, Drained, FlushPlace
<1>13. ASSUME NEW t \in Task, flush_workqueue(t) PROVE SleepInv'
  <2>1. \A u \in Task : kind'[u] = "cleanup" => kind[u] = "cleanup" /\ u # t
    BY <1>13, <1>t DEF flush_workqueue
  <2> QED
    BY <1>13, FlushWorkqueueMoves, <1>f, <2>1, Agents DEF Moves
<1>14. ASSUME NEW t \in Task, NEW c \in CPU, CpuDead(t, c) PROVE SleepInv'
  <2>1. /\ Moves(t, {"idle"}, {"flush"}) /\ kind'[t] = "cleanup" /\ cpu'[t] = c
        /\ UNCHANGED <<worklist, current_work, state, should_stop, done>>
        /\ online' = online \ {c} /\ NCPU > 1
    BY <1>14, <1>t, CpuDeadMoves, Agents DEF CpuDead
  <2> QED
    BY <1>0, <2>1, Agents DEF Moves, Mover, SleepInv, WakeInv, CleanupInv, Drained, FlushPlace
<1>15. ASSUME NEW t \in Task, NEW w \in load.works, NEW k \in CancelCalls, Cancel(t, w, k)
      PROVE  SleepInv'
  <2>1. \A u \in Task : kind'[u] = "cleanup" => kind[u] = "cleanup" /\ u # t
    BY <1>15, <1>t DEF Cancel, CancelCalls
  <2> QED
    BY <1>15, CancelMoves, <1>f, <2>1, Agents DEF Moves
<1>16. ASSUME NEW t \in Task, Steal(t) PROVE SleepInv'
  <2>1. \A c \in CPU : worklist[c] = <<>> => worklist'[c] = <<>>
    BY <1>16, <1>t, RemoveFacts DEF Steal
  <2>2. /\ Moves(t, {"steal"}, {"waiton", "grab", "deltimer"})
        /\ UNCHANGED <<current_work, state, should_stop, online, done, kind, cpu>>
    BY <1>16, StealMoves
  <2> QED
    <3>1. \A c \in CPU : Drained(c) => Drained(c)'
      BY <2>1, <2>2 DEF Drained
    <3>2. WakeInv'
      BY <1>0, <2>1, <2>2, <3>1, Agents DEF Moves, Mover, SleepInv, WakeInv
    <3>3. CleanupInv'
      BY <1>0, <1>c, <1>g, <2>2, <3>1, Agents DEF Moves, Mover, SleepInv, CleanupInv, Drained
    <3> QED
      BY <3>2, <3>3 DEF SleepInv
<1>17. ASSUME NEW t \in Task, flush_cpu_workqueue(t) PROVE SleepInv'
  <2>1. /\ pc[t] = "flush" /\ cpu[t] \in CPU /\ kind[t] \in {"flush", "cleanup"} /\ Free(cpu[t])
        /\ UNCHANGED <<pending, data, timer, current_work, lock, stack, should_stop, online, load,
                       wrk, kind, at, owed>>
        /\ \/ /\ Busy(cpu[t]) /\ Inserts(t, Append(worklist[cpu[t]], t))
              /\ pc' = [pc EXCEPT ![t] = "flushwait"]
           \/ /\ ~Busy(cpu[t]) /\ Advances(t, "flush", "flushed")
              /\ UNCHANGED <<worklist, state, done>>
    BY <1>17, FlushCpuEffect
  <2>0. \A c \in CPU : Busy(c) <=> worklist[c] # <<>> \/ current_work[c] # None
    BY DEF Busy
  <2>2. CASE /\ Inserts(t, Append(worklist[cpu[t]], t)) /\ pc' = [pc EXCEPT ![t] = "flushwait"]
             /\ Busy(cpu[t])
    <3>1. \A c \in CPU : /\ c # cpu[t] => worklist'[c] = worklist[c] /\ state'[c] = state[c]
                         /\ c = cpu[t] => state'[c] = "RUNNING"
      BY <1>t, <2>1, <2>2 DEF Inserts
    <3>2. \A u \in Task : done'[u] => done[u] /\ u # t
      BY <1>t, <2>1, <2>2 DEF Inserts
    <3>3. \A c \in CPU : Drained(c) => Drained(c)'
      BY <2>0, <2>1, <2>2, <3>1, Agents DEF Drained
    <3>4. /\ \A b \in Agent : b # t => pc'[b] = pc[b]
          /\ pc'[t] = "flushwait" /\ cpu' = cpu
      BY <1>t, <2>2, Agents DEF Inserts
    <3>5. WakeInv'
      BY <1>0, <2>1, <3>1, <3>3, <3>4, Agents DEF SleepInv, WakeInv
    <3>6. CleanupInv'
      BY <1>0, <1>c, <2>1, <3>2, <3>3, <3>4, Agents DEF SleepInv, CleanupInv, FlushPlace, Drained
    <3> QED
      BY <3>5, <3>6 DEF SleepInv
  <2>3. CASE Advances(t, "flush", "flushed") /\ UNCHANGED <<worklist, state, done>> /\ ~Busy(cpu[t])
    <3>1. /\ \A b \in Agent : b # t => pc'[b] = pc[b] /\ cpu'[b] = cpu[b]
          /\ pc'[t] \in {"flush", "flushed"} /\ (pc'[t] = "flush" => kind[t] # "cleanup")
          /\ pc'[t] = "flushed" => cpu'[t] = cpu[t]
      BY <1>t, <2>3, Agents DEF Advances
    <3>2. cpu[t] \notin online => Drained(cpu[t])
      BY <2>1, <2>0, <2>3 DEF Drained
    <3> QED
      BY <1>0, <2>1, <2>3, <3>1, <3>2, Agents DEF SleepInv, WakeInv, CleanupInv, FlushPlace, Drained
  <2> QED
    BY <2>1, <2>2, <2>3
<1>18. ASSUME NEW t \in Task, FlushWait(t) PROVE SleepInv'
  <2>1. /\ Moves(t, {"flushwait"}, {"flush", "flushed"}) /\ done[t]
        /\ UNCHANGED <<worklist, current_work, state, should_stop, online, done, kind>>
    BY <1>18, FlushWaitMoves DEF FlushWait, BarrierDone
  <2>2. Advances(t, "flush", "flushed")
    BY <1>18, <1>0, NextCpuEffect DEF FlushWait, TaskInv, FlushPlace
  <2>3. kind[t] = "cleanup" => pc'[t] = "flushed" /\ cpu'[t] = cpu[t]
    BY <1>t, <2>2, Agents DEF Advances
  <2> QED
    BY <1>0, <2>1, <2>3, Agents DEF Moves, Mover, SleepInv, WakeInv, CleanupInv, Drained, FlushPlace
<1>19. ASSUME NEW t \in Task, FlushReturns(t) PROVE SleepInv'
  <2>1. /\ Moves(t, {"flushed"}, {"stop", "idle"})
        /\ UNCHANGED <<worklist, current_work, state, should_stop, online, done>>
    BY <1>19, FlushReturnsMoves
  <2>2. kind'[t] = "cleanup" => kind[t] = "cleanup" /\ pc'[t] = "stop" /\ cpu'[t] = cpu[t]
    BY <1>19, <1>t, Agents DEF FlushReturns, Return, Goto
  <2> QED
    BY <1>0, <2>1, <2>2, Agents DEF Moves, Mover, SleepInv, WakeInv, CleanupInv, Drained, FlushPlace
<1>20. ASSUME NEW t \in Task, DelTimer(t) PROVE SleepInv'
  <2>1. \A u \in Task : kind'[u] = "cleanup" => kind[u] = "cleanup" /\ u # t
    BY <1>20, <1>g DEF DelTimer, Return
  <2> QED
    BY <1>20, DelTimerMoves, <1>f, <2>1, Agents DEF Moves
<1>21. ASSUME NEW t \in Task, Grab(t) PROVE SleepInv'
  BY <1>21, GrabMoves, <1>f, <1>g, Agents DEF Moves
<1>22. ASSUME NEW t \in Task, GetCwq(t) PROVE SleepInv'
  BY <1>22, GetCwqMoves, <1>f, <1>g, Agents DEF Moves
<1>23. ASSUME NEW t \in Task, LockCwq(t) PROVE SleepInv'
  BY <1>23, LockCwqMoves, <1>f, <1>g, Agents DEF Moves
<1>24. ASSUME NEW t \in Task, wait_on_work(t) PROVE SleepInv'
  BY <1>24, WaitOnWorkMoves, <1>f, <1>g, Agents DEF Moves
<1>25. ASSUME NEW t \in Task, wait_on_cpu_work(t) PROVE SleepInv'
  <2>1. /\ pc[t] = "waitcpu" /\ cpu[t] \in CPU /\ kind[t] \in CancelCalls /\ Free(cpu[t])
        /\ UNCHANGED <<pending, data, timer, current_work, lock, stack, should_stop, online, load,
                       wrk, kind, at, owed>>
        /\ \/ /\ current_work[cpu[t]] = wrk[t] /\ Inserts(t, <<t>> \o worklist[cpu[t]])
              /\ pc' = [pc EXCEPT ![t] = "waitwork"]
           \/ /\ current_work[cpu[t]] # wrk[t] /\ Advances(t, "waitcpu", "clearbit")
              /\ UNCHANGED <<worklist, state, done>>
    BY <1>25, WaitCpuEffect
  <2>0. wrk[t] # None /\ kind[t] # "cleanup"
    BY <1>0, <2>1, Agents DEF AgentInv, CancelPlace, CancelCalls
  <2>2. CASE /\ Inserts(t, <<t>> \o worklist[cpu[t]]) /\ pc' = [pc EXCEPT ![t] = "waitwork"]
             /\ current_work[cpu[t]] = wrk[t]
    <3>1. \A c \in CPU : /\ c # cpu[t] => worklist'[c] = worklist[c] /\ state'[c] = state[c]
                         /\ c = cpu[t] => state'[c] = "RUNNING"
      BY <1>t, <2>1, <2>2 DEF Inserts
    <3>2. \A u \in Task : done'[u] => done[u] /\ u # t
      BY <1>t, <2>1, <2>2 DEF Inserts
    <3>3. \A c \in CPU : Drained(c) => Drained(c)'
      BY <2>0, <2>1, <2>2, <3>1, Agents DEF Drained
    <3>4. /\ \A b \in Agent : b # t => pc'[b] = pc[b]
          /\ pc'[t] = "waitwork" /\ cpu' = cpu
      BY <1>t, <2>2, Agents DEF Inserts
    <3>5. WakeInv'
      BY <1>0, <2>1, <3>1, <3>3, <3>4, Agents DEF SleepInv, WakeInv
    <3>6. CleanupInv'
      BY <1>0, <1>c, <2>1, <3>2, <3>3, <3>4, Agents DEF SleepInv, CleanupInv, FlushPlace, Drained
    <3> QED
      BY <3>5, <3>6 DEF SleepInv
  <2>3. CASE Advances(t, "waitcpu", "clearbit") /\ UNCHANGED <<worklist, state, done>>
    <3>1. \A b \in Agent : b # t => pc'[b] = pc[b] /\ cpu'[b] = cpu[b]
      BY <1>t, <2>3, Agents DEF Advances
    <3>2. WakeInv'
      BY <1>0, <2>1, <2>3, <3>1, Agents DEF SleepInv, WakeInv, Drained
    <3>3. CleanupInv'
      BY <1>0, <2>0, <2>1, <2>3, <3>1, Agents DEF SleepInv, CleanupInv, Drained
    <3> QED
      BY <3>2, <3>3 DEF SleepInv
  <2> QED
    BY <2>1, <2>2, <2>3
<1>26. ASSUME NEW t \in Task, WorkWait(t) PROVE SleepInv'
  BY <1>26, WorkWaitMoves, <1>f, <1>g, Agents DEF Moves
<1>27. ASSUME NEW t \in Task, ClearBit(t) PROVE SleepInv'
  <2>1. \A u \in Task : kind'[u] = "cleanup" => kind[u] = "cleanup" /\ u # t
    BY <1>27 DEF ClearBit, Return
  <2> QED
    BY <1>27, ClearBitMoves, <1>f, <2>1, Agents DEF Moves
<1>28. ASSUME NEW t \in Task, kthread_stop(t) PROVE SleepInv'
  <2>1. /\ Moves(t, {"stop"}, {"stopwait"}) /\ cpu[t] \in CPU /\ kind[t] = "cleanup"
        /\ UNCHANGED <<worklist, current_work, online, done, kind, cpu>>
    BY <1>28, <1>0, KthreadStopMoves DEF kthread_stop, TaskInv
  <2>2. \A c \in CPU : /\ c # cpu[t] => state'[c] = state[c] /\ should_stop'[c] = should_stop[c]
                       /\ c = cpu[t] => state'[c] = "RUNNING" /\ should_stop'[c]
    BY <1>28, <1>t DEF kthread_stop, WakeWorker
  <2>3. Drained(cpu[t])
    BY <1>0, <2>1 DEF SleepInv, WakeInv, CleanupInv, Moves
  <2> QED
    BY <1>0, <2>1, <2>2, <2>3, Agents DEF Moves, Mover, SleepInv, WakeInv, CleanupInv, Drained, FlushPlace
<1>29. ASSUME NEW t \in Task, Stopped(t) PROVE SleepInv'
  <2>1. \A u \in Task : kind'[u] = "cleanup" => kind[u] = "cleanup" /\ u # t
    BY <1>29 DEF Stopped, Return
  <2> QED
    BY <1>29, StoppedMoves, <1>f, <2>1, Agents DEF Moves
<1> QED
  BY <1>1, <1>2, <1>3, <1>4, <1>5, <1>6, <1>7, <1>8, <1>9, <1>10, <1>11, <1>12, <1>13, <1>14,
     <1>15, <1>16, <1>17, <1>18, <1>19, <1>20, <1>21, <1>22, <1>23, <1>24, <1>25, <1>26, <1>27,
     <1>28, <1>29, NextCases

\* What is owed to a flusher is in front of its barrier.
LEMMA FlushStep ==
  ASSUME IInv, Next
  PROVE  FlushInv'
<1>0. FlushInv /\ OwedOK /\ TaskInv /\ AgentInv /\ WorkerInv /\ CurrentInv /\ BarrierInv
  BY DEF IInv
<1>t. /\ pc \in [Agent -> Place] /\ cpu \in [Agent -> CPU \cup {None}]
      /\ kind \in [Task -> Calls \cup {"none", "flush", "cleanup"}]
      /\ worklist \in [CPU -> Seq(Item)] /\ stack \in [CPU -> Seq(Item)]
      /\ wrk \in [Agent -> Work \cup {None}] /\ current_work \in [CPU -> Item \cup {None}]
      /\ done \in [Task -> BOOLEAN]
  BY DEF IInv, TypeOK, TaskInv
<1>f. ASSUME NEW a \in Agent, Mover(a), UNCHANGED <<worklist, stack, owed>>,
             pc[a] \notin {"flush", "flushwait"}
      PROVE  FlushInv'
  <2>1. SUFFICES ASSUME Flat, NEW u \in Task PROVE OwedInv(u)'
    BY DEF FlushInv
  <2>2. u = a => owed[u] = {}
    BY <1>0, <1>f, <2>1 DEF FlushInv, OwedInv
  <2> QED
    BY <1>0, <1>f, <2>1, <2>2, Agents DEF Mover, FlushInv, OwedInv, Listed
<1>1. ASSUME NEW a \in Agent, NEW w \in load.works, queue_work(a, w) PROVE FlushInv'
  BY <1>1, QueueWorkMoves, <1>f, Agents DEF Moves
<1>2. ASSUME NEW a \in Agent, NEW w \in load.works, queue_delayed_work(a, w) PROVE FlushInv'
  BY <1>2, QueueDelayedWorkMoves, <1>f, Agents DEF Moves
<1>3. ASSUME NEW a \in Agent, SetWqData(a) PROVE FlushInv'
  BY <1>3, SetWqDataMoves, <1>f, Agents DEF Moves
<1>4. ASSUME NEW a \in Agent, ListAdd(a) PROVE FlushInv'
  <2>1. /\ Moves(a, {"add"}, {"idle", "func"}) /\ UNCHANGED <<stack, owed>>
        /\ wrk[a] \in Work /\ cpu[a] \in CPU
    BY <1>4, <1>0, <1>t, ListAddMoves DEF ListAdd, AgentInv, InsertPlace, IInv, TypeOK
  <2>0. SUFFICES ASSUME Flat, NEW u \in Task PROVE OwedInv(u)'
    BY DEF FlushInv
  <2>2. /\ \A c \in CPU : \A x : In(x, worklist[c]) => In(x, worklist'[c])
        /\ \A c \in CPU : \A x, y : Ahead(x, y, worklist[c]) => Ahead(x, y, worklist'[c])
    <3>1. /\ \A x : In(x, worklist[cpu[a]]) => In(x, Append(worklist[cpu[a]], wrk[a]))
          /\ \A x, y : Ahead(x, y, worklist[cpu[a]]) => Ahead(x, y, Append(worklist[cpu[a]], wrk[a]))
      BY <1>t, <2>1, Agents, AppendFacts
    <3>2. worklist' = [worklist EXCEPT ![cpu[a]] = Append(worklist[cpu[a]], wrk[a])]
      BY <1>4 DEF ListAdd
    <3> QED
      BY <1>t, <2>1, <3>1, <3>2
  <2>3. u = a => owed[u] = {}
    BY <1>0, <2>0, <2>1 DEF FlushInv, OwedInv, Moves
  <2> QED
    BY <1>0, <2>0, <2>1, <2>2, <2>3, Agents DEF Moves, Mover, FlushInv, OwedInv, Listed
<1>5. ASSUME NEW a \in Agent, SetWqDataUnlocked(a) PROVE FlushInv'
  BY <1>5, SetWqDataUnlockedMoves, <1>f, Agents DEF Moves
<1>6. ASSUME NEW a \in Agent, AddTimer(a) PROVE FlushInv'
  BY <1>6, AddTimerMoves, <1>f, Agents DEF Moves
<1>7. ASSUME NEW w \in Work, delayed_work_timer_fn(w) PROVE FlushInv'
  BY <1>7, DelayedWorkTimerFnMoves, <1>f, Agents DEF Moves
<1>8. ASSUME NEW c \in CPU, RunsOn(c) # {}, prepare_to_wait(c) PROVE FlushInv'
  BY <1>8, PrepareToWaitMoves, <1>f, Agents DEF Moves
<1>9. ASSUME NEW c \in CPU, RunsOn(c) # {}, TestList(c) PROVE FlushInv'
  BY <1>9, TestListMoves, <1>f, Agents DEF Moves
<1>10. ASSUME NEW c \in CPU, RunsOn(c) # {}, StopCheck(c) PROVE FlushInv'
  BY <1>10, StopCheckMoves, <1>f, Agents DEF Moves
<1>11. ASSUME NEW c \in CPU, RunsOn(c) # {}, Take(c) PROVE FlushInv'
  <2>1. PICK stk \in Seq(Item), i \in Item \cup {None} :
          /\ Leaves(c, stk, i)
          /\ TakesNone(c, stk) \/ \E h \in Item, s \in Seq(Item) : Takes(c, stk, h, s)
    BY <1>11, TakeEffect
  <2>2. /\ pc[c] \in {"run", "func", "end"} /\ Free(c)
        /\ UNCHANGED <<lock, state, should_stop, online, load, wrk, cpu, kind, at, done, pending, data,
                       timer>>
    BY <1>11, TakeEffect DEF works, env
  <2>3. CASE TakesNone(c, stk)
    <3>0. SUFFICES ASSUME Flat, NEW u \in Task PROVE OwedInv(u)'
      BY DEF FlushInv
    <3>1. OwedInv(u) /\ stk = <<>> /\ \A x \in Item : In(x, stack[c]) => x = i
      BY <1>0, <2>1, <3>0 DEF FlushInv, Leaves, In
    <3>a. Account(c, i) /\ owed[u] \subseteq Work \X CPU \X {"queued", "running"}
      BY <1>0, <2>1 DEF Leaves, OwedOK
    <3>2. /\ owed[u] = {} => owed'[u] = {}
          /\ \A w \in Work, d \in CPU : <<w, d, "queued">> \in owed'[u] => <<w, d, "queued">> \in owed[u]
          /\ \A w \in Work, d \in CPU : <<w, d, "running">> \in owed'[u] =>
               <<w, d, "running">> \in owed[u] /\ (d # c \/ w # i)
      <4>1. worklist[c] = <<>>
        BY <2>3 DEF TakesNone
      <4>2. worklist[c] # <<>> => Head(worklist[c]) \in Item
        BY <4>1
      <4>3. /\ owed[u] = {} => owed'[u] = {}
            /\ \A w \in Work, d \in CPU : <<w, d, "queued">> \in owed'[u] =>
                 /\ <<w, d, "queued">> \in owed[u]
                 /\ worklist[c] = <<>> \/ d # c \/ w # Head(worklist[c])
            /\ \A w \in Work, d \in CPU : <<w, d, "running">> \in owed'[u] =>
                 \/ <<w, d, "running">> \in owed[u] /\ (d # c \/ w # i)
                 \/ /\ <<w, d, "queued">> \in owed[u] /\ d = c
                    /\ worklist[c] # <<>> /\ w = Head(worklist[c])
        BY <3>a, <4>2, AccountFacts
      <4> QED
        BY <4>1, <4>3
    <3>3. \A w \in Work, d \in CPU : <<w, d, "running">> \in owed'[u] => d # c
      BY <3>1, <3>2, Agents DEF OwedInv
    <3>4. /\ worklist' = worklist /\ \A d \in CPU : d # c => stack'[d] = stack[d]
          /\ pc'[u] = pc[u]
      BY <1>t, <2>3, Agents DEF TakesNone
    <3> QED
      BY <2>2, <3>1, <3>2, <3>3, <3>4 DEF OwedInv, Listed
  <2>4. ASSUME NEW h \in Item, NEW rest \in Seq(Item), Takes(c, stk, h, rest)
        PROVE  FlushInv'
    <3>1. PICK r \in Seq(Item) :
            /\ stack' = [stack EXCEPT ![c] = r]
            /\ r # <<>> /\ Last(r) = h /\ Len(r) = Len(stk) + 1
            /\ stk = <<>> => r[1] = h
            /\ \A x : In(x, r) <=> In(x, stk) \/ x = h
      BY <2>4 DEF Takes
    <3>0. SUFFICES ASSUME Flat, NEW u \in Task PROVE OwedInv(u)'
      BY DEF FlushInv
    <3>2. OwedInv(u) /\ stk = <<>> /\ \A x \in Item : In(x, stack[c]) => x = i
      BY <1>0, <2>1, <3>0 DEF FlushInv, Leaves, In
    <3>a. Account(c, i) /\ owed[u] \subseteq Work \X CPU \X {"queued", "running"}
      BY <1>0, <2>1 DEF Leaves, OwedOK
    <3>3. /\ owed[u] = {} => owed'[u] = {}
          /\ \A w \in Work, d \in CPU : <<w, d, "queued">> \in owed'[u] =>
               <<w, d, "queued">> \in owed[u] /\ (d # c \/ w # h)
          /\ \A w \in Work, d \in CPU : <<w, d, "running">> \in owed'[u] =>
               \/ <<w, d, "running">> \in owed[u] /\ (d # c \/ w # i)
               \/ <<w, d, "queued">> \in owed[u] /\ d = c /\ w = h
      <4>1. worklist[c] # <<>> /\ h = Head(worklist[c])
        BY <2>4 DEF Takes
      <4> QED
        BY <3>a, <4>1, AccountFacts, SMTT(30)
    <3>4. \A w \in Work, d \in CPU : <<w, d, "running">> \in owed'[u] =>
            \/ <<w, d, "running">> \in owed[u] /\ d # c
            \/ <<w, d, "queued">> \in owed[u] /\ d = c /\ w = h
      BY <3>2, <3>3, Agents DEF OwedInv
    <3>5. /\ \A d \in CPU : d # c => stack'[d] = stack[d] /\ worklist'[d] = worklist[d]
          /\ pc'[u] = pc[u] /\ In(h, stack'[c])
          /\ \A x : In(x, worklist[c]) <=> x = h \/ In(x, worklist'[c])
          /\ \A x, y : Ahead(x, y, worklist[c]) => In(y, worklist'[c]) /\ (x = h \/ Ahead(x, y, worklist'[c]))
      BY <1>t, <2>4, <3>1, Agents DEF Takes
    <3> QED
      BY <2>2, <3>2, <3>3, <3>4, <3>5 DEF OwedInv, Listed
  <2> QED
    BY <2>1, <2>3, <2>4
<1>12. ASSUME NEW c \in CPU, RunsOn(c) # {}, CallFunc(c) PROVE FlushInv'
  BY <1>12, CallFuncMoves, <1>f, Agents DEF Moves
<1>13. ASSUME NEW t \in Task, flush_workqueue(t) PROVE FlushInv'
  <2>1. Moves(t, {"idle"}, {"flush"}) /\ UNCHANGED <<worklist, stack>> /\ kind'[t] = "flush" /\ cpu'[t] = 1
    BY <1>13, <1>t, FlushWorkqueueMoves, Agents DEF flush_workqueue
  <2>0. SUFFICES ASSUME Flat, NEW u \in Task PROVE OwedInv(u)'
    BY DEF FlushInv
  <2>2. CASE u # t
    <3>1. owed'[u] = owed[u]
      BY <1>13, <1>0, <2>2 DEF flush_workqueue, OwedOK
    <3> QED
      BY <1>0, <2>0, <2>1, <2>2, <3>1, Agents DEF Moves, Mover, FlushInv, OwedInv, Listed
  <2>3. CASE u = t
    <3>1. owed'[t] = {o \in Work \X CPU \X {"queued", "running"} :
                        o[1] \in ToSet(IF o[3] = "queued" THEN worklist[o[2]] ELSE stack[o[2]])}
      BY <1>13, <1>0 DEF flush_workqueue, OwedOK
    <3>2. \A w \in Work, c \in CPU : /\ <<w, c, "queued">> \in owed'[t] => In(w, worklist[c])
                                     /\ <<w, c, "running">> \in owed'[t] => In(w, stack[c])
      BY <3>1 DEF ToSet, In
    <3>3. \A c \in CPU : 1 <= c
      BY CpuNumbers
    <3> QED
      BY <2>1, <2>3, <3>2, <3>3 DEF Moves, OwedInv, Listed
  <2> QED
    BY <2>2, <2>3
<1>14. ASSUME NEW t \in Task, NEW c \in CPU, CpuDead(t, c) PROVE FlushInv'
  BY <1>14, CpuDeadMoves, <1>f, Agents DEF Moves
<1>15. ASSUME NEW t \in Task, NEW w \in load.works, NEW k \in CancelCalls, Cancel(t, w, k)
      PROVE  FlushInv'
  BY <1>15, CancelMoves, <1>f, Agents DEF Moves
<1>16. ASSUME NEW t \in Task, Steal(t) PROVE FlushInv'
  <2>1. /\ Moves(t, {"steal"}, {"waiton", "grab", "deltimer"}) /\ UNCHANGED <<stack, cpu, kind>>
        /\ wrk[t] \in Work
    BY <1>16, <1>0, StealMoves, Agents DEF Steal, AgentInv, CancelPlace
  <2>0. SUFFICES ASSUME Flat, NEW u \in Task PROVE OwedInv(u)'
    BY DEF FlushInv
  <2>3. u = t => owed[u] = {}
    BY <1>0, <2>0, <2>1 DEF FlushInv, OwedInv, Moves
  <2>4. CASE UNCHANGED <<worklist, owed>>
    BY <1>0, <2>0, <2>1, <2>3, <2>4, Agents DEF Moves, Mover, FlushInv, OwedInv, Listed
  <2>5. CASE /\ worklist' = [c \in CPU |-> RemoveFirst(worklist[c], wrk[t])]
             /\ owed' = [v \in Task |-> owed[v] \ ({wrk[t]} \X CPU \X {"queued"})]
    <3>1. /\ \A c \in CPU : \A x : x # wrk[t] /\ In(x, worklist[c]) => In(x, worklist'[c])
          /\ \A c \in CPU : \A x, y : x # wrk[t] /\ y # wrk[t] /\ Ahead(x, y, worklist[c])
                                        => Ahead(x, y, worklist'[c])
      BY <1>t, <2>5, RemoveFacts
    <3>2. /\ owed'[u] \subseteq owed[u]
          /\ \A w \in Work, c \in CPU : <<w, c, "queued">> \in owed'[u] => w # wrk[t]
      BY <2>5
    <3>3. u # wrk[t]
      BY <2>1, Agents
    <3> QED
      BY <1>0, <2>0, <2>1, <2>3, <3>1, <3>2, <3>3, Agents DEF Moves, Mover, FlushInv, OwedInv, Listed
  <2> QED
    BY <1>16, <2>4, <2>5 DEF Steal
<1>17. ASSUME NEW t \in Task, flush_cpu_workqueue(t) PROVE FlushInv'
  <2>1. /\ pc[t] = "flush" /\ cpu[t] \in CPU /\ kind[t] \in {"flush", "cleanup"} /\ Free(cpu[t])
        /\ UNCHANGED <<pending, data, timer, current_work, lock, stack, should_stop, online, load,
                       wrk, kind, at, owed>>
        /\ \/ /\ Busy(cpu[t]) /\ Inserts(t, Append(worklist[cpu[t]], t))
              /\ pc' = [pc EXCEPT ![t] = "flushwait"]
           \/ /\ ~Busy(cpu[t]) /\ Advances(t, "flush", "flushed")
              /\ UNCHANGED <<worklist, state, done>>
    BY <1>17, FlushCpuEffect
  <2>0. SUFFICES ASSUME Flat, NEW u \in Task PROVE OwedInv(u)'
    BY DEF FlushInv
  <2>2. CASE Inserts(t, Append(worklist[cpu[t]], t)) /\ pc' = [pc EXCEPT ![t] = "flushwait"]
    <3> DEFINE r == Append(worklist[cpu[t]], t)
    <3>1. /\ \A x : In(x, r) <=> In(x, worklist[cpu[t]]) \/ x = t
          /\ \A x, y : Ahead(x, y, worklist[cpu[t]]) => Ahead(x, y, r)
          /\ \A x : In(x, worklist[cpu[t]]) => Ahead(x, t, r)
      BY <1>t, <2>1, Agents, AppendFacts
    <3> HIDE DEF r
    <3>2. worklist' = [worklist EXCEPT ![cpu[t]] = r] /\ cpu' = cpu
      BY <2>2 DEF Inserts, r
    <3>3. /\ \A c \in CPU : \A x : In(x, worklist[c]) => In(x, worklist'[c])
          /\ \A c \in CPU : \A x, y : Ahead(x, y, worklist[c]) => Ahead(x, y, worklist'[c])
      BY <1>t, <3>1, <3>2
    <3>4. In(t, worklist'[cpu[t]]) /\ \A x : In(x, worklist[cpu[t]]) => Ahead(x, t, worklist'[cpu[t]])
      BY <1>t, <2>1, <3>1, <3>2
    <3>5. \A v \in Task : v # t => pc'[v] = pc[v]
      BY <1>t, <2>2, Agents
    <3>6. pc'[t] = "flushwait"
      BY <1>t, <2>2, Agents
    <3> QED
      BY <1>0, <2>0, <2>1, <3>2, <3>3, <3>4, <3>5, <3>6, Agents DEF FlushInv, OwedInv, Listed
  <2>3. CASE Advances(t, "flush", "flushed") /\ UNCHANGED worklist /\ ~Busy(cpu[t])
    <3>1. \A w \in Work : /\ <<w, cpu[t], "queued">> \notin owed[t]
                          /\ <<w, cpu[t], "running">> \notin owed[t]
      <4>1. worklist[cpu[t]] = <<>> /\ current_work[cpu[t]] = None
        BY <2>3 DEF Busy
      <4>2. \A x : ~In(x, worklist[cpu[t]])
        BY <4>1 DEF In
      <4>3. stack[cpu[t]] = <<>>
        <5>1. SUFFICES ASSUME stack[cpu[t]] # <<>> PROVE FALSE
          OBVIOUS
        <5>2. Len(stack[cpu[t]]) = 1 /\ current_work[cpu[t]] = stack[cpu[t]][1]
          BY <1>0, <2>0, <2>1, <5>1 DEF CurrentInv
        <5>3. stack[cpu[t]] \in Seq(Item) /\ 1 \in 1..Len(stack[cpu[t]])
          BY <1>t, <2>1, <5>2
        <5>4. stack[cpu[t]][1] \in Item
          BY <5>3
        <5> QED
          BY <4>1, <5>2, <5>4, Agents
      <4>4. \A x : ~In(x, stack[cpu[t]])
        BY <4>3 DEF In
      <4> QED
        BY <1>0, <2>0, <2>1, <4>2, <4>4 DEF FlushInv, OwedInv, Listed
    <3>2. CASE u # t
      <4>1. pc'[u] = pc[u] /\ cpu'[u] = cpu[u]
        BY <1>t, <2>3, <3>2, Agents DEF Advances
      <4> QED
        BY <1>0, <2>0, <2>1, <2>3, <4>1 DEF FlushInv, OwedInv, Listed
    <3>3. CASE u = t
      <4>1. ASSUME NEW w \in Work, NEW c \in CPU,
                   <<w, c, "queued">> \in owed[t] \/ <<w, c, "running">> \in owed[t]
            PROVE  cpu[t] + 1 <= c /\ kind[t] = "flush"
        <5>1. cpu[t] <= c /\ c # cpu[t] /\ kind[t] = "flush"
          BY <1>0, <2>0, <3>1, <4>1 DEF FlushInv, OwedInv
        <5> QED
          BY <2>1, <5>1, CpuNumbers
      <4>2. CASE /\ kind[t] # "cleanup" /\ cpu[t] + 1 \in CPU
                 /\ pc' = [pc EXCEPT ![t] = "flush"] /\ cpu' = [cpu EXCEPT ![t] = cpu[t] + 1]
        <5>1. pc'[t] = "flush" /\ cpu'[t] = cpu[t] + 1
          BY <1>t, <4>2, Agents
        <5> QED
          BY <1>0, <2>0, <2>1, <2>3, <3>3, <4>1, <5>1 DEF FlushInv, OwedInv, Listed
      <4>3. CASE kind[t] = "cleanup" \/ \A c \in CPU : c <= cpu[t]
        <5>1. ASSUME NEW w \in Work, NEW c \in CPU,
                     <<w, c, "queued">> \in owed[t] \/ <<w, c, "running">> \in owed[t]
              PROVE  FALSE
          BY <2>1, <4>1, <4>3, <5>1, CpuNumbers
        <5>2. owed[t] = {}
          <6>1. SUFFICES ASSUME NEW o \in owed[t] PROVE FALSE
            OBVIOUS
          <6>2. PICK w \in Work, c \in CPU, p \in {"queued", "running"} : o = <<w, c, p>>
            BY <1>0, <6>1 DEF OwedOK
          <6> QED
            BY <5>1, <6>1, <6>2
        <5> QED
          BY <2>1, <3>3, <5>2 DEF OwedInv
      <4> QED
        BY <2>3, <4>2, <4>3 DEF Advances
    <3> QED
      BY <3>2, <3>3
  <2> QED
    BY <2>1, <2>2, <2>3
<1>18. ASSUME NEW t \in Task, FlushWait(t) PROVE FlushInv'
  <2>1. /\ pc[t] = "flushwait" /\ cpu[t] \in CPU /\ done[t]
        /\ UNCHANGED <<worklist, stack, kind, owed>>
    BY <1>18, <1>0, FlushWaitMoves DEF FlushWait, BarrierDone, TaskInv, FlushPlace
  <2>0. SUFFICES ASSUME Flat, NEW u \in Task PROVE OwedInv(u)'
    BY DEF FlushInv
  <2>3. Advances(t, "flush", "flushed")
    BY <1>18, <2>1, NextCpuEffect DEF FlushWait
  <2>4. ~Listed(cpu[t], t)
    BY <1>0, <2>1 DEF BarrierInv
  <2>5. \A w \in Work : ~Ahead(w, t, worklist[cpu[t]])
    BY <2>4 DEF Listed, In, Ahead
  <2> QED
    <3>1. \A w \in Work : /\ <<w, cpu[t], "queued">> \notin owed[t]
                          /\ <<w, cpu[t], "running">> \notin owed[t]
      BY <1>0, <2>0, <2>1, <2>4, <2>5 DEF FlushInv, OwedInv
    <3>2. CASE u # t
      <4>1. pc'[u] = pc[u] /\ cpu'[u] = cpu[u]
        BY <1>t, <2>3, <3>2, Agents DEF Advances
      <4> QED
        BY <1>0, <2>0, <2>1, <2>3, <4>1 DEF FlushInv, OwedInv, Listed
    <3>3. CASE u = t
      <4>1. ASSUME NEW w \in Work, NEW c \in CPU,
                   <<w, c, "queued">> \in owed[t] \/ <<w, c, "running">> \in owed[t]
            PROVE  cpu[t] + 1 <= c /\ kind[t] = "flush"
        <5>1. cpu[t] <= c /\ c # cpu[t] /\ kind[t] = "flush"
          BY <1>0, <2>0, <3>1, <4>1 DEF FlushInv, OwedInv
        <5> QED
          BY <2>1, <5>1, CpuNumbers
      <4>2. CASE /\ kind[t] # "cleanup" /\ cpu[t] + 1 \in CPU
                 /\ pc' = [pc EXCEPT ![t] = "flush"] /\ cpu' = [cpu EXCEPT ![t] = cpu[t] + 1]
        <5>1. pc'[t] = "flush" /\ cpu'[t] = cpu[t] + 1
          BY <1>t, <4>2, Agents
        <5> QED
          BY <1>0, <2>0, <2>1, <2>3, <3>3, <4>1, <5>1 DEF FlushInv, OwedInv, Listed
      <4>3. CASE kind[t] = "cleanup" \/ \A c \in CPU : c <= cpu[t]
        <5>1. ASSUME NEW w \in Work, NEW c \in CPU,
                     <<w, c, "queued">> \in owed[t] \/ <<w, c, "running">> \in owed[t]
              PROVE  FALSE
          BY <2>1, <4>1, <4>3, <5>1, CpuNumbers
        <5>2. owed[t] = {}
          <6>1. SUFFICES ASSUME NEW o \in owed[t] PROVE FALSE
            OBVIOUS
          <6>2. PICK w \in Work, c \in CPU, p \in {"queued", "running"} : o = <<w, c, p>>
            BY <1>0, <6>1 DEF OwedOK
          <6> QED
            BY <5>1, <6>1, <6>2
        <5> QED
          BY <2>1, <3>3, <5>2 DEF OwedInv
      <4> QED
        BY <2>3, <4>2, <4>3 DEF Advances
    <3> QED
      BY <3>2, <3>3
<1>19. ASSUME NEW t \in Task, FlushReturns(t) PROVE FlushInv'
  <2>1. Moves(t, {"flushed"}, {"stop", "idle"}) /\ UNCHANGED <<worklist, stack>>
    BY <1>19, FlushReturnsMoves
  <2>0. SUFFICES ASSUME Flat, NEW u \in Task PROVE OwedInv(u)'
    BY DEF FlushInv
  <2>2. owed'[t] = {} /\ (u # t => owed'[u] = owed[u])
    <3>1. owed[t] = {}
      BY <1>0, <2>0, <2>1 DEF FlushInv, OwedInv, Moves
    <3> QED
      BY <1>19, <3>1 DEF FlushReturns
  <2> QED
    BY <1>0, <2>0, <2>1, <2>2, Agents DEF Moves, Mover, FlushInv, OwedInv, Listed
<1>20. ASSUME NEW t \in Task, DelTimer(t) PROVE FlushInv'
  BY <1>20, DelTimerMoves, <1>f, Agents DEF Moves
<1>21. ASSUME NEW t \in Task, Grab(t) PROVE FlushInv'
  BY <1>21, GrabMoves, <1>f, Agents DEF Moves
<1>22. ASSUME NEW t \in Task, GetCwq(t) PROVE FlushInv'
  BY <1>22, GetCwqMoves, <1>f, Agents DEF Moves
<1>23. ASSUME NEW t \in Task, LockCwq(t) PROVE FlushInv'
  BY <1>23, LockCwqMoves, <1>f, Agents DEF Moves
<1>24. ASSUME NEW t \in Task, wait_on_work(t) PROVE FlushInv'
  BY <1>24, WaitOnWorkMoves, <1>f, Agents DEF Moves
<1>25. ASSUME NEW t \in Task, wait_on_cpu_work(t) PROVE FlushInv'
  <2>1. /\ pc[t] = "waitcpu" /\ cpu[t] \in CPU /\ kind[t] \in CancelCalls /\ Free(cpu[t])
        /\ UNCHANGED <<pending, data, timer, current_work, lock, stack, should_stop, online, load,
                       wrk, kind, at, owed>>
        /\ \/ /\ current_work[cpu[t]] = wrk[t] /\ Inserts(t, <<t>> \o worklist[cpu[t]])
              /\ pc' = [pc EXCEPT ![t] = "waitwork"]
           \/ /\ current_work[cpu[t]] # wrk[t] /\ Advances(t, "waitcpu", "clearbit")
              /\ UNCHANGED <<worklist, state, done>>
    BY <1>25, WaitCpuEffect
  <2>0. SUFFICES ASSUME Flat, NEW u \in Task PROVE OwedInv(u)'
    BY DEF FlushInv
  <2>3. u = t => owed[u] = {}
    BY <1>0, <2>0, <2>1 DEF FlushInv, OwedInv
  <2>4. /\ \A c \in CPU : \A x : In(x, worklist[c]) => In(x, worklist'[c])
        /\ \A c \in CPU : \A x, y : Ahead(x, y, worklist[c]) => Ahead(x, y, worklist'[c])
    <3>1. /\ \A x : In(x, worklist[cpu[t]]) => In(x, <<t>> \o worklist[cpu[t]])
          /\ \A x, y : Ahead(x, y, worklist[cpu[t]]) => Ahead(x, y, <<t>> \o worklist[cpu[t]])
      BY <1>t, <2>1, Agents, ConsFacts
    <3> DEFINE r == <<t>> \o worklist[cpu[t]]
    <3>2. worklist' = worklist \/ worklist' = [worklist EXCEPT ![cpu[t]] = r]
      BY <2>1 DEF Inserts
    <3> HIDE DEF r
    <3>3. /\ \A x : In(x, worklist[cpu[t]]) => In(x, r)
          /\ \A x, y : Ahead(x, y, worklist[cpu[t]]) => Ahead(x, y, r)
      BY <3>1 DEF r
    <3>4. CASE worklist' = [worklist EXCEPT ![cpu[t]] = r]
      BY <1>t, <2>1, <3>3, <3>4
    <3> QED
      BY <3>2, <3>4
  <2>5. Moves(t, {"waitcpu"}, {"waitcpu", "clearbit", "waitwork"})
    BY <1>25, WaitOnCpuWorkMoves
  <2>6. OwedInv(u) /\ UNCHANGED <<owed, stack, kind>>
    BY <1>0, <2>0, <2>1 DEF FlushInv
  <2>7. CASE u = t
    BY <2>3, <2>6, <2>7 DEF OwedInv
  <2>8. CASE u # t
    <3>1. pc'[u] = pc[u] /\ cpu'[u] = cpu[u]
      BY <2>5, <2>8, Agents DEF Moves, Mover
    <3> QED
      BY <2>4, <2>6, <3>1 DEF OwedInv, Listed
  <2> QED
    BY <2>7, <2>8
<1>26. ASSUME NEW t \in Task, WorkWait(t) PROVE FlushInv'
  BY <1>26, WorkWaitMoves, <1>f, Agents DEF Moves
<1>27. ASSUME NEW t \in Task, ClearBit(t) PROVE FlushInv'
  BY <1>27, ClearBitMoves, <1>f, Agents DEF Moves
<1>28. ASSUME NEW t \in Task, kthread_stop(t) PROVE FlushInv'
  BY <1>28, KthreadStopMoves, <1>f, Agents DEF Moves
<1>29. ASSUME NEW t \in Task, Stopped(t) PROVE FlushInv'
  BY <1>29, StoppedMoves, <1>f, Agents DEF Moves
<1> QED
  BY <1>1, <1>2, <1>3, <1>4, <1>5, <1>6, <1>7, <1>8, <1>9, <1>10, <1>11, <1>12, <1>13, <1>14,
     <1>15, <1>16, <1>17, <1>18, <1>19, <1>20, <1>21, <1>22, <1>23, <1>24, <1>25, <1>26, <1>27,
     <1>28, <1>29, NextCases

\* Only works are owed.
LEMMA OwedStep ==
  ASSUME IInv, Next
  PROVE  OwedOK'
<1>0. OwedOK
  BY DEF IInv
<1>t. /\ worklist \in [CPU -> Seq(Item)]
  BY DEF IInv, TypeOK
<1>1. CASE UNCHANGED <<owed>>
  BY <1>0, <1>1 DEF OwedOK
<1>2. ASSUME NEW c \in CPU, RunsOn(c) # {}, Take(c) PROVE OwedOK'
  <2>1. PICK i \in Item \cup {None} : Account(c, i)
    BY <1>2, TakeEffect DEF Leaves
  <2>2. worklist[c] # <<>> => Head(worklist[c]) \in Item
    BY <1>t, TailFacts
  <2>3. \A t \in Task : owed[t] \subseteq Work \X CPU \X {"queued", "running"}
    BY <1>0 DEF OwedOK
  <2>4. \A t \in Task : owed'[t] \subseteq Work \X CPU \X {"queued", "running"}
    BY <2>1, <2>2, <2>3, AccountFacts
  <2>5. owed' = [t \in Task |-> owed'[t]]
    BY <2>1 DEF Account
  <2> QED
    BY <2>4, <2>5 DEF OwedOK
<1>3. ASSUME NEW t \in Task, flush_workqueue(t) PROVE OwedOK'
  BY <1>0, <1>t, <1>3, Agents
  DEF flush_workqueue, Goto, Free, OnList, MayCall, Outside,
      Return, OwedOK
<1>4. ASSUME NEW t \in Task, Steal(t) PROVE OwedOK'
  BY <1>0, <1>t, <1>4, Agents DEF Steal, Goto, Free, OnList, Retry, StillThere, OwedOK
<1>5. ASSUME NEW t \in Task, FlushReturns(t) PROVE OwedOK'
  BY <1>0, <1>t, <1>5, Agents DEF FlushReturns, Goto, Free, OnList, Return, Outside, OwedOK
<1> QED
  <2>1. ASSUME NEW a \in Agent, NEW w \in load.works, queue_work(a, w) PROVE UNCHANGED <<owed>>
    BY <2>1 DEF queue_work, Return
  <2>2. ASSUME NEW a \in Agent, NEW w \in load.works, queue_delayed_work(a, w)
        PROVE  UNCHANGED <<owed>>
    BY <2>2 DEF queue_delayed_work, Return
  <2>3. ASSUME NEW a \in Agent, SetWqData(a) PROVE UNCHANGED <<owed>>
    BY <2>3 DEF SetWqData, StoreCwq
  <2>4. ASSUME NEW a \in Agent, ListAdd(a) PROVE UNCHANGED <<owed>>
    BY <2>4 DEF ListAdd, Return
  <2>5. ASSUME NEW a \in Agent, SetWqDataUnlocked(a) PROVE UNCHANGED <<owed>>
    BY <2>5 DEF SetWqDataUnlocked
  <2>6. ASSUME NEW a \in Agent, AddTimer(a) PROVE UNCHANGED <<owed>>
    BY <2>6 DEF AddTimer, Return
  <2>7. ASSUME NEW w \in Work, delayed_work_timer_fn(w) PROVE UNCHANGED <<owed>>
    BY <2>7 DEF delayed_work_timer_fn
  <2>8. ASSUME NEW c \in CPU, RunsOn(c) # {}, prepare_to_wait(c) PROVE UNCHANGED <<owed>>
    BY <2>8 DEF prepare_to_wait
  <2>9. ASSUME NEW c \in CPU, RunsOn(c) # {}, TestList(c) PROVE UNCHANGED <<owed>>
    BY <2>9 DEF TestList
  <2>10. ASSUME NEW c \in CPU, RunsOn(c) # {}, StopCheck(c) PROVE UNCHANGED <<owed>>
    BY <2>10 DEF StopCheck
  <2>11. ASSUME NEW c \in CPU, RunsOn(c) # {}, CallFunc(c) PROVE UNCHANGED <<owed>>
    BY <2>11 DEF CallFunc
  <2>12. ASSUME NEW t \in Task, NEW c \in CPU, CpuDead(t, c) PROVE UNCHANGED <<owed>>
    BY <2>12 DEF CpuDead, Return
  <2>13. ASSUME NEW t \in Task, NEW w \in load.works, NEW k \in CancelCalls, Cancel(t, w, k)
        PROVE  UNCHANGED <<owed>>
    BY <2>13 DEF Cancel, Return
  <2>14. ASSUME NEW t \in Task, flush_cpu_workqueue(t) PROVE UNCHANGED <<owed>>
    BY <2>14 DEF flush_cpu_workqueue, InsertBarrier, NextCpu
  <2>15. ASSUME NEW t \in Task, FlushWait(t) PROVE UNCHANGED <<owed>>
    BY <2>15 DEF FlushWait, NextCpu
  <2>16. ASSUME NEW t \in Task, DelTimer(t) PROVE UNCHANGED <<owed>>
    BY <2>16 DEF DelTimer, Return
  <2>17. ASSUME NEW t \in Task, Grab(t) PROVE UNCHANGED <<owed>>
    BY <2>17 DEF Grab
  <2>18. ASSUME NEW t \in Task, GetCwq(t) PROVE UNCHANGED <<owed>>
    BY <2>18 DEF GetCwq
  <2>19. ASSUME NEW t \in Task, LockCwq(t) PROVE UNCHANGED <<owed>>
    BY <2>19 DEF LockCwq
  <2>20. ASSUME NEW t \in Task, wait_on_work(t) PROVE UNCHANGED <<owed>>
    BY <2>20 DEF wait_on_work
  <2>21. ASSUME NEW t \in Task, wait_on_cpu_work(t) PROVE UNCHANGED <<owed>>
    BY <2>21 DEF wait_on_cpu_work, InsertBarrier, NextCpu
  <2>22. ASSUME NEW t \in Task, WorkWait(t) PROVE UNCHANGED <<owed>>
    BY <2>22 DEF WorkWait, NextCpu
  <2>23. ASSUME NEW t \in Task, ClearBit(t) PROVE UNCHANGED <<owed>>
    BY <2>23 DEF ClearBit, Return
  <2>24. ASSUME NEW t \in Task, kthread_stop(t) PROVE UNCHANGED <<owed>>
    BY <2>24 DEF kthread_stop
  <2>25. ASSUME NEW t \in Task, Stopped(t) PROVE UNCHANGED <<owed>>
    BY <2>25 DEF Stopped, Return
  <2> QED
    BY <2>1, <2>2, <2>3, <2>4, <2>5, <2>6, <2>7, <2>8, <2>9, <2>10, <2>11, <2>12, <2>13, <2>14,
       <2>15, <2>16, <2>17, <2>18, <2>19, <2>20, <2>21, <2>22, <2>23, <2>24, <2>25, <1>1, <1>2,
       <1>3, <1>4, <1>5, NextCases

\* The pending bit has one owner.
LEMMA OwnerStep ==
  ASSUME IInv, Next
  PROVE  OwnerInv'
<1>0. OwnerInv /\ StealInv /\ TaskInv /\ AgentInv /\ WorkerInv
  BY DEF IInv
<1>t. /\ pc \in [Agent -> Place] /\ wrk \in [Agent -> Work \cup {None}]
      /\ pending \in [Work -> BOOLEAN] /\ timer \subseteq Work
      /\ worklist \in [CPU -> Seq(Item)] /\ stack \in [CPU -> Seq(Item)]
  BY DEF IInv, TypeOK
<1>f. ASSUME NEW a \in Agent, Mover(a), UNCHANGED <<pending, timer, worklist, stack>>,
             pc[a] \in HolderPlace <=> pc'[a] \in HolderPlace, pc[a] \in HolderPlace => wrk'[a] = wrk[a],
             pc[a] # "clear", pc'[a] # "clear"
      PROVE  OwnerInv'
  <2>0. SUFFICES ASSUME TwoCpus, NEW x \in Work PROVE OneOwner(x)'
    BY DEF OwnerInv
  <2>o. OneOwner(x)
    BY <1>0, <2>0 DEF OwnerInv
  <2>h. \A b \in Agent : Holds(b, x)' <=> Holds(b, x)
    BY <1>f DEF Mover, Holds
  <2>l. \A c \in CPU : (Listed(c, x)' <=> Listed(c, x)) /\ (Clearing(c, x)' <=> Clearing(c, x))
    BY <1>f, Agents DEF Mover, Listed, Clearing
  <2> QED
    BY <1>f, <2>o, <2>h, <2>l DEF OneOwner
<1>1. ASSUME NEW a \in Agent, NEW w \in load.works, queue_work(a, w) PROVE OwnerInv'
  <2>0. SUFFICES ASSUME TwoCpus, NEW x \in Work PROVE OneOwner(x)'
    BY DEF OwnerInv
  <2>o. OneOwner(x)
    BY <1>0, <2>0 DEF OwnerInv
  <2>1. Moves(a, {"idle", "func"}, {"set"}) /\ wrk'[a] = w /\ UNCHANGED <<timer, worklist, stack>>
    BY <1>1, <1>t, QueueWorkMoves DEF queue_work
  <2>2. ~pending[w] /\ pending' = [pending EXCEPT ![w] = TRUE] /\ w \in Work
    BY <1>1, <1>0 DEF queue_work, SetPending, AgentInv
  <2>h. \A b \in Agent : Holds(b, x)' <=> Holds(b, x) \/ (b = a /\ x = w)
    BY <2>1, Agents DEF Moves, Mover, Holds, HolderPlace, InsertPlace
  <2>l. \A c \in CPU : /\ Listed(c, x)' <=> Listed(c, x)
                       /\ Clearing(c, x)' <=> Clearing(c, x)
                       /\ Once(x, worklist[c])'
    BY <2>o, <2>1, Agents DEF Moves, Mover, OneOwner, Listed, Clearing
  <2>p. (pending'[x] <=> pending[x] \/ x = w) /\ (x \in timer' <=> x \in timer)
    BY <1>t, <2>1, <2>2
  <2> QED
    BY <2>o, <2>2, <2>h, <2>l, <2>p, Agents DEF OneOwner
<1>2. ASSUME NEW a \in Agent, NEW w \in load.works, queue_delayed_work(a, w) PROVE OwnerInv'
  <2>0. SUFFICES ASSUME TwoCpus, NEW x \in Work PROVE OneOwner(x)'
    BY DEF OwnerInv
  <2>o. OneOwner(x)
    BY <1>0, <2>0 DEF OwnerInv
  <2>1. Moves(a, {"idle", "func"}, {"setnow"}) /\ wrk'[a] = w /\ UNCHANGED <<timer, worklist, stack>>
    BY <1>2, <1>t, QueueDelayedWorkMoves DEF queue_delayed_work
  <2>2. ~pending[w] /\ pending' = [pending EXCEPT ![w] = TRUE] /\ w \in Work
    BY <1>2, <1>0 DEF queue_delayed_work, SetPending, AgentInv
  <2>h. \A b \in Agent : Holds(b, x)' <=> Holds(b, x) \/ (b = a /\ x = w)
    BY <2>1, Agents DEF Moves, Mover, Holds, HolderPlace, InsertPlace
  <2>l. \A c \in CPU : /\ Listed(c, x)' <=> Listed(c, x)
                       /\ Clearing(c, x)' <=> Clearing(c, x)
                       /\ Once(x, worklist[c])'
    BY <2>o, <2>1, Agents DEF Moves, Mover, OneOwner, Listed, Clearing
  <2>p. (pending'[x] <=> pending[x] \/ x = w) /\ (x \in timer' <=> x \in timer)
    BY <1>t, <2>1, <2>2
  <2> QED
    BY <2>o, <2>2, <2>h, <2>l, <2>p, Agents DEF OneOwner
<1>3. ASSUME NEW a \in Agent, SetWqData(a) PROVE OwnerInv'
  BY <1>3, SetWqDataMoves, <1>f, Agents DEF Moves, HolderPlace, InsertPlace
<1>4. ASSUME NEW a \in Agent, ListAdd(a) PROVE OwnerInv'
  <2>0. SUFFICES ASSUME TwoCpus, NEW x \in Work PROVE OneOwner(x)'
    BY DEF OwnerInv
  <2>o. OneOwner(x)
    BY <1>0, <2>0 DEF OwnerInv
  <2>1. /\ Moves(a, {"add"}, {"idle", "func"}) /\ UNCHANGED <<timer, stack, pending>>
        /\ wrk[a] \in Work /\ cpu[a] \in CPU /\ pc[a] = "add"
    BY <1>4, <1>0, <1>t, ListAddMoves DEF ListAdd, AgentInv, InsertPlace, IInv, TypeOK
  <2> DEFINE r == Append(worklist[cpu[a]], wrk[a])
  <2>2. /\ \A y : In(y, r) <=> In(y, worklist[cpu[a]]) \/ y = wrk[a]
        /\ \A y : Once(y, worklist[cpu[a]]) /\ (y = wrk[a] => ~In(y, worklist[cpu[a]])) => Once(y, r)
    BY <1>t, <2>1, Agents, AppendFacts
  <2> HIDE DEF r
  <2>3. worklist' = [worklist EXCEPT ![cpu[a]] = r]
    BY <1>4 DEF ListAdd, r
  <2>4. /\ \A c \in CPU : In(x, worklist'[c]) <=> In(x, worklist[c]) \/ (c = cpu[a] /\ x = wrk[a])
        /\ \A c \in CPU : Once(x, worklist[c]) /\ (x = wrk[a] => ~In(x, worklist[c])) => Once(x, worklist'[c])
    BY <1>t, <2>1, <2>2, <2>3
  <2>5. x = wrk[a] <=> Holds(a, x)
    BY <2>1 DEF Holds, HolderPlace, InsertPlace
  <2>6. x = wrk[a] => \A c \in CPU : ~In(x, worklist[c])
    BY <2>o, <2>5 DEF OneOwner, Listed
  <2>h. \A b \in Agent : Holds(b, x)' <=> Holds(b, x) /\ b # a
    BY <2>1, Agents DEF Moves, Mover, Holds, HolderPlace, InsertPlace
  <2>l. \A c \in CPU : /\ Listed(c, x)' <=> Listed(c, x) \/ (c = cpu[a] /\ x = wrk[a])
                       /\ Clearing(c, x)' <=> Clearing(c, x)
                       /\ Once(x, worklist[c])'
    BY <2>o, <2>1, <2>4, <2>6, Agents DEF Moves, Mover, OneOwner, Listed, Clearing
  <2>p. (pending'[x] <=> pending[x]) /\ (x \in timer' <=> x \in timer)
    BY <1>t, <2>1
  <2> QED
    BY <2>o, <2>1, <2>5, <2>h, <2>l, <2>p, Agents DEF OneOwner
<1>5. ASSUME NEW a \in Agent, SetWqDataUnlocked(a) PROVE OwnerInv'
  BY <1>5, SetWqDataUnlockedMoves, <1>f, Agents DEF Moves, HolderPlace, InsertPlace
<1>6. ASSUME NEW a \in Agent, AddTimer(a) PROVE OwnerInv'
  <2>0. SUFFICES ASSUME TwoCpus, NEW x \in Work PROVE OneOwner(x)'
    BY DEF OwnerInv
  <2>o. OneOwner(x)
    BY <1>0, <2>0 DEF OwnerInv
  <2>1. /\ Moves(a, {"arm"}, {"idle", "func"}) /\ UNCHANGED <<worklist, stack, pending>>
        /\ timer' = timer \cup {wrk[a]}
    BY <1>6, AddTimerMoves DEF AddTimer
  <2>5. x = wrk[a] => Holds(a, x)
    BY <2>1 DEF Moves, Holds, HolderPlace, InsertPlace
  <2>h. \A b \in Agent : Holds(b, x)' <=> Holds(b, x) /\ b # a
    BY <2>1, Agents DEF Moves, Mover, Holds, HolderPlace, InsertPlace
  <2>l. \A c \in CPU : /\ Listed(c, x)' <=> Listed(c, x)
                       /\ Clearing(c, x)' <=> Clearing(c, x)
                       /\ Once(x, worklist[c])'
    BY <2>o, <2>1, Agents DEF Moves, Mover, OneOwner, Listed, Clearing
  <2>p. (pending'[x] <=> pending[x]) /\ (x \in timer' <=> x \in timer \/ x = wrk[a])
    BY <1>t, <2>1
  <2>6. Holds(a, x) => x = wrk[a]
    BY DEF Holds
  <2> QED
    BY <2>o, <2>1, <2>5, <2>6, <2>h, <2>l, <2>p, Agents DEF OneOwner
<1>7. ASSUME NEW w \in Work, delayed_work_timer_fn(w) PROVE OwnerInv'
  <2>0. SUFFICES ASSUME TwoCpus, NEW x \in Work PROVE OneOwner(x)'
    BY DEF OwnerInv
  <2>o. OneOwner(x)
    BY <1>0, <2>0 DEF OwnerInv
  <2>1. /\ Moves(w, {"idle"}, {"set"}) /\ UNCHANGED <<worklist, stack, pending>> /\ wrk'[w] = w
        /\ w \in timer /\ timer' = timer \ {w}
    BY <1>7, <1>t, DelayedWorkTimerFnMoves, Agents DEF delayed_work_timer_fn
  <2>h. \A b \in Agent : Holds(b, x)' <=> Holds(b, x) \/ (b = w /\ x = w)
    BY <2>1, Agents DEF Moves, Mover, Holds, HolderPlace, InsertPlace
  <2>l. \A c \in CPU : /\ Listed(c, x)' <=> Listed(c, x)
                       /\ Clearing(c, x)' <=> Clearing(c, x)
                       /\ Once(x, worklist[c])'
    BY <2>o, <2>1, Agents DEF Moves, Mover, OneOwner, Listed, Clearing
  <2>p. (pending'[x] <=> pending[x]) /\ (x \in timer' <=> x \in timer /\ x # w)
    BY <1>t, <2>1
  <2> QED
    BY <2>o, <2>1, <2>h, <2>l, <2>p, Agents DEF OneOwner
<1>8. ASSUME NEW c \in CPU, RunsOn(c) # {}, prepare_to_wait(c) PROVE OwnerInv'
  BY <1>8, PrepareToWaitMoves, <1>f, Agents DEF Moves, HolderPlace, InsertPlace
<1>9. ASSUME NEW c \in CPU, RunsOn(c) # {}, TestList(c) PROVE OwnerInv'
  BY <1>9, TestListMoves, <1>f, Agents DEF Moves, HolderPlace, InsertPlace
<1>10. ASSUME NEW c \in CPU, RunsOn(c) # {}, StopCheck(c) PROVE OwnerInv'
  BY <1>10, StopCheckMoves, <1>f, Agents DEF Moves, HolderPlace, InsertPlace
<1>11. ASSUME NEW c \in CPU, RunsOn(c) # {}, Take(c) PROVE OwnerInv'
  <2>1. PICK stk \in Seq(Item), i \in Item \cup {None} :
          /\ Leaves(c, stk, i)
          /\ TakesNone(c, stk) \/ \E h \in Item, s \in Seq(Item) : Takes(c, stk, h, s)
    BY <1>11, TakeEffect
  <2>2. /\ pc[c] \in {"run", "func", "end"} /\ Free(c)
        /\ UNCHANGED <<lock, state, should_stop, online, load, wrk, cpu, kind, at, done, pending, data,
                       timer>>
    BY <1>11, TakeEffect DEF works, env
  <2>3. CASE TakesNone(c, stk)
    <3>0. SUFFICES ASSUME TwoCpus, NEW x \in Work PROVE OneOwner(x)'
      BY DEF OwnerInv
    <3>o. OneOwner(x)
      BY <1>0, <3>0 DEF OwnerInv
    <3>1. /\ \A b \in Agent : b # c => pc'[b] = pc[b]
          /\ \A d \in CPU : d # c => stack'[d] = stack[d]
          /\ pc'[c] \in {"prepare", "func"} /\ UNCHANGED <<wrk, worklist, timer, pending>>
      BY <1>t, <2>2, <2>3, Agents DEF TakesNone
    <3>h. \A b \in Agent : Holds(b, x)' <=> Holds(b, x)
      BY <2>2, <3>1, Agents DEF Moves, Mover, Holds, HolderPlace, InsertPlace
    <3>l. \A d \in CPU : /\ Listed(d, x)' <=> Listed(d, x)
                         /\ Clearing(d, x)' <=> Clearing(d, x)
                         /\ Once(x, worklist[d])'
      BY <3>o, <2>2, <3>1, Agents DEF Moves, Mover, OneOwner, Listed, Clearing
    <3>p. (pending'[x] <=> pending[x]) /\ (x \in timer' <=> x \in timer)
      BY <1>t, <3>1
    <3> QED
      BY <3>o, <3>h, <3>l, <3>p, Agents DEF OneOwner
  <2>4. ASSUME NEW h \in Item, NEW rest \in Seq(Item), Takes(c, stk, h, rest)
        PROVE  OwnerInv'
    <3>1. PICK r \in Seq(Item) :
            /\ stack' = [stack EXCEPT ![c] = r]
            /\ r # <<>> /\ Last(r) = h /\ Len(r) = Len(stk) + 1
            /\ stk = <<>> => r[1] = h
            /\ \A x : In(x, r) <=> In(x, stk) \/ x = h
      BY <2>4 DEF Takes
    <3>0. SUFFICES ASSUME TwoCpus, NEW x \in Work PROVE OneOwner(x)'
      BY DEF OwnerInv
    <3>o. OneOwner(x)
      BY <1>0, <3>0 DEF OwnerInv
    <3>2. /\ \A d \in CPU : d # c => stack'[d] = stack[d] /\ worklist'[d] = worklist[d]
          /\ Last(stack'[c]) = h /\ UNCHANGED <<wrk, timer, pending>>
          /\ In(x, worklist[c]) <=> x = h \/ In(x, worklist'[c])
          /\ Once(x, worklist[c]) => Once(x, worklist'[c]) /\ (x = h => ~In(x, worklist'[c]))
          /\ pc'[c] = "clear" /\ \A b \in Agent : b # c => pc'[b] = pc[b]
      BY <1>t, <2>2, <2>4, <3>1, Agents DEF Takes
    <3>h. \A b \in Agent : Holds(b, x)' <=> Holds(b, x)
      BY <2>2, <3>2, Agents DEF Moves, Mover, Holds, HolderPlace, InsertPlace
    <3>l. \A d \in CPU : /\ Listed(d, x)' <=> Listed(d, x) /\ ~(d = c /\ x = h)
                         /\ Clearing(d, x)' <=> Clearing(d, x) \/ (d = c /\ x = h)
                         /\ Once(x, worklist[d])'
      BY <3>o, <2>2, <3>2, Agents DEF Moves, Mover, OneOwner, Listed, Clearing
    <3>p. (pending'[x] <=> pending[x]) /\ (x \in timer' <=> x \in timer)
      BY <1>t, <3>2
    <3>5. x = h => Listed(c, x)
      BY <3>2 DEF Listed
    <3> QED
      BY <3>o, <3>5, <3>h, <3>l, <3>p, Agents DEF OneOwner
  <2> QED
    BY <2>1, <2>3, <2>4
<1>12. ASSUME NEW c \in CPU, RunsOn(c) # {}, CallFunc(c) PROVE OwnerInv'
  <2>0. SUFFICES ASSUME TwoCpus, NEW x \in Work PROVE OneOwner(x)'
    BY DEF OwnerInv
  <2>o. OneOwner(x)
    BY <1>0, <2>0 DEF OwnerInv
  <2> DEFINE i == Last(stack[c])
  <2>1. Moves(c, {"clear"}, {"func", "end"}) /\ UNCHANGED <<worklist, stack, timer, wrk>>
    BY <1>12, CallFuncMoves
  <2>3. pending'[x] <=> (x # i /\ pending[x])
    <3>1. CASE i \in Work /\ pending' = [pending EXCEPT ![i] = FALSE]
      BY <1>t, <2>0, <3>1, Zenon
    <3>2. CASE i \in Task /\ pending' = pending
      BY <2>0, <3>2, Agents, Zenon
    <3> QED
      BY <1>12, <3>1, <3>2, Zenon DEF CallFunc
  <2> HIDE DEF i
  <2>4. Clearing(c, x) <=> x = i
    BY <2>1 DEF Moves, Clearing, i
  <2>h. \A b \in Agent : Holds(b, x)' <=> Holds(b, x)
    BY <2>1, Agents DEF Moves, Mover, Holds, HolderPlace, InsertPlace
  <2>l. \A d \in CPU : /\ Listed(d, x)' <=> Listed(d, x)
                       /\ Clearing(d, x)' <=> Clearing(d, x) /\ d # c
                       /\ Once(x, worklist[d])'
    BY <2>o, <2>1, Agents DEF Moves, Mover, OneOwner, Listed, Clearing
  <2>p. (pending'[x] <=> pending[x] /\ x # i) /\ (x \in timer' <=> x \in timer)
    BY <1>t, <2>1, <2>3
  <2> QED
    BY <2>o, <2>4, <2>h, <2>l, <2>p, Agents DEF OneOwner
<1>13. ASSUME NEW t \in Task, flush_workqueue(t) PROVE OwnerInv'
  BY <1>13, FlushWorkqueueMoves, <1>f, Agents DEF Moves, HolderPlace, InsertPlace
<1>14. ASSUME NEW t \in Task, NEW c \in CPU, CpuDead(t, c) PROVE OwnerInv'
  BY <1>14, CpuDeadMoves, <1>f, Agents DEF Moves, HolderPlace, InsertPlace
<1>15. ASSUME NEW t \in Task, NEW w \in load.works, NEW k \in CancelCalls, Cancel(t, w, k)
      PROVE  OwnerInv'
  BY <1>15, CancelMoves, <1>f, Agents DEF Moves, HolderPlace, InsertPlace
<1>16. ASSUME NEW t \in Task, Steal(t) PROVE OwnerInv'
  <2>0. SUFFICES ASSUME TwoCpus, NEW x \in Work PROVE OneOwner(x)'
    BY DEF OwnerInv
  <2>o. OneOwner(x)
    BY <1>0, <2>0 DEF OwnerInv
  <2>1. /\ Moves(t, {"steal"}, {"waiton", "grab", "deltimer"}) /\ UNCHANGED <<stack, timer, pending, wrk>>
        /\ wrk[t] \in Work
    BY <1>16, <1>0, StealMoves, Agents DEF Steal, AgentInv, CancelPlace
  <2>2. CASE StillThere(t)
    <3>1. Listed(cpu[t], wrk[t]) /\ cpu[t] \in CPU
      <4>1. pc[t] = "steal" /\ cpu[t] \in CPU
        BY <1>0, <2>1 DEF Moves, TaskInv
      <4>2. Guarded(t, wrk[t], cpu[t])
        BY <1>0, <2>0, <2>1, <4>1 DEF StealInv
      <4> QED
        BY <2>2, <4>1, <4>2 DEF Guarded, StillThere
    <3>2. pc'[t] = "waiton" /\ worklist' = [c \in CPU |-> RemoveFirst(worklist[c], wrk[t])]
      BY <1>16, <1>t, <2>2, Agents DEF Steal, Goto
    <3>3. \A c \in CPU : /\ Once(x, worklist'[c])
                         /\ In(x, worklist'[c]) <=> In(x, worklist[c]) /\ x # wrk[t]
      <4>1. \A c \in CPU : LET r == RemoveFirst(worklist[c], wrk[t]) IN
               /\ Once(x, worklist[c]) => Once(x, r)
               /\ In(x, r) => In(x, worklist[c])
               /\ x # wrk[t] /\ In(x, worklist[c]) => In(x, r)
               /\ Once(wrk[t], worklist[c]) => ~In(wrk[t], r)
        BY <1>t, RemoveFacts
      <4>2. \A c \in CPU : Once(x, worklist[c])
        BY <2>o DEF OneOwner
      <4> QED
        BY <3>2, <4>1, <4>2
    <3>h. \A b \in Agent : Holds(b, x)' <=> Holds(b, x) \/ (b = t /\ x = wrk[t])
      BY <2>1, <3>2 DEF Moves, Mover, Holds, HolderPlace, InsertPlace
    <3>l. \A c \in CPU : /\ Listed(c, x)' <=> Listed(c, x) /\ x # wrk[t]
                         /\ Clearing(c, x)' <=> Clearing(c, x)
                         /\ Once(x, worklist[c])'
      BY <2>1, <3>3, Agents DEF Moves, Mover, Listed, Clearing
    <3> QED
      BY <2>o, <2>1, <3>1, <3>h, <3>l, Agents DEF OneOwner
  <2>3. CASE ~StillThere(t)
    <3>1. pc'[t] \in {"grab", "deltimer"} /\ worklist' = worklist
      BY <1>16, <1>t, <2>3, Agents DEF Steal, Goto, Retry
    <3>2. OwnerInv'
      BY <1>f, <2>1, <3>1, Agents DEF Moves, HolderPlace, InsertPlace
    <3> QED
      BY <2>0, <3>2 DEF OwnerInv
  <2> QED
    BY <2>2, <2>3
<1>17. ASSUME NEW t \in Task, flush_cpu_workqueue(t) PROVE OwnerInv'
  <2>1. /\ pc[t] = "flush" /\ cpu[t] \in CPU /\ kind[t] \in {"flush", "cleanup"} /\ Free(cpu[t])
        /\ UNCHANGED <<pending, data, timer, current_work, lock, stack, should_stop, online, load,
                       wrk, kind, at, owed>>
        /\ \/ /\ Busy(cpu[t]) /\ Inserts(t, Append(worklist[cpu[t]], t))
              /\ pc' = [pc EXCEPT ![t] = "flushwait"]
           \/ /\ ~Busy(cpu[t]) /\ Advances(t, "flush", "flushed")
              /\ UNCHANGED <<worklist, state, done>>
    BY <1>17, FlushCpuEffect
  <2>0. SUFFICES ASSUME TwoCpus, NEW x \in Work PROVE OneOwner(x)'
    BY DEF OwnerInv
  <2>o. OneOwner(x)
    BY <1>0, <2>0 DEF OwnerInv
  <2>3. /\ \A c \in CPU : In(x, worklist'[c]) <=> In(x, worklist[c])
        /\ \A c \in CPU : Once(x, worklist[c]) => Once(x, worklist'[c])
    <3> DEFINE r == Append(worklist[cpu[t]], t)
    <3>1. worklist' = worklist \/ worklist' = [worklist EXCEPT ![cpu[t]] = r]
      BY <2>1 DEF Inserts
    <3>2. /\ \A y : In(y, r) <=> In(y, worklist[cpu[t]]) \/ y = t
          /\ \A y : Once(y, worklist[cpu[t]]) /\ (y = t => ~In(y, worklist[cpu[t]])) => Once(y, r)
      BY <1>t, <2>1, Agents, AppendFacts
    <3> HIDE DEF r
    <3>3. CASE worklist' = [worklist EXCEPT ![cpu[t]] = r]
      BY <1>t, <2>0, <2>1, <3>2, <3>3, Agents
    <3> QED
      BY <3>1, <3>3
  <2>4. Moves(t, {"flush"}, {"flush", "flushed", "flushwait"}) /\ UNCHANGED <<pending, timer, stack>>
    BY <1>17, FlushCpuWorkqueueMoves
  <2>h. \A b \in Agent : Holds(b, x)' <=> Holds(b, x)
    BY <2>4, Agents DEF Moves, Mover, Holds, HolderPlace, InsertPlace
  <2>l. \A c \in CPU : /\ Listed(c, x)' <=> Listed(c, x)
                       /\ Clearing(c, x)' <=> Clearing(c, x)
                       /\ Once(x, worklist[c])'
    BY <2>o, <2>3, <2>4, Agents DEF Moves, Mover, OneOwner, Listed, Clearing
  <2>p. (pending'[x] <=> pending[x]) /\ (x \in timer' <=> x \in timer)
    BY <1>t, <2>4
  <2> QED
    BY <2>o, <2>h, <2>l, <2>p, Agents DEF OneOwner
<1>18. ASSUME NEW t \in Task, FlushWait(t) PROVE OwnerInv'
  BY <1>18, FlushWaitMoves, <1>f, Agents DEF Moves, HolderPlace, InsertPlace
<1>19. ASSUME NEW t \in Task, FlushReturns(t) PROVE OwnerInv'
  BY <1>19, FlushReturnsMoves, <1>f, Agents DEF Moves, HolderPlace, InsertPlace
<1>20. ASSUME NEW t \in Task, DelTimer(t) PROVE OwnerInv'
  <2>0. SUFFICES ASSUME TwoCpus, NEW x \in Work PROVE OneOwner(x)'
    BY DEF OwnerInv
  <2>o. OneOwner(x)
    BY <1>0, <2>0 DEF OwnerInv
  <2> DEFINE w == wrk[t]
  <2>1. /\ Moves(t, {"deltimer"}, {"idle", "clearbit", "waiton", "grab"})
        /\ UNCHANGED <<worklist, stack, pending>> /\ w \in Work /\ timer' = timer \ {w}
    BY <1>20, <1>0, DelTimerMoves, Agents DEF DelTimer, AgentInv, CancelPlace
  <2>2. /\ w \in timer => pc'[t] \in {"clearbit", "waiton"} /\ wrk'[t] = w
        /\ w \notin timer => pc'[t] \in {"idle", "grab"}
    BY <1>20, <1>t, Agents DEF DelTimer, Return, Goto, Outside
  <2> HIDE DEF w
  <2>h. \A b \in Agent : Holds(b, x)' <=> Holds(b, x) \/ (b = t /\ x = w /\ w \in timer)
    BY <2>1, <2>2, Agents DEF Moves, Mover, Holds, HolderPlace, InsertPlace
  <2>l. \A c \in CPU : /\ Listed(c, x)' <=> Listed(c, x)
                       /\ Clearing(c, x)' <=> Clearing(c, x)
                       /\ Once(x, worklist[c])'
    BY <2>o, <2>1, Agents DEF Moves, Mover, OneOwner, Listed, Clearing
  <2>p. (pending'[x] <=> pending[x]) /\ (x \in timer' <=> x \in timer /\ x # w)
    BY <1>t, <2>1
  <2> QED
    BY <2>o, <2>1, <2>h, <2>l, <2>p, Agents DEF OneOwner
<1>21. ASSUME NEW t \in Task, Grab(t) PROVE OwnerInv'
  <2>0. SUFFICES ASSUME TwoCpus, NEW x \in Work PROVE OneOwner(x)'
    BY DEF OwnerInv
  <2>o. OneOwner(x)
    BY <1>0, <2>0 DEF OwnerInv
  <2>1. /\ Moves(t, {"grab"}, {"getcwq", "waiton"}) /\ UNCHANGED <<worklist, stack, timer, wrk>>
        /\ wrk[t] \in Work /\ pending' = [pending EXCEPT ![wrk[t]] = TRUE]
    BY <1>21, <1>0, GrabMoves, Agents DEF Grab, AgentInv, CancelPlace
  <2>2. pc'[t] = IF pending[wrk[t]] THEN "getcwq" ELSE "waiton"
    BY <1>21, <1>t, Agents DEF Grab, Goto
  <2>3. pending'[x] <=> (x = wrk[t] \/ pending[x])
    BY <1>t, <2>0, <2>1, Zenon
  <2>h. \A b \in Agent : Holds(b, x)' <=> Holds(b, x) \/ (b = t /\ x = wrk[t] /\ ~pending[x])
    BY <2>1, <2>2, Agents DEF Moves, Mover, Holds, HolderPlace, InsertPlace
  <2>l. \A c \in CPU : /\ Listed(c, x)' <=> Listed(c, x)
                       /\ Clearing(c, x)' <=> Clearing(c, x)
                       /\ Once(x, worklist[c])'
    BY <2>o, <2>1, Agents DEF Moves, Mover, OneOwner, Listed, Clearing
  <2>p. (pending'[x] <=> x = wrk[t] \/ pending[x]) /\ (x \in timer' <=> x \in timer)
    BY <1>t, <2>1, <2>3
  <2> QED
    BY <2>o, <2>1, <2>h, <2>l, <2>p, Agents DEF OneOwner
<1>22. ASSUME NEW t \in Task, GetCwq(t) PROVE OwnerInv'
  BY <1>22, GetCwqMoves, <1>f, Agents DEF Moves, HolderPlace, InsertPlace
<1>23. ASSUME NEW t \in Task, LockCwq(t) PROVE OwnerInv'
  BY <1>23, LockCwqMoves, <1>f, Agents DEF Moves, HolderPlace, InsertPlace
<1>24. ASSUME NEW t \in Task, wait_on_work(t) PROVE OwnerInv'
  BY <1>24, WaitOnWorkMoves, <1>f, Agents DEF Moves, HolderPlace, InsertPlace
<1>25. ASSUME NEW t \in Task, wait_on_cpu_work(t) PROVE OwnerInv'
  <2>1. /\ pc[t] = "waitcpu" /\ cpu[t] \in CPU /\ kind[t] \in CancelCalls /\ Free(cpu[t])
        /\ UNCHANGED <<pending, data, timer, current_work, lock, stack, should_stop, online, load,
                       wrk, kind, at, owed>>
        /\ \/ /\ current_work[cpu[t]] = wrk[t] /\ Inserts(t, <<t>> \o worklist[cpu[t]])
              /\ pc' = [pc EXCEPT ![t] = "waitwork"]
           \/ /\ current_work[cpu[t]] # wrk[t] /\ Advances(t, "waitcpu", "clearbit")
              /\ UNCHANGED <<worklist, state, done>>
    BY <1>25, WaitCpuEffect
  <2>0. SUFFICES ASSUME TwoCpus, NEW x \in Work PROVE OneOwner(x)'
    BY DEF OwnerInv
  <2>o. OneOwner(x)
    BY <1>0, <2>0 DEF OwnerInv
  <2>3. /\ \A c \in CPU : In(x, worklist'[c]) <=> In(x, worklist[c])
        /\ \A c \in CPU : Once(x, worklist[c]) => Once(x, worklist'[c])
    <3> DEFINE r == <<t>> \o worklist[cpu[t]]
    <3>1. worklist' = worklist \/ worklist' = [worklist EXCEPT ![cpu[t]] = r]
      BY <2>1 DEF Inserts
    <3>2. /\ \A y : In(y, r) <=> In(y, worklist[cpu[t]]) \/ y = t
          /\ \A y : Once(y, worklist[cpu[t]]) /\ (y = t => ~In(y, worklist[cpu[t]])) => Once(y, r)
      BY <1>t, <2>1, Agents, ConsFacts
    <3> HIDE DEF r
    <3>3. CASE worklist' = [worklist EXCEPT ![cpu[t]] = r]
      BY <1>t, <2>0, <2>1, <3>2, <3>3, Agents
    <3> QED
      BY <3>1, <3>3
  <2>4. Moves(t, {"waitcpu"}, {"waitcpu", "clearbit", "waitwork"}) /\ UNCHANGED <<pending, timer, stack>>
    BY <1>25, WaitOnCpuWorkMoves
  <2>h. \A b \in Agent : Holds(b, x)' <=> Holds(b, x)
    BY <2>1, <2>4, Agents DEF Moves, Mover, Holds, HolderPlace, InsertPlace
  <2>l. \A c \in CPU : /\ Listed(c, x)' <=> Listed(c, x)
                       /\ Clearing(c, x)' <=> Clearing(c, x)
                       /\ Once(x, worklist[c])'
    BY <2>o, <2>3, <2>4, Agents DEF Moves, Mover, OneOwner, Listed, Clearing
  <2>p. (pending'[x] <=> pending[x]) /\ (x \in timer' <=> x \in timer)
    BY <1>t, <2>4
  <2> QED
    BY <2>o, <2>h, <2>l, <2>p, Agents DEF OneOwner
<1>26. ASSUME NEW t \in Task, WorkWait(t) PROVE OwnerInv'
  BY <1>26, WorkWaitMoves, <1>f, Agents DEF Moves, HolderPlace, InsertPlace
<1>27. ASSUME NEW t \in Task, ClearBit(t) PROVE OwnerInv'
  <2>0. SUFFICES ASSUME TwoCpus, NEW x \in Work PROVE OneOwner(x)'
    BY DEF OwnerInv
  <2>o. OneOwner(x)
    BY <1>0, <2>0 DEF OwnerInv
  <2>1. /\ Moves(t, {"clearbit"}, {"idle"}) /\ UNCHANGED <<worklist, stack, timer>>
        /\ wrk[t] \in Work /\ pending' = [pending EXCEPT ![wrk[t]] = FALSE]
    BY <1>27, <1>0, ClearBitMoves, Agents DEF ClearBit, AgentInv, CancelPlace
  <2>3. pending'[x] <=> (x # wrk[t] /\ pending[x])
    BY <1>t, <2>0, <2>1, Zenon
  <2>4. Holds(t, x) <=> x = wrk[t]
    BY <2>1 DEF Moves, Holds, HolderPlace
  <2>h. \A b \in Agent : Holds(b, x)' <=> Holds(b, x) /\ b # t
    BY <2>1, Agents DEF Moves, Mover, Holds, HolderPlace, InsertPlace
  <2>l. \A c \in CPU : /\ Listed(c, x)' <=> Listed(c, x)
                       /\ Clearing(c, x)' <=> Clearing(c, x)
                       /\ Once(x, worklist[c])'
    BY <2>o, <2>1, Agents DEF Moves, Mover, OneOwner, Listed, Clearing
  <2>p. (pending'[x] <=> x # wrk[t] /\ pending[x]) /\ (x \in timer' <=> x \in timer)
    BY <1>t, <2>1, <2>3
  <2> QED
    BY <2>o, <2>1, <2>4, <2>h, <2>l, <2>p, Agents DEF OneOwner
<1>28. ASSUME NEW t \in Task, kthread_stop(t) PROVE OwnerInv'
  BY <1>28, KthreadStopMoves, <1>f, Agents DEF Moves, HolderPlace, InsertPlace
<1>29. ASSUME NEW t \in Task, Stopped(t) PROVE OwnerInv'
  BY <1>29, StoppedMoves, <1>f, Agents DEF Moves, HolderPlace, InsertPlace
<1> QED
  BY <1>1, <1>2, <1>3, <1>4, <1>5, <1>6, <1>7, <1>8, <1>9, <1>10, <1>11, <1>12, <1>13, <1>14,
     <1>15, <1>16, <1>17, <1>18, <1>19, <1>20, <1>21, <1>22, <1>23, <1>24, <1>25, <1>26, <1>27,
     <1>28, <1>29, NextCases

\* work->data names the queue of the work.
LEMMA DataStep ==
  ASSUME IInv, Next
  PROVE  DataInv'
<1>0. DataInv /\ OwnerInv /\ TaskInv /\ AgentInv /\ WorkerInv
  BY DEF IInv
<1>t. /\ data \in [Work -> CPU \cup {None}] /\ worklist \in [CPU -> Seq(Item)]
      /\ stack \in [CPU -> Seq(Item)] /\ pc \in [Agent -> Place]
      /\ wrk \in [Agent -> Work \cup {None}] /\ cpu \in [Agent -> CPU \cup {None}]
  BY DEF IInv, TypeOK
<1>f. ASSUME NEW a \in Agent, Mover(a), UNCHANGED <<data, worklist, stack>>,
             pc'[a] # "add", pc'[a] # "clear"
      PROVE  DataInv'
  <2>0. SUFFICES ASSUME TwoCpus, NEW x \in Work PROVE OwnData(x)'
    BY DEF DataInv
  <2>o. OneOwner(x) /\ OwnData(x)
    BY <1>0, <2>0 DEF OwnerInv, DataInv
  <2> QED
    BY <1>f, <2>o, Agents DEF Mover, OwnData, Listed, Clearing
<1>1. ASSUME NEW a \in Agent, NEW w \in load.works, queue_work(a, w) PROVE DataInv'
  BY <1>1, QueueWorkMoves, <1>f, Agents DEF Moves
<1>2. ASSUME NEW a \in Agent, NEW w \in load.works, queue_delayed_work(a, w) PROVE DataInv'
  BY <1>2, QueueDelayedWorkMoves, <1>f, Agents DEF Moves
<1>3. ASSUME NEW a \in Agent, SetWqData(a) PROVE DataInv'
  <2>0. SUFFICES ASSUME TwoCpus, NEW x \in Work PROVE OwnData(x)'
    BY DEF DataInv
  <2>o. OneOwner(x) /\ OwnData(x)
    BY <1>0, <2>0 DEF OwnerInv, DataInv
  <2>1. /\ Moves(a, {"set"}, {"add"}) /\ UNCHANGED <<worklist, stack, wrk, cpu>>
        /\ wrk[a] \in Work /\ cpu[a] \in CPU /\ data' = [data EXCEPT ![wrk[a]] = cpu[a]]
    BY <1>3, <1>0, SetWqDataMoves DEF SetWqData, StoreCwq, AgentInv, InsertPlace, IInv, TypeOK
  <2>2. CASE x = wrk[a]
    <3>1. Holds(a, x)
      BY <2>1, <2>2 DEF Moves, Holds, HolderPlace, InsertPlace
    <3>2. \A c \in CPU : ~Listed(c, x) /\ ~Clearing(c, x)
      BY <2>o, <2>1, <3>1 DEF OneOwner, Moves
    <3>3. \A b \in Agent : pc[b] = "add" /\ wrk[b] = x => b = a
      BY <2>o, <2>1, <3>1 DEF OneOwner, Holds, HolderPlace, InsertPlace, Moves
    <3>4. data'[x] = cpu[a]
      BY <1>t, <2>1, <2>2
    <3> QED
      BY <2>1, <2>2, <3>2, <3>3, <3>4, Agents DEF Moves, Mover, OwnData, Listed, Clearing
  <2>3. CASE x # wrk[a]
    <3>1. data'[x] = data[x]
      BY <1>t, <2>1, <2>3
    <3> QED
      BY <2>o, <2>1, <2>3, <3>1, Agents DEF Moves, Mover, OwnData, Listed, Clearing
  <2> QED
    BY <2>2, <2>3
<1>4. ASSUME NEW a \in Agent, ListAdd(a) PROVE DataInv'
  <2>0. SUFFICES ASSUME TwoCpus, NEW x \in Work PROVE OwnData(x)'
    BY DEF DataInv
  <2>o. OneOwner(x) /\ OwnData(x)
    BY <1>0, <2>0 DEF OwnerInv, DataInv
  <2>1. /\ Moves(a, {"add"}, {"idle", "func"}) /\ UNCHANGED <<data, stack>>
        /\ wrk[a] \in Work /\ cpu[a] \in CPU /\ pc[a] = "add"
    BY <1>4, <1>0, <1>t, ListAddMoves DEF ListAdd, AgentInv, InsertPlace, IInv, TypeOK
  <2> DEFINE r == Append(worklist[cpu[a]], wrk[a])
  <2>2. /\ \A y : In(y, r) <=> In(y, worklist[cpu[a]]) \/ y = wrk[a]
        /\ \A y : Once(y, worklist[cpu[a]]) /\ (y = wrk[a] => ~In(y, worklist[cpu[a]])) => Once(y, r)
    BY <1>t, <2>1, Agents, AppendFacts
  <2> HIDE DEF r
  <2>3. worklist' = [worklist EXCEPT ![cpu[a]] = r]
    BY <1>4 DEF ListAdd, r
  <2>4. /\ \A c \in CPU : In(x, worklist'[c]) <=> In(x, worklist[c]) \/ (c = cpu[a] /\ x = wrk[a])
        /\ \A c \in CPU : Once(x, worklist[c]) /\ (x = wrk[a] => ~In(x, worklist[c])) => Once(x, worklist'[c])
    BY <1>t, <2>1, <2>2, <2>3
  <2>5. x = wrk[a] <=> Holds(a, x)
    BY <2>1 DEF Holds, HolderPlace, InsertPlace
  <2>6. x = wrk[a] => \A c \in CPU : ~In(x, worklist[c])
    BY <2>o, <2>5 DEF OneOwner, Listed
  <2>7. CASE x = wrk[a]
    <3>1. data[x] = cpu[a]
      BY <2>o, <2>1, <2>7 DEF OwnData
    <3> QED
      BY <2>o, <2>1, <2>4, <2>7, <3>1, Agents DEF Moves, Mover, OwnData, Listed, Clearing
  <2>8. CASE x # wrk[a]
    BY <2>o, <2>1, <2>4, <2>8, Agents DEF Moves, Mover, OwnData, Listed, Clearing
  <2> QED
    BY <2>7, <2>8
<1>5. ASSUME NEW a \in Agent, SetWqDataUnlocked(a) PROVE DataInv'
  <2>0. SUFFICES ASSUME TwoCpus, NEW x \in Work PROVE OwnData(x)'
    BY DEF DataInv
  <2>o. OneOwner(x) /\ OwnData(x)
    BY <1>0, <2>0 DEF OwnerInv, DataInv
  <2>1. /\ Moves(a, {"setnow"}, {"arm"}) /\ UNCHANGED <<worklist, stack, wrk, cpu>>
        /\ wrk[a] \in Work
    BY <1>5, <1>0, SetWqDataUnlockedMoves DEF SetWqDataUnlocked, AgentInv, InsertPlace
  <2>d. PICK k \in CPU : data' = [data EXCEPT ![wrk[a]] = k]
    BY <1>5, RunsOnline DEF SetWqDataUnlocked, IInv, TypeOK
  <2>2. CASE x = wrk[a]
    <3>1. Holds(a, x)
      BY <2>1, <2>2 DEF Moves, Holds, HolderPlace, InsertPlace
    <3>2. \A c \in CPU : ~Listed(c, x) /\ ~Clearing(c, x)
      BY <2>o, <2>1, <3>1 DEF OneOwner, Moves
    <3>3. \A b \in Agent : ~(pc[b] = "add" /\ wrk[b] = x)
      BY <2>o, <2>1, <3>1 DEF OneOwner, Holds, HolderPlace, InsertPlace, Moves
    <3>4. data'[x] = k
      BY <1>t, <2>d, <2>2
    <3> QED
      BY <2>1, <2>2, <3>2, <3>3, <3>4, Agents DEF Moves, Mover, OwnData, Listed, Clearing
  <2>3. CASE x # wrk[a]
    <3>1. data'[x] = data[x]
      BY <1>t, <2>d, <2>3
    <3> QED
      BY <2>o, <2>1, <2>3, <3>1, Agents DEF Moves, Mover, OwnData, Listed, Clearing
  <2> QED
    BY <2>2, <2>3
<1>6. ASSUME NEW a \in Agent, AddTimer(a) PROVE DataInv'
  BY <1>6, AddTimerMoves, <1>f, Agents DEF Moves
<1>7. ASSUME NEW w \in Work, delayed_work_timer_fn(w) PROVE DataInv'
  BY <1>7, DelayedWorkTimerFnMoves, <1>f, Agents DEF Moves
<1>8. ASSUME NEW c \in CPU, RunsOn(c) # {}, prepare_to_wait(c) PROVE DataInv'
  BY <1>8, PrepareToWaitMoves, <1>f, Agents DEF Moves
<1>9. ASSUME NEW c \in CPU, RunsOn(c) # {}, TestList(c) PROVE DataInv'
  BY <1>9, TestListMoves, <1>f, Agents DEF Moves
<1>10. ASSUME NEW c \in CPU, RunsOn(c) # {}, StopCheck(c) PROVE DataInv'
  BY <1>10, StopCheckMoves, <1>f, Agents DEF Moves
<1>11. ASSUME NEW c \in CPU, RunsOn(c) # {}, Take(c) PROVE DataInv'
  <2>1. PICK stk \in Seq(Item), i \in Item \cup {None} :
          /\ Leaves(c, stk, i)
          /\ TakesNone(c, stk) \/ \E h \in Item, s \in Seq(Item) : Takes(c, stk, h, s)
    BY <1>11, TakeEffect
  <2>2. /\ pc[c] \in {"run", "func", "end"} /\ Free(c)
        /\ UNCHANGED <<lock, state, should_stop, online, load, wrk, cpu, kind, at, done, pending, data,
                       timer>>
    BY <1>11, TakeEffect DEF works, env
  <2>3. CASE TakesNone(c, stk)
    <3>0. SUFFICES ASSUME TwoCpus, NEW x \in Work PROVE OwnData(x)'
      BY DEF DataInv
    <3>o. OneOwner(x) /\ OwnData(x)
      BY <1>0, <3>0 DEF OwnerInv, DataInv
    <3>1. /\ \A b \in Agent : b # c => pc'[b] = pc[b]
          /\ \A d \in CPU : d # c => stack'[d] = stack[d]
          /\ \A y \in Item : In(y, stack'[c]) => In(y, stack[c])
          /\ pc'[c] \in {"prepare", "func"} /\ UNCHANGED <<wrk, worklist, cpu, data>>
      BY <1>t, <2>1, <2>2, <2>3, Agents DEF TakesNone, Leaves
    <3> QED
      BY <3>o, <3>1, Agents DEF OwnData, Listed, Clearing
  <2>4. ASSUME NEW h \in Item, NEW rest \in Seq(Item), Takes(c, stk, h, rest)
        PROVE  DataInv'
    <3>1. PICK r \in Seq(Item) :
            /\ stack' = [stack EXCEPT ![c] = r]
            /\ r # <<>> /\ Last(r) = h /\ Len(r) = Len(stk) + 1
            /\ stk = <<>> => r[1] = h
            /\ \A x : In(x, r) <=> In(x, stk) \/ x = h
      BY <2>4 DEF Takes
    <3>0. SUFFICES ASSUME TwoCpus, NEW x \in Work PROVE OwnData(x)'
      BY DEF DataInv
    <3>o. OneOwner(x) /\ OwnData(x)
      BY <1>0, <3>0 DEF OwnerInv, DataInv
    <3>2. /\ \A d \in CPU : d # c => stack'[d] = stack[d] /\ worklist'[d] = worklist[d]
          /\ Last(stack'[c]) = h /\ UNCHANGED <<wrk, cpu, data>>
          /\ In(x, worklist[c]) <=> x = h \/ In(x, worklist'[c])
          /\ pc'[c] = "clear" /\ \A b \in Agent : b # c => pc'[b] = pc[b]
          /\ \A y \in Item : In(y, stack'[c]) => In(y, stack[c]) \/ y = h
      BY <1>t, <2>1, <2>2, <2>4, <3>1, Agents DEF Takes, Leaves
    <3>3. x = h => Listed(c, x)
      BY <3>2 DEF Listed
    <3>4. x = h => data[x] = c
      BY <3>o, <3>3 DEF OwnData
    <3> QED
      BY <3>o, <3>2, <3>4, Agents DEF OwnData, Listed, Clearing
  <2> QED
    BY <2>1, <2>3, <2>4
<1>12. ASSUME NEW c \in CPU, RunsOn(c) # {}, CallFunc(c) PROVE DataInv'
  BY <1>12, CallFuncMoves, <1>f, Agents DEF Moves
<1>13. ASSUME NEW t \in Task, flush_workqueue(t) PROVE DataInv'
  BY <1>13, FlushWorkqueueMoves, <1>f, Agents DEF Moves
<1>14. ASSUME NEW t \in Task, NEW c \in CPU, CpuDead(t, c) PROVE DataInv'
  BY <1>14, CpuDeadMoves, <1>f, Agents DEF Moves
<1>15. ASSUME NEW t \in Task, NEW w \in load.works, NEW k \in CancelCalls, Cancel(t, w, k)
      PROVE  DataInv'
  BY <1>15, CancelMoves, <1>f, Agents DEF Moves
<1>16. ASSUME NEW t \in Task, Steal(t) PROVE DataInv'
  <2>0. SUFFICES ASSUME TwoCpus, NEW x \in Work PROVE OwnData(x)'
    BY DEF DataInv
  <2>o. OneOwner(x) /\ OwnData(x)
    BY <1>0, <2>0 DEF OwnerInv, DataInv
  <2>1. Moves(t, {"steal"}, {"waiton", "grab", "deltimer"}) /\ UNCHANGED <<stack, data>>
    BY <1>16, StealMoves
  <2>2. \A c \in CPU : In(x, worklist'[c]) => In(x, worklist[c])
    BY <1>16, <1>t, RemoveFacts DEF Steal
  <2> QED
    BY <2>o, <2>1, <2>2, Agents DEF Moves, Mover, OwnData, Listed, Clearing
<1>17. ASSUME NEW t \in Task, flush_cpu_workqueue(t) PROVE DataInv'
  <2>1. /\ pc[t] = "flush" /\ cpu[t] \in CPU /\ kind[t] \in {"flush", "cleanup"} /\ Free(cpu[t])
        /\ UNCHANGED <<pending, data, timer, current_work, lock, stack, should_stop, online, load,
                       wrk, kind, at, owed>>
        /\ \/ /\ Busy(cpu[t]) /\ Inserts(t, Append(worklist[cpu[t]], t))
              /\ pc' = [pc EXCEPT ![t] = "flushwait"]
           \/ /\ ~Busy(cpu[t]) /\ Advances(t, "flush", "flushed")
              /\ UNCHANGED <<worklist, state, done>>
    BY <1>17, FlushCpuEffect
  <2>0. SUFFICES ASSUME TwoCpus, NEW x \in Work PROVE OwnData(x)'
    BY DEF DataInv
  <2>o. OneOwner(x) /\ OwnData(x)
    BY <1>0, <2>0 DEF OwnerInv, DataInv
  <2>3. /\ \A c \in CPU : In(x, worklist'[c]) <=> In(x, worklist[c])
        /\ \A c \in CPU : Once(x, worklist[c]) => Once(x, worklist'[c])
    <3> DEFINE r == Append(worklist[cpu[t]], t)
    <3>1. worklist' = worklist \/ worklist' = [worklist EXCEPT ![cpu[t]] = r]
      BY <2>1 DEF Inserts
    <3>2. /\ \A y : In(y, r) <=> In(y, worklist[cpu[t]]) \/ y = t
          /\ \A y : Once(y, worklist[cpu[t]]) /\ (y = t => ~In(y, worklist[cpu[t]])) => Once(y, r)
      BY <1>t, <2>1, Agents, AppendFacts
    <3> HIDE DEF r
    <3>3. CASE worklist' = [worklist EXCEPT ![cpu[t]] = r]
      BY <1>t, <2>0, <2>1, <3>2, <3>3, Agents
    <3> QED
      BY <3>1, <3>3
  <2>4. Moves(t, {"flush"}, {"flush", "flushed", "flushwait"}) /\ UNCHANGED <<data, stack>>
    BY <1>17, FlushCpuWorkqueueMoves
  <2> QED
    BY <2>o, <2>3, <2>4, Agents DEF Moves, Mover, OwnData, Listed, Clearing
<1>18. ASSUME NEW t \in Task, FlushWait(t) PROVE DataInv'
  BY <1>18, FlushWaitMoves, <1>f, Agents DEF Moves
<1>19. ASSUME NEW t \in Task, FlushReturns(t) PROVE DataInv'
  BY <1>19, FlushReturnsMoves, <1>f, Agents DEF Moves
<1>20. ASSUME NEW t \in Task, DelTimer(t) PROVE DataInv'
  BY <1>20, DelTimerMoves, <1>f, Agents DEF Moves
<1>21. ASSUME NEW t \in Task, Grab(t) PROVE DataInv'
  BY <1>21, GrabMoves, <1>f, Agents DEF Moves
<1>22. ASSUME NEW t \in Task, GetCwq(t) PROVE DataInv'
  BY <1>22, GetCwqMoves, <1>f, Agents DEF Moves
<1>23. ASSUME NEW t \in Task, LockCwq(t) PROVE DataInv'
  BY <1>23, LockCwqMoves, <1>f, Agents DEF Moves
<1>24. ASSUME NEW t \in Task, wait_on_work(t) PROVE DataInv'
  BY <1>24, WaitOnWorkMoves, <1>f, Agents DEF Moves
<1>25. ASSUME NEW t \in Task, wait_on_cpu_work(t) PROVE DataInv'
  <2>1. /\ pc[t] = "waitcpu" /\ cpu[t] \in CPU /\ kind[t] \in CancelCalls /\ Free(cpu[t])
        /\ UNCHANGED <<pending, data, timer, current_work, lock, stack, should_stop, online, load,
                       wrk, kind, at, owed>>
        /\ \/ /\ current_work[cpu[t]] = wrk[t] /\ Inserts(t, <<t>> \o worklist[cpu[t]])
              /\ pc' = [pc EXCEPT ![t] = "waitwork"]
           \/ /\ current_work[cpu[t]] # wrk[t] /\ Advances(t, "waitcpu", "clearbit")
              /\ UNCHANGED <<worklist, state, done>>
    BY <1>25, WaitCpuEffect
  <2>0. SUFFICES ASSUME TwoCpus, NEW x \in Work PROVE OwnData(x)'
    BY DEF DataInv
  <2>o. OneOwner(x) /\ OwnData(x)
    BY <1>0, <2>0 DEF OwnerInv, DataInv
  <2>3. /\ \A c \in CPU : In(x, worklist'[c]) <=> In(x, worklist[c])
        /\ \A c \in CPU : Once(x, worklist[c]) => Once(x, worklist'[c])
    <3> DEFINE r == <<t>> \o worklist[cpu[t]]
    <3>1. worklist' = worklist \/ worklist' = [worklist EXCEPT ![cpu[t]] = r]
      BY <2>1 DEF Inserts
    <3>2. /\ \A y : In(y, r) <=> In(y, worklist[cpu[t]]) \/ y = t
          /\ \A y : Once(y, worklist[cpu[t]]) /\ (y = t => ~In(y, worklist[cpu[t]])) => Once(y, r)
      BY <1>t, <2>1, Agents, ConsFacts
    <3> HIDE DEF r
    <3>3. CASE worklist' = [worklist EXCEPT ![cpu[t]] = r]
      BY <1>t, <2>0, <2>1, <3>2, <3>3, Agents
    <3> QED
      BY <3>1, <3>3
  <2>4. Moves(t, {"waitcpu"}, {"waitcpu", "clearbit", "waitwork"}) /\ UNCHANGED <<data, stack>>
    BY <1>25, WaitOnCpuWorkMoves
  <2> QED
    BY <2>o, <2>3, <2>4, Agents DEF Moves, Mover, OwnData, Listed, Clearing
<1>26. ASSUME NEW t \in Task, WorkWait(t) PROVE DataInv'
  BY <1>26, WorkWaitMoves, <1>f, Agents DEF Moves
<1>27. ASSUME NEW t \in Task, ClearBit(t) PROVE DataInv'
  BY <1>27, ClearBitMoves, <1>f, Agents DEF Moves
<1>28. ASSUME NEW t \in Task, kthread_stop(t) PROVE DataInv'
  BY <1>28, KthreadStopMoves, <1>f, Agents DEF Moves
<1>29. ASSUME NEW t \in Task, Stopped(t) PROVE DataInv'
  BY <1>29, StoppedMoves, <1>f, Agents DEF Moves
<1> QED
  BY <1>1, <1>2, <1>3, <1>4, <1>5, <1>6, <1>7, <1>8, <1>9, <1>10, <1>11, <1>12, <1>13, <1>14,
     <1>15, <1>16, <1>17, <1>18, <1>19, <1>20, <1>21, <1>22, <1>23, <1>24, <1>25, <1>26, <1>27,
     <1>28, <1>29, NextCases

\* A work cannot be put on the queue whose lock a stealer holds.
LEMMA StealStep ==
  ASSUME IInv, Next
  PROVE  StealInv'
<1>0. StealInv /\ DataInv /\ OwnerInv /\ TaskInv /\ AgentInv
  BY DEF IInv
<1>t. /\ pc \in [Agent -> Place] /\ wrk \in [Agent -> Work \cup {None}]
      /\ cpu \in [Agent -> CPU \cup {None}] /\ data \in [Work -> CPU \cup {None}]
      /\ worklist \in [CPU -> Seq(Item)] /\ lock \in [CPU -> Agent \cup {None}]
  BY DEF IInv, TypeOK
<1>s. ASSUME TwoCpus, NEW a \in Agent, Mover(a), pc'[a] # "steal",
             NEW s \in Task, NEW x \in Work, NEW k \in CPU, pc'[s] = "steal", wrk'[s] = x, cpu'[s] = k
      PROVE  /\ s # a /\ Guarded(s, x, k) /\ lock[k] = s /\ at'[s] = at[s]
             /\ pc[s] = "steal" /\ wrk[s] = x /\ cpu[s] = k
  <2>1. s # a
    BY <1>s
  <2>2. pc[s] = "steal" /\ wrk[s] = x /\ cpu[s] = k /\ at'[s] = at[s]
    BY <1>s, <2>1, Agents DEF Mover
  <2>3. Guarded(s, x, k)
    BY <1>0, <1>s, <2>2 DEF StealInv
  <2>4. lock[k] = s
    BY <1>0, <2>2, Agents DEF AgentInv
  <2> QED
    BY <2>1, <2>2, <2>3, <2>4
<1>f. ASSUME NEW a \in Agent, Mover(a), UNCHANGED <<data, worklist>>,
             pc'[a] # "steal", pc[a] \notin {"waiton", "waitcpu", "waitwork"}
      PROVE  StealInv'
  <2>0. SUFFICES ASSUME TwoCpus, NEW s \in Task, NEW x \in Work, NEW k \in CPU,
                        pc'[s] = "steal", wrk'[s] = x, cpu'[s] = k
                 PROVE  Guarded(s, x, k)'
    BY DEF StealInv
  <2>s. Guarded(s, x, k) /\ at'[s] = at[s]
    BY <1>f, <1>s, <2>0
  <2>b. \A u \in Task : Before(u, x, k) => Before(u, x, k)'
    BY <1>f, Agents DEF Mover, Before
  <2> QED
    BY <1>f, <2>s, <2>b DEF Guarded, Listed
<1>1. ASSUME NEW a \in Agent, NEW w \in load.works, queue_work(a, w) PROVE StealInv'
  BY <1>1, QueueWorkMoves, <1>f, Agents DEF Moves
<1>2. ASSUME NEW a \in Agent, NEW w \in load.works, queue_delayed_work(a, w) PROVE StealInv'
  BY <1>2, QueueDelayedWorkMoves, <1>f, Agents DEF Moves
<1>3. ASSUME NEW a \in Agent, SetWqData(a) PROVE StealInv'
  <2>0. SUFFICES ASSUME TwoCpus, NEW s \in Task, NEW x \in Work, NEW k \in CPU,
                        pc'[s] = "steal", wrk'[s] = x, cpu'[s] = k
                 PROVE  Guarded(s, x, k)'
    BY DEF StealInv
  <2>1. /\ Moves(a, {"set"}, {"add"}) /\ UNCHANGED <<worklist, wrk, cpu>>
        /\ wrk[a] \in Work /\ cpu[a] \in CPU /\ data' = [data EXCEPT ![wrk[a]] = cpu[a]] /\ ~Occupied(cpu[a])
    BY <1>3, <1>0, SetWqDataMoves DEF SetWqData, StoreCwq, AgentInv, InsertPlace, IInv, TypeOK
  <2>s. s # a /\ Guarded(s, x, k) /\ lock[k] = s /\ at'[s] = at[s] /\ pc[s] = "steal" /\ cpu[s] = k
    BY <1>s, <2>0, <2>1, Agents DEF Moves
  <2>b. \A u \in Task : Before(u, x, k) => Before(u, x, k)'
    BY <2>1, Agents DEF Moves, Mover, Before
  <2>2. CASE x # wrk[a]
    <3>1. data'[x] = data[x]
      BY <1>t, <2>1, <2>2
    <3> QED
      BY <2>1, <2>s, <2>b, <3>1 DEF Guarded, Listed
  <2>3. CASE x = wrk[a]
    <3>1. Holds(a, x)
      BY <2>1, <2>3 DEF Moves, Holds, HolderPlace, InsertPlace
    <3>2. OneOwner(x) /\ a \in Agent
      BY <1>0, <2>0, <2>1 DEF OwnerInv, Moves
    <3>3. \A u \in Task : ~Before(u, x, k)
      BY <2>1, <3>1, <3>2, Agents DEF OneOwner, Before, Holds, HolderPlace, Moves
    <3>4. at[s] = k
      BY <2>s, <3>1, <3>2, <3>3 DEF Guarded, OneOwner
    <3>5. cpu[a] # k
      BY <2>1, <2>s, <3>4 DEF Occupied
    <3>6. data'[x] = cpu[a]
      BY <1>t, <2>1, <2>3
    <3> QED
      BY <2>1, <2>s, <3>4, <3>5, <3>6 DEF Guarded
  <2> QED
    BY <2>2, <2>3
<1>4. ASSUME NEW a \in Agent, ListAdd(a) PROVE StealInv'
  <2>0. SUFFICES ASSUME TwoCpus, NEW s \in Task, NEW x \in Work, NEW k \in CPU,
                        pc'[s] = "steal", wrk'[s] = x, cpu'[s] = k
                 PROVE  Guarded(s, x, k)'
    BY DEF StealInv
  <2>1. /\ Moves(a, {"add"}, {"idle", "func"}) /\ UNCHANGED <<data>>
        /\ wrk[a] \in Work /\ cpu[a] \in CPU
    BY <1>4, <1>0, <1>t, ListAddMoves DEF ListAdd, AgentInv, InsertPlace, IInv, TypeOK
  <2>s. s # a /\ Guarded(s, x, k) /\ lock[k] = s /\ at'[s] = at[s] /\ pc[s] = "steal" /\ cpu[s] = k
    BY <1>s, <2>0, <2>1, Agents DEF Moves
  <2>b. \A u \in Task : Before(u, x, k) => Before(u, x, k)'
    BY <2>1, Agents DEF Moves, Mover, Before
  <2>2. \A c \in CPU : Listed(c, x) => Listed(c, x)'
    <3> DEFINE r == Append(worklist[cpu[a]], wrk[a])
    <3>1. \A y : In(y, worklist[cpu[a]]) => In(y, r)
      BY <1>t, <2>1, Agents, AppendFacts
    <3> HIDE DEF r
    <3>2. worklist' = [worklist EXCEPT ![cpu[a]] = r]
      BY <1>4 DEF ListAdd, r
    <3> QED
      BY <1>t, <2>1, <3>1, <3>2 DEF Listed
  <2> QED
    BY <2>1, <2>s, <2>b, <2>2 DEF Guarded
<1>5. ASSUME NEW a \in Agent, SetWqDataUnlocked(a) PROVE StealInv'
  <2>0. SUFFICES ASSUME TwoCpus, NEW s \in Task, NEW x \in Work, NEW k \in CPU,
                        pc'[s] = "steal", wrk'[s] = x, cpu'[s] = k
                 PROVE  Guarded(s, x, k)'
    BY DEF StealInv
  <2>1. /\ Moves(a, {"setnow"}, {"arm"}) /\ UNCHANGED <<worklist, wrk, cpu>> /\ wrk[a] \in Work
    BY <1>5, <1>0, SetWqDataUnlockedMoves DEF SetWqDataUnlocked, AgentInv, InsertPlace
  <2>d. PICK e \in CPU : data' = [data EXCEPT ![wrk[a]] = e] /\ ~Occupied(e)
    BY <1>5, RunsOnline DEF SetWqDataUnlocked, IInv, TypeOK
  <2>s. s # a /\ Guarded(s, x, k) /\ lock[k] = s /\ at'[s] = at[s] /\ pc[s] = "steal" /\ cpu[s] = k
    BY <1>s, <2>0, <2>1, Agents DEF Moves
  <2>b. \A u \in Task : Before(u, x, k) => Before(u, x, k)'
    BY <2>1, Agents DEF Moves, Mover, Before
  <2>2. CASE x # wrk[a]
    <3>1. data'[x] = data[x]
      BY <1>t, <2>d, <2>2
    <3> QED
      BY <2>1, <2>s, <2>b, <3>1 DEF Guarded, Listed
  <2>3. CASE x = wrk[a]
    <3>1. Holds(a, x)
      BY <2>1, <2>3 DEF Moves, Holds, HolderPlace, InsertPlace
    <3>2. OneOwner(x) /\ a \in Agent
      BY <1>0, <2>0, <2>1 DEF OwnerInv, Moves
    <3>3. \A u \in Task : ~Before(u, x, k)
      BY <2>1, <3>1, <3>2, Agents DEF OneOwner, Before, Holds, HolderPlace, Moves
    <3>4. at[s] = k
      BY <2>s, <3>1, <3>2, <3>3 DEF Guarded, OneOwner
    <3>5. e # k
      BY <2>d, <2>s, <3>4 DEF Occupied
    <3>6. data'[x] = e
      BY <1>t, <2>d, <2>3
    <3> QED
      BY <2>d, <2>s, <3>4, <3>5, <3>6 DEF Guarded
  <2> QED
    BY <2>2, <2>3
<1>6. ASSUME NEW a \in Agent, AddTimer(a) PROVE StealInv'
  BY <1>6, AddTimerMoves, <1>f, Agents DEF Moves
<1>7. ASSUME NEW w \in Work, delayed_work_timer_fn(w) PROVE StealInv'
  BY <1>7, DelayedWorkTimerFnMoves, <1>f, Agents DEF Moves
<1>8. ASSUME NEW c \in CPU, RunsOn(c) # {}, prepare_to_wait(c) PROVE StealInv'
  BY <1>8, PrepareToWaitMoves, <1>f, Agents DEF Moves
<1>9. ASSUME NEW c \in CPU, RunsOn(c) # {}, TestList(c) PROVE StealInv'
  BY <1>9, TestListMoves, <1>f, Agents DEF Moves
<1>10. ASSUME NEW c \in CPU, RunsOn(c) # {}, StopCheck(c) PROVE StealInv'
  BY <1>10, StopCheckMoves, <1>f, Agents DEF Moves
<1>11. ASSUME NEW c \in CPU, RunsOn(c) # {}, Take(c) PROVE StealInv'
  <2>1. PICK stk \in Seq(Item), i \in Item \cup {None} :
          /\ Leaves(c, stk, i)
          /\ TakesNone(c, stk) \/ \E h \in Item, s \in Seq(Item) : Takes(c, stk, h, s)
    BY <1>11, TakeEffect
  <2>2. /\ pc[c] \in {"run", "func", "end"} /\ Free(c)
        /\ UNCHANGED <<lock, state, should_stop, online, load, wrk, cpu, kind, at, done, pending, data,
                       timer>>
    BY <1>11, TakeEffect DEF works, env
  <2>3. CASE TakesNone(c, stk)
    <3>0. SUFFICES ASSUME TwoCpus, NEW s \in Task, NEW x \in Work, NEW k \in CPU,
                          pc'[s] = "steal", wrk'[s] = x, cpu'[s] = k
                   PROVE  Guarded(s, x, k)'
      BY DEF StealInv
    <3>1. Moves(c, {"run", "func", "end"}, {"prepare", "func", "clear"}) /\ UNCHANGED <<worklist, data>>
      BY <1>11, <2>3, TakeMoves DEF TakesNone
    <3> QED
      BY <1>f, <3>1, <3>0 DEF Moves, StealInv
  <2>4. ASSUME NEW h \in Item, NEW rest \in Seq(Item), Takes(c, stk, h, rest)
        PROVE  StealInv'
    <3>1. PICK r \in Seq(Item) :
            /\ stack' = [stack EXCEPT ![c] = r]
            /\ r # <<>> /\ Last(r) = h /\ Len(r) = Len(stk) + 1
            /\ stk = <<>> => r[1] = h
            /\ \A x : In(x, r) <=> In(x, stk) \/ x = h
      BY <2>4 DEF Takes
    <3>0. SUFFICES ASSUME TwoCpus, NEW s \in Task, NEW x \in Work, NEW k \in CPU,
                          pc'[s] = "steal", wrk'[s] = x, cpu'[s] = k
                   PROVE  Guarded(s, x, k)'
      BY DEF StealInv
    <3>m. Moves(c, {"run", "func", "end"}, {"prepare", "func", "clear"})
      BY <1>11, TakeMoves
    <3>s. s # c /\ Guarded(s, x, k) /\ lock[k] = s /\ at'[s] = at[s] /\ pc[s] = "steal"
      BY <1>s, <3>0, <3>m DEF Moves
    <3>b. \A u \in Task : Before(u, x, k) => Before(u, x, k)'
      BY <3>m, Agents DEF Moves, Mover, Before
    <3>2. \A d \in CPU : Listed(d, x) /\ ~(d = c /\ x = h) => Listed(d, x)'
      BY <1>t, <2>4 DEF Takes, Listed
    <3>3. CASE ~(data[x] = c /\ x = h)
      BY <2>2, <3>s, <3>b, <3>2, <3>3 DEF Guarded
    <3>4. CASE data[x] = c /\ x = h
      <4>1. c # k
        BY <2>2, <3>s, Agents DEF Free
      <4>2. at[s] \in CPU /\ at[s] \in online
        BY <1>0, <3>s DEF TaskInv, IInv, TypeOK
      <4>3. at[s] # c
        <5>1. SUFFICES ASSUME at[s] = c PROVE FALSE
          OBVIOUS
        <5>2. Occupied(c)
          BY <3>s, <5>1 DEF Occupied
        <5>3. RunsOn(c) = {}
          BY <4>2, <5>1, <5>2 DEF RunsOn
        <5> QED
          BY <1>11, <5>3
      <4>4. at[s] = k
        BY <3>0, <4>1, <4>2, <4>3, CpuNumbers DEF TwoCpus
      <4> QED
        BY <2>2, <3>s, <3>4, <4>1, <4>4 DEF Guarded
    <3> QED
      BY <3>3, <3>4
  <2> QED
    BY <2>1, <2>3, <2>4
<1>12. ASSUME NEW c \in CPU, RunsOn(c) # {}, CallFunc(c) PROVE StealInv'
  BY <1>12, CallFuncMoves, <1>f, Agents DEF Moves
<1>13. ASSUME NEW t \in Task, flush_workqueue(t) PROVE StealInv'
  BY <1>13, FlushWorkqueueMoves, <1>f, Agents DEF Moves
<1>14. ASSUME NEW t \in Task, NEW c \in CPU, CpuDead(t, c) PROVE StealInv'
  BY <1>14, CpuDeadMoves, <1>f, Agents DEF Moves
<1>15. ASSUME NEW t \in Task, NEW w \in load.works, NEW k \in CancelCalls, Cancel(t, w, k)
      PROVE  StealInv'
  BY <1>15, CancelMoves, <1>f, Agents DEF Moves
<1>16. ASSUME NEW t \in Task, Steal(t) PROVE StealInv'
  <2>0. SUFFICES ASSUME TwoCpus, NEW s \in Task, NEW x \in Work, NEW k \in CPU,
                        pc'[s] = "steal", wrk'[s] = x, cpu'[s] = k
                 PROVE  Guarded(s, x, k)'
    BY DEF StealInv
  <2>1. /\ Moves(t, {"steal"}, {"waiton", "grab", "deltimer"}) /\ UNCHANGED <<data, wrk, cpu>>
        /\ wrk[t] \in Work /\ cpu[t] \in CPU /\ lock[cpu[t]] = t
    BY <1>16, <1>0, StealMoves, Agents DEF Steal, AgentInv, CancelPlace, TaskInv
  <2>s. s # t /\ Guarded(s, x, k) /\ lock[k] = s /\ at'[s] = at[s] /\ pc[s] = "steal" /\ cpu[s] = k
    BY <1>s, <2>0, <2>1, Agents DEF Moves
  <2>b. \A u \in Task : Before(u, x, k) => Before(u, x, k)'
    BY <2>1, Agents DEF Moves, Mover, Before
  <2>2. CASE worklist' = worklist
    BY <2>1, <2>2, <2>s, <2>b DEF Guarded, Listed
  <2>3. CASE StillThere(t)
    <3>1. pc'[t] = "waiton" /\ worklist' = [c \in CPU |-> RemoveFirst(worklist[c], wrk[t])]
      BY <1>16, <1>t, <2>3, Agents DEF Steal, Goto
    <3>2. CASE x = wrk[t]
      <4>1. cpu[t] # k
        BY <2>1, <2>s
      <4>2. data[x] = cpu[t]
        BY <2>3, <3>2 DEF StillThere
      <4>3. Before(t, x, k)'
        BY <2>1, <3>1, <3>2 DEF Before
      <4> QED
        BY <2>1, <4>1, <4>2, <4>3 DEF Guarded
    <3>3. CASE x # wrk[t]
      <4>1. \A c \in CPU : Listed(c, x) => Listed(c, x)'
        <5>1. \A c \in CPU : In(x, worklist[c]) => In(x, RemoveFirst(worklist[c], wrk[t]))
          BY <1>t, <3>3, RemoveFacts
        <5> QED
          BY <3>1, <5>1 DEF Listed
      <4> QED
        BY <2>1, <2>s, <2>b, <4>1 DEF Guarded
    <3> QED
      BY <3>2, <3>3
  <2> QED
    BY <1>16, <2>2, <2>3 DEF Steal
<1>17. ASSUME NEW t \in Task, flush_cpu_workqueue(t) PROVE StealInv'
  <2>1. /\ pc[t] = "flush" /\ cpu[t] \in CPU /\ kind[t] \in {"flush", "cleanup"} /\ Free(cpu[t])
        /\ UNCHANGED <<pending, data, timer, current_work, lock, stack, should_stop, online, load,
                       wrk, kind, at, owed>>
        /\ \/ /\ Busy(cpu[t]) /\ Inserts(t, Append(worklist[cpu[t]], t))
              /\ pc' = [pc EXCEPT ![t] = "flushwait"]
           \/ /\ ~Busy(cpu[t]) /\ Advances(t, "flush", "flushed")
              /\ UNCHANGED <<worklist, state, done>>
    BY <1>17, FlushCpuEffect
  <2>0. SUFFICES ASSUME TwoCpus, NEW s \in Task, NEW x \in Work, NEW k \in CPU,
                        pc'[s] = "steal", wrk'[s] = x, cpu'[s] = k
                 PROVE  Guarded(s, x, k)'
    BY DEF StealInv
  <2>2. Moves(t, {"flush"}, {"flush", "flushed", "flushwait"})
    BY <1>17, FlushCpuWorkqueueMoves
  <2>s. s # t /\ Guarded(s, x, k) /\ lock[k] = s /\ at'[s] = at[s] /\ pc[s] = "steal" /\ cpu[s] = k
    BY <1>s, <2>0, <2>2, Agents DEF Moves
  <2>b. \A u \in Task : Before(u, x, k) => Before(u, x, k)'
    BY <2>2, Agents DEF Moves, Mover, Before
  <2>4. \A c \in CPU : Listed(c, x) => Listed(c, x)'
    <3> DEFINE r == Append(worklist[cpu[t]], t)
    <3>1. worklist' = worklist \/ worklist' = [worklist EXCEPT ![cpu[t]] = r]
      BY <2>1 DEF Inserts
    <3>2. \A y : In(y, worklist[cpu[t]]) => In(y, r)
      BY <1>t, <2>1, Agents, AppendFacts
    <3> HIDE DEF r
    <3>3. cpu[t] \in CPU
      BY <2>1
    <3>4. CASE worklist' = [worklist EXCEPT ![cpu[t]] = r]
      BY <1>t, <3>2, <3>3, <3>4 DEF Listed
    <3>5. CASE worklist' = worklist
      BY <3>5 DEF Listed
    <3> QED
      BY <3>1, <3>4, <3>5
  <2> QED
    BY <2>1, <2>s, <2>b, <2>4 DEF Guarded
<1>18. ASSUME NEW t \in Task, FlushWait(t) PROVE StealInv'
  BY <1>18, FlushWaitMoves, <1>f, Agents DEF Moves
<1>19. ASSUME NEW t \in Task, FlushReturns(t) PROVE StealInv'
  BY <1>19, FlushReturnsMoves, <1>f, Agents DEF Moves
<1>20. ASSUME NEW t \in Task, DelTimer(t) PROVE StealInv'
  BY <1>20, DelTimerMoves, <1>f, Agents DEF Moves
<1>21. ASSUME NEW t \in Task, Grab(t) PROVE StealInv'
  BY <1>21, GrabMoves, <1>f, Agents DEF Moves
<1>22. ASSUME NEW t \in Task, GetCwq(t) PROVE StealInv'
  BY <1>22, GetCwqMoves, <1>f, Agents DEF Moves
<1>23. ASSUME NEW t \in Task, LockCwq(t) PROVE StealInv'
  <2>0. SUFFICES ASSUME TwoCpus, NEW s \in Task, NEW x \in Work, NEW k \in CPU,
                        pc'[s] = "steal", wrk'[s] = x, cpu'[s] = k
                 PROVE  Guarded(s, x, k)'
    BY DEF StealInv
  <2>1. /\ Moves(t, {"lockcwq"}, {"steal", "grab", "deltimer"})
        /\ UNCHANGED <<data, worklist, wrk, cpu>>
    BY <1>23, LockCwqMoves
  <2>2. CASE s = t
    <3>1. OnList(wrk[t])
      BY <1>23, <1>t, <2>0, <2>2, Agents DEF LockCwq, Goto, Retry
    <3>2. PICK c \in CPU : Listed(c, x)
      BY <2>0, <2>1, <2>2, <3>1 DEF OnList, ToSet, Listed, In
    <3>3. data[x] = c
      BY <1>0, <2>0, <3>2 DEF DataInv, OwnData
    <3> QED
      BY <2>1, <3>2, <3>3 DEF Guarded, Listed
  <2>3. CASE s # t
    <3>1. pc[s] = "steal" /\ wrk[s] = x /\ cpu[s] = k /\ at'[s] = at[s]
      BY <2>0, <2>1, <2>3, Agents DEF Moves, Mover
    <3>2. Guarded(s, x, k)
      BY <1>0, <2>0, <3>1 DEF StealInv
    <3>b. \A u \in Task : Before(u, x, k) => Before(u, x, k)'
      BY <2>1, Agents DEF Moves, Mover, Before
    <3> QED
      BY <2>1, <3>1, <3>2, <3>b DEF Guarded, Listed
  <2> QED
    BY <2>2, <2>3
<1>24. ASSUME NEW t \in Task, wait_on_work(t) PROVE StealInv'
  <2>0. SUFFICES ASSUME TwoCpus, NEW s \in Task, NEW x \in Work, NEW k \in CPU,
                        pc'[s] = "steal", wrk'[s] = x, cpu'[s] = k
                 PROVE  Guarded(s, x, k)'
    BY DEF StealInv
  <2>1. /\ Moves(t, {"waiton"}, {"clearbit", "waitcpu"}) /\ UNCHANGED <<data, worklist, wrk>>
        /\ cpu'[t] = 1 /\ (pc'[t] = "clearbit" => data[wrk[t]] = None)
    BY <1>24, <1>t, WaitOnWorkMoves, Agents DEF wait_on_work, FirstQueue, Goto
  <2>s. s # t /\ Guarded(s, x, k) /\ lock[k] = s /\ at'[s] = at[s] /\ pc[s] = "steal" /\ cpu[s] = k
    BY <1>s, <2>0, <2>1, Agents DEF Moves
  <2>b. \A u \in Task : Before(u, x, k) => Before(u, x, k)'
    <3>1. data[x] # None
      BY <2>s, Agents DEF Guarded
    <3>2. 1 <= k
      BY CpuNumbers
    <3> QED
      BY <2>1, <3>1, <3>2, Agents DEF Moves, Mover, Before
  <2> QED
    BY <2>1, <2>s, <2>b DEF Guarded, Listed
<1>25. ASSUME NEW t \in Task, wait_on_cpu_work(t) PROVE StealInv'
  <2>1. /\ pc[t] = "waitcpu" /\ cpu[t] \in CPU /\ kind[t] \in CancelCalls /\ Free(cpu[t])
        /\ UNCHANGED <<pending, data, timer, current_work, lock, stack, should_stop, online, load,
                       wrk, kind, at, owed>>
        /\ \/ /\ current_work[cpu[t]] = wrk[t] /\ Inserts(t, <<t>> \o worklist[cpu[t]])
              /\ pc' = [pc EXCEPT ![t] = "waitwork"]
           \/ /\ current_work[cpu[t]] # wrk[t] /\ Advances(t, "waitcpu", "clearbit")
              /\ UNCHANGED <<worklist, state, done>>
    BY <1>25, WaitCpuEffect
  <2>0. SUFFICES ASSUME TwoCpus, NEW s \in Task, NEW x \in Work, NEW k \in CPU,
                        pc'[s] = "steal", wrk'[s] = x, cpu'[s] = k
                 PROVE  Guarded(s, x, k)'
    BY DEF StealInv
  <2>2. Moves(t, {"waitcpu"}, {"waitcpu", "clearbit", "waitwork"})
    BY <1>25, WaitOnCpuWorkMoves
  <2>s. s # t /\ Guarded(s, x, k) /\ lock[k] = s /\ at'[s] = at[s] /\ pc[s] = "steal" /\ cpu[s] = k
    BY <1>s, <2>0, <2>2, Agents DEF Moves
  <2>3. cpu[t] # k
    BY <2>1, <2>s, Agents DEF Free
  <2>b. \A u \in Task : Before(u, x, k) => Before(u, x, k)'
    <3>1. SUFFICES ASSUME Before(t, x, k) PROVE Before(t, x, k)'
      BY <2>2, Agents DEF Moves, Mover, Before
    <3>2. cpu[t] < k /\ cpu[t] + 1 <= k /\ ~(k <= cpu[t])
      <4>1. cpu[t] <= k
        BY <2>1, <3>1 DEF Before
      <4> QED
        BY <2>1, <2>3, <4>1, CpuNumbers
    <3>3. kind[t] # "cleanup"
      BY <2>1 DEF CancelCalls
    <3>4. \/ pc'[t] = "waitwork" /\ cpu'[t] = cpu[t]
          \/ pc'[t] = "waitcpu" /\ cpu'[t] = cpu[t] + 1
      BY <1>t, <2>1, <3>2, <3>3, Agents DEF Inserts, Advances
    <3> QED
      BY <2>1, <3>1, <3>2, <3>4 DEF Before
  <2>4. \A c \in CPU : Listed(c, x) => Listed(c, x)'
    <3> DEFINE r == <<t>> \o worklist[cpu[t]]
    <3>1. worklist' = worklist \/ worklist' = [worklist EXCEPT ![cpu[t]] = r]
      BY <2>1 DEF Inserts
    <3>2. \A y : In(y, worklist[cpu[t]]) => In(y, r)
      BY <1>t, <2>1, Agents, ConsFacts
    <3> HIDE DEF r
    <3>3. cpu[t] \in CPU
      BY <2>1
    <3>4. CASE worklist' = [worklist EXCEPT ![cpu[t]] = r]
      BY <1>t, <3>2, <3>3, <3>4 DEF Listed
    <3>5. CASE worklist' = worklist
      BY <3>5 DEF Listed
    <3> QED
      BY <3>1, <3>4, <3>5
  <2> QED
    BY <2>1, <2>s, <2>b, <2>4 DEF Guarded
<1>26. ASSUME NEW t \in Task, WorkWait(t) PROVE StealInv'
  <2>0. SUFFICES ASSUME TwoCpus, NEW s \in Task, NEW x \in Work, NEW k \in CPU,
                        pc'[s] = "steal", wrk'[s] = x, cpu'[s] = k
                 PROVE  Guarded(s, x, k)'
    BY DEF StealInv
  <2>1. /\ Moves(t, {"waitwork"}, {"waitcpu", "clearbit"}) /\ UNCHANGED <<data, worklist, wrk>>
        /\ cpu[t] \in CPU /\ kind[t] # "cleanup"
    BY <1>26, <1>0, WorkWaitMoves DEF WorkWait, TaskInv, CancelPlace, CancelCalls
  <2>s. s # t /\ Guarded(s, x, k) /\ lock[k] = s /\ at'[s] = at[s] /\ pc[s] = "steal" /\ cpu[s] = k
    BY <1>s, <2>0, <2>1, Agents DEF Moves
  <2>2. Advances(t, "waitcpu", "clearbit")
    BY <1>26, <2>1, NextCpuEffect DEF WorkWait
  <2>b. \A u \in Task : Before(u, x, k) => Before(u, x, k)'
    <3>1. SUFFICES ASSUME Before(t, x, k) PROVE Before(t, x, k)'
      BY <2>1, Agents DEF Moves, Mover, Before
    <3>2. cpu[t] < k /\ cpu[t] + 1 <= k /\ ~(k <= cpu[t])
      <4>1. cpu[t] < k
        BY <2>1, <3>1 DEF Before, Moves
      <4> QED
        BY <2>1, <4>1, CpuNumbers
    <3>3. pc'[t] = "waitcpu" /\ cpu'[t] = cpu[t] + 1
      BY <1>t, <2>1, <2>2, <3>2, Agents DEF Advances
    <3> QED
      BY <2>1, <3>1, <3>2, <3>3 DEF Before
  <2> QED
    BY <2>1, <2>s, <2>b DEF Guarded, Listed
<1>27. ASSUME NEW t \in Task, ClearBit(t) PROVE StealInv'
  BY <1>27, ClearBitMoves, <1>f, Agents DEF Moves
<1>28. ASSUME NEW t \in Task, kthread_stop(t) PROVE StealInv'
  BY <1>28, KthreadStopMoves, <1>f, Agents DEF Moves
<1>29. ASSUME NEW t \in Task, Stopped(t) PROVE StealInv'
  BY <1>29, StoppedMoves, <1>f, Agents DEF Moves
<1> QED
  BY <1>1, <1>2, <1>3, <1>4, <1>5, <1>6, <1>7, <1>8, <1>9, <1>10, <1>11, <1>12, <1>13, <1>14,
     <1>15, <1>16, <1>17, <1>18, <1>19, <1>20, <1>21, <1>22, <1>23, <1>24, <1>25, <1>26, <1>27,
     <1>28, <1>29, NextCases

\* The queues that a canceller has passed do not run the work again.
LEMMA PassedStep ==
  ASSUME IInv, Next
  PROVE  PassedInv'
<1>0. PassedInv /\ OwnerInv /\ DataInv /\ CurrentInv /\ BarrierInv /\ TaskInv /\ AgentInv /\ WorkerInv
  BY DEF IInv
<1>t. /\ pc \in [Agent -> Place] /\ cpu \in [Agent -> CPU \cup {None}]
      /\ wrk \in [Agent -> Work \cup {None}]
      /\ kind \in [Task -> Calls \cup {"none", "flush", "cleanup"}]
      /\ done \in [Task -> BOOLEAN] /\ stack \in [CPU -> Seq(Item)]
  BY DEF IInv, TypeOK, TaskInv
<1>p. ASSUME TwoCpus, Flat, NEW s \in Task, NEW k \in CPU, Passed(s, k)
      PROVE  ~In(wrk[s], stack[k])
  BY <1>0, <1>p DEF PassedInv
<1>q. ASSUME Flat, NEW c \in CPU, NEW x, In(x, stack[c])
      PROVE  x = current_work[c] /\ x = Last(stack[c])
  <2>1. PICK m \in 1..Len(stack[c]) : stack[c][m] = x
    BY <1>q DEF In
  <2>2. stack[c] \in Seq(Item) /\ Len(stack[c]) \in Nat /\ stack[c] # <<>>
    BY <1>t, <2>1
  <2>3. Len(stack[c]) = 1 /\ current_work[c] = stack[c][1]
    BY <1>0, <1>q, <2>2 DEF CurrentInv
  <2> QED
    BY <2>1, <2>3 DEF Last
<1>f. ASSUME NEW a \in Agent, Mover(a), UNCHANGED <<stack, done>>,
             pc'[a] \notin {"waitcpu", "waitwork", "clearbit"}
      PROVE  PassedInv'
  <2>0. SUFFICES ASSUME TwoCpus, Flat, NEW s \in Task, NEW k \in CPU, Passed(s, k)'
                 PROVE  ~In(wrk'[s], stack'[k])
    BY DEF PassedInv
  <2>1. s # a /\ Passed(s, k) /\ wrk'[s] = wrk[s]
    BY <1>f, <2>0, Agents DEF Mover, Passed
  <2> QED
    BY <1>f, <1>p, <2>0, <2>1
<1>1. ASSUME NEW a \in Agent, NEW w \in load.works, queue_work(a, w) PROVE PassedInv'
  BY <1>1, QueueWorkMoves, <1>f, Agents DEF Moves
<1>2. ASSUME NEW a \in Agent, NEW w \in load.works, queue_delayed_work(a, w) PROVE PassedInv'
  BY <1>2, QueueDelayedWorkMoves, <1>f, Agents DEF Moves
<1>3. ASSUME NEW a \in Agent, SetWqData(a) PROVE PassedInv'
  BY <1>3, SetWqDataMoves, <1>f, Agents DEF Moves
<1>4. ASSUME NEW a \in Agent, ListAdd(a) PROVE PassedInv'
  BY <1>4, ListAddMoves, <1>f, Agents DEF Moves
<1>5. ASSUME NEW a \in Agent, SetWqDataUnlocked(a) PROVE PassedInv'
  BY <1>5, SetWqDataUnlockedMoves, <1>f, Agents DEF Moves
<1>6. ASSUME NEW a \in Agent, AddTimer(a) PROVE PassedInv'
  BY <1>6, AddTimerMoves, <1>f, Agents DEF Moves
<1>7. ASSUME NEW w \in Work, delayed_work_timer_fn(w) PROVE PassedInv'
  BY <1>7, DelayedWorkTimerFnMoves, <1>f, Agents DEF Moves
<1>8. ASSUME NEW c \in CPU, RunsOn(c) # {}, prepare_to_wait(c) PROVE PassedInv'
  BY <1>8, PrepareToWaitMoves, <1>f, Agents DEF Moves
<1>9. ASSUME NEW c \in CPU, RunsOn(c) # {}, TestList(c) PROVE PassedInv'
  BY <1>9, TestListMoves, <1>f, Agents DEF Moves
<1>10. ASSUME NEW c \in CPU, RunsOn(c) # {}, StopCheck(c) PROVE PassedInv'
  BY <1>10, StopCheckMoves, <1>f, Agents DEF Moves
<1>11. ASSUME NEW c \in CPU, RunsOn(c) # {}, Take(c) PROVE PassedInv'
  <2>1. PICK stk \in Seq(Item), i \in Item \cup {None} :
          /\ Leaves(c, stk, i)
          /\ TakesNone(c, stk) \/ \E h \in Item, s \in Seq(Item) : Takes(c, stk, h, s)
    BY <1>11, TakeEffect
  <2>2. /\ pc[c] \in {"run", "func", "end"} /\ Free(c)
        /\ UNCHANGED <<lock, state, should_stop, online, load, wrk, cpu, kind, at, done, pending, data,
                       timer>>
    BY <1>11, TakeEffect DEF works, env
  <2>3. CASE TakesNone(c, stk)
    <3>0. SUFFICES ASSUME TwoCpus, Flat, NEW s \in Task, NEW k \in CPU, Passed(s, k)'
                   PROVE  ~In(wrk'[s], stack'[k])
      BY DEF PassedInv
    <3>1. Moves(c, {"run", "func", "end"}, {"prepare", "func", "clear"}) /\ UNCHANGED <<wrk, cpu, done, kind>>
      BY <1>11, TakeMoves
    <3>2. Passed(s, k) /\ wrk'[s] = wrk[s]
      BY <3>0, <3>1, Agents DEF Moves, Mover, Passed
    <3>3. In(wrk[s], stack'[k]) /\ wrk[s] \in Item => In(wrk[s], stack[k])
      BY <1>t, <2>1, <2>3 DEF TakesNone, Leaves
    <3>4. wrk[s] \in Item
      BY <1>0, <3>2, Agents DEF Passed, AgentInv, CancelPlace
    <3> QED
      BY <1>p, <3>0, <3>2, <3>3, <3>4
  <2>4. ASSUME NEW h \in Item, NEW rest \in Seq(Item), Takes(c, stk, h, rest)
        PROVE  PassedInv'
    <3>1. PICK r \in Seq(Item) :
            /\ stack' = [stack EXCEPT ![c] = r]
            /\ r # <<>> /\ Last(r) = h /\ Len(r) = Len(stk) + 1
            /\ stk = <<>> => r[1] = h
            /\ \A x : In(x, r) <=> In(x, stk) \/ x = h
      BY <2>4 DEF Takes
    <3>0. SUFFICES ASSUME TwoCpus, Flat, NEW s \in Task, NEW k \in CPU, Passed(s, k)'
                   PROVE  ~In(wrk'[s], stack'[k])
      BY DEF PassedInv
    <3>m. Moves(c, {"run", "func", "end"}, {"prepare", "func", "clear"}) /\ UNCHANGED <<wrk, cpu, done, kind>>
      BY <1>11, TakeMoves
    <3>2. Passed(s, k) /\ wrk'[s] = wrk[s]
      BY <3>0, <3>m, Agents DEF Moves, Mover, Passed
    <3>4. wrk[s] \in Work /\ wrk[s] \in Item
      BY <1>0, <3>2, Agents DEF Passed, AgentInv, CancelPlace
    <3>5. Holds(s, wrk[s]) /\ OneOwner(wrk[s])
      BY <1>0, <3>0, <3>2, <3>4 DEF Passed, Holds, HolderPlace, OwnerInv
    <3>6. ~Listed(c, wrk[s])
      BY <3>5, Agents DEF OneOwner
    <3>7. wrk[s] # h
      BY <2>4, <3>6 DEF Takes, Listed
    <3>3. In(wrk[s], stack'[k]) => In(wrk[s], stack[k])
      BY <1>t, <2>1, <3>1, <3>4, <3>7 DEF Leaves
    <3> QED
      BY <1>p, <3>0, <3>2, <3>3
  <2> QED
    BY <2>1, <2>3, <2>4
<1>12. ASSUME NEW c \in CPU, RunsOn(c) # {}, CallFunc(c) PROVE PassedInv'
  <2>0. SUFFICES ASSUME TwoCpus, Flat, NEW s \in Task, NEW k \in CPU, Passed(s, k)'
                 PROVE  ~In(wrk'[s], stack'[k])
    BY DEF PassedInv
  <2>1. Moves(c, {"clear"}, {"func", "end"}) /\ UNCHANGED <<wrk, cpu, stack, kind>>
    BY <1>12, CallFuncMoves
  <2>2. done' = done \/ done' = [done EXCEPT ![Last(stack[c])] = TRUE]
    BY <1>12 DEF CallFunc
  <2>3. CASE Passed(s, k)
    BY <1>p, <2>0, <2>1, <2>3
  <2>4. CASE ~Passed(s, k)
    <3>1. pc[s] = "waitwork" /\ k = cpu[s] /\ s = Last(stack[c]) /\ pc[c] = "clear"
      BY <1>t, <2>0, <2>1, <2>2, <2>4, Agents DEF Moves, Mover, Passed
    <3>2. Clearing(c, s)
      BY <3>1 DEF Clearing
    <3>3. k = c
      BY <1>0, <3>1, <3>2 DEF BarrierInv
    <3>4. wrk[s] \in Work /\ wrk[s] # s
      BY <1>0, <3>1, Agents DEF AgentInv, CancelPlace
    <3> QED
      BY <1>q, <2>0, <2>1, <3>1, <3>3, <3>4
  <2> QED
    BY <2>3, <2>4
<1>13. ASSUME NEW t \in Task, flush_workqueue(t) PROVE PassedInv'
  BY <1>13, FlushWorkqueueMoves, <1>f, Agents DEF Moves
<1>14. ASSUME NEW t \in Task, NEW c \in CPU, CpuDead(t, c) PROVE PassedInv'
  BY <1>14, CpuDeadMoves, <1>f, Agents DEF Moves
<1>15. ASSUME NEW t \in Task, NEW w \in load.works, NEW k \in CancelCalls, Cancel(t, w, k)
      PROVE  PassedInv'
  BY <1>15, CancelMoves, <1>f, Agents DEF Moves
<1>16. ASSUME NEW t \in Task, Steal(t) PROVE PassedInv'
  BY <1>16, StealMoves, <1>f, Agents DEF Moves
<1>17. ASSUME NEW t \in Task, flush_cpu_workqueue(t) PROVE PassedInv'
  <2>1. /\ pc[t] = "flush" /\ cpu[t] \in CPU /\ kind[t] \in {"flush", "cleanup"} /\ Free(cpu[t])
        /\ UNCHANGED <<pending, data, timer, current_work, lock, stack, should_stop, online, load,
                       wrk, kind, at, owed>>
        /\ \/ /\ Busy(cpu[t]) /\ Inserts(t, Append(worklist[cpu[t]], t))
              /\ pc' = [pc EXCEPT ![t] = "flushwait"]
           \/ /\ ~Busy(cpu[t]) /\ Advances(t, "flush", "flushed")
              /\ UNCHANGED <<worklist, state, done>>
    BY <1>17, FlushCpuEffect
  <2>0. SUFFICES ASSUME TwoCpus, Flat, NEW s \in Task, NEW k \in CPU, Passed(s, k)'
                 PROVE  ~In(wrk'[s], stack'[k])
    BY DEF PassedInv
  <2>2. Moves(t, {"flush"}, {"flush", "flushed", "flushwait"})
    BY <1>17, FlushCpuWorkqueueMoves
  <2>3. done' = done \/ done' = [done EXCEPT ![t] = FALSE]
    BY <2>1 DEF Inserts
  <2>4. Passed(s, k)
    BY <1>t, <2>0, <2>2, <2>3, <2>1, Agents DEF Moves, Mover, Passed
  <2> QED
    BY <1>p, <2>0, <2>1, <2>4
<1>18. ASSUME NEW t \in Task, FlushWait(t) PROVE PassedInv'
  BY <1>18, FlushWaitMoves, <1>f, Agents DEF Moves
<1>19. ASSUME NEW t \in Task, FlushReturns(t) PROVE PassedInv'
  BY <1>19, FlushReturnsMoves, <1>f, Agents DEF Moves
<1>20. ASSUME NEW t \in Task, DelTimer(t) PROVE PassedInv'
  <2>0. SUFFICES ASSUME TwoCpus, Flat, NEW s \in Task, NEW k \in CPU, Passed(s, k)'
                 PROVE  ~In(wrk'[s], stack'[k])
    BY DEF PassedInv
  <2>1. Moves(t, {"deltimer"}, {"idle", "clearbit", "waiton", "grab"}) /\ UNCHANGED <<stack, done>>
    BY <1>20, DelTimerMoves
  <2>2. pc'[t] = "clearbit" => kind'[t] = "cancel_delayed_work"
    BY <1>20, <1>t, Agents DEF DelTimer, Goto, Return, Outside
  <2>3. s # t
    BY <2>0, <2>1, <2>2 DEF Passed, Moves
  <2>4. Passed(s, k) /\ wrk'[s] = wrk[s]
    BY <2>0, <2>1, <2>3, Agents DEF Moves, Mover, Passed
  <2> QED
    BY <1>p, <2>0, <2>1, <2>4
<1>21. ASSUME NEW t \in Task, Grab(t) PROVE PassedInv'
  BY <1>21, GrabMoves, <1>f, Agents DEF Moves
<1>22. ASSUME NEW t \in Task, GetCwq(t) PROVE PassedInv'
  BY <1>22, GetCwqMoves, <1>f, Agents DEF Moves
<1>23. ASSUME NEW t \in Task, LockCwq(t) PROVE PassedInv'
  BY <1>23, LockCwqMoves, <1>f, Agents DEF Moves
<1>24. ASSUME NEW t \in Task, wait_on_work(t) PROVE PassedInv'
  <2>0. SUFFICES ASSUME TwoCpus, Flat, NEW s \in Task, NEW k \in CPU, Passed(s, k)'
                 PROVE  ~In(wrk'[s], stack'[k])
    BY DEF PassedInv
  <2>1. /\ Moves(t, {"waiton"}, {"clearbit", "waitcpu"}) /\ UNCHANGED <<stack, done, wrk, kind, data>>
        /\ cpu'[t] = 1 /\ (pc'[t] = "clearbit" => data[wrk[t]] = None)
    BY <1>24, <1>t, WaitOnWorkMoves, Agents DEF wait_on_work, FirstQueue, Goto
  <2>2. CASE s # t
    <3>1. Passed(s, k)
      BY <2>0, <2>1, <2>2, Agents DEF Moves, Mover, Passed
    <3> QED
      BY <1>p, <2>0, <2>1, <3>1
  <2>3. CASE s = t
    <3>1. ~(k < 1)
      BY CpuNumbers
    <3>2. pc'[t] = "clearbit"
      BY <2>0, <2>1, <2>3, <3>1 DEF Passed, Moves
    <3>3. wrk[t] \in Work
      BY <1>0, <2>1, Agents DEF Moves, AgentInv, CancelPlace
    <3>4. OwnData(wrk[t])
      BY <1>0, <2>0, <3>3 DEF DataInv
    <3> QED
      BY <2>1, <2>3, <3>2, <3>4 DEF OwnData
  <2> QED
    BY <2>2, <2>3
<1>25. ASSUME NEW t \in Task, wait_on_cpu_work(t) PROVE PassedInv'
  <2>1. /\ pc[t] = "waitcpu" /\ cpu[t] \in CPU /\ kind[t] \in CancelCalls /\ Free(cpu[t])
        /\ UNCHANGED <<pending, data, timer, current_work, lock, stack, should_stop, online, load,
                       wrk, kind, at, owed>>
        /\ \/ /\ current_work[cpu[t]] = wrk[t] /\ Inserts(t, <<t>> \o worklist[cpu[t]])
              /\ pc' = [pc EXCEPT ![t] = "waitwork"]
           \/ /\ current_work[cpu[t]] # wrk[t] /\ Advances(t, "waitcpu", "clearbit")
              /\ UNCHANGED <<worklist, state, done>>
    BY <1>25, WaitCpuEffect
  <2>0. SUFFICES ASSUME TwoCpus, Flat, NEW s \in Task, NEW k \in CPU, Passed(s, k)'
                 PROVE  ~In(wrk'[s], stack'[k])
    BY DEF PassedInv
  <2>2. Moves(t, {"waitcpu"}, {"waitcpu", "clearbit", "waitwork"})
    BY <1>25, WaitOnCpuWorkMoves
  <2>3. CASE s # t
    <3>1. done'[s] = done[s]
      BY <1>t, <2>1, <2>3 DEF Inserts
    <3>2. Passed(s, k)
      BY <2>0, <2>1, <2>2, <2>3, <3>1, Agents DEF Moves, Mover, Passed
    <3> QED
      BY <1>p, <2>0, <2>1, <3>2
  <2>4. CASE s = t /\ current_work[cpu[t]] = wrk[t] /\ Inserts(t, <<t>> \o worklist[cpu[t]])
                 /\ pc' = [pc EXCEPT ![t] = "waitwork"]
    <3>1. pc'[t] = "waitwork" /\ cpu'[t] = cpu[t] /\ ~done'[t]
      BY <1>t, <2>4, Agents DEF Inserts
    <3>2. k < cpu[t]
      BY <2>0, <2>4, <3>1 DEF Passed
    <3>3. Passed(t, k)
      BY <2>1, <3>2 DEF Passed
    <3> QED
      BY <1>p, <2>0, <2>1, <2>4, <3>3
  <2>5. CASE s = t /\ current_work[cpu[t]] # wrk[t] /\ Advances(t, "waitcpu", "clearbit")
    <3>1. k <= cpu[t]
      <4>1. kind[t] # "cleanup"
        BY <2>1 DEF CancelCalls
      <4>2. CASE pc'[t] = "waitcpu" /\ cpu'[t] = cpu[t] + 1
        BY <2>0, <2>1, <2>5, <4>2, CpuNumbers DEF Passed
      <4> QED
        BY <1>t, <2>5, <4>1, <4>2, Agents DEF Advances
    <3>2. CASE k = cpu[t]
      BY <1>q, <2>0, <2>1, <2>5, <3>2
    <3>3. CASE k < cpu[t]
      <4>1. Passed(t, k)
        BY <2>1, <3>3 DEF Passed
      <4> QED
        BY <1>p, <2>0, <2>1, <2>5, <4>1
    <3> QED
      BY <2>1, <3>1, <3>2, <3>3, CpuNumbers
  <2> QED
    BY <2>1, <2>3, <2>4, <2>5
<1>26. ASSUME NEW t \in Task, WorkWait(t) PROVE PassedInv'
  <2>0. SUFFICES ASSUME TwoCpus, Flat, NEW s \in Task, NEW k \in CPU, Passed(s, k)'
                 PROVE  ~In(wrk'[s], stack'[k])
    BY DEF PassedInv
  <2>1. /\ Moves(t, {"waitwork"}, {"waitcpu", "clearbit"}) /\ UNCHANGED <<stack, done, wrk, kind>>
        /\ cpu[t] \in CPU /\ kind[t] # "cleanup" /\ pc[t] = "waitwork" /\ done[t]
    BY <1>26, <1>0, WorkWaitMoves DEF WorkWait, BarrierDone, TaskInv, CancelPlace, CancelCalls
  <2>2. Advances(t, "waitcpu", "clearbit")
    BY <1>26, <2>1, NextCpuEffect DEF WorkWait
  <2>3. CASE s # t
    <3>1. Passed(s, k)
      BY <2>0, <2>1, <2>3, Agents DEF Moves, Mover, Passed
    <3> QED
      BY <1>p, <2>0, <2>1, <3>1
  <2>4. CASE s = t
    <3>1. k <= cpu[t]
      <4>2. CASE pc'[t] = "waitcpu" /\ cpu'[t] = cpu[t] + 1
        BY <2>0, <2>1, <2>4, <4>2, CpuNumbers DEF Passed
      <4> QED
        BY <1>t, <2>1, <2>2, <4>2, Agents DEF Advances
    <3>2. k = cpu[t] \/ k < cpu[t]
      BY <2>1, <3>1, CpuNumbers
    <3>3. Passed(t, k)
      BY <2>1, <3>2 DEF Passed
    <3> QED
      BY <1>p, <2>0, <2>1, <2>4, <3>3
  <2> QED
    BY <2>3, <2>4
<1>27. ASSUME NEW t \in Task, ClearBit(t) PROVE PassedInv'
  BY <1>27, ClearBitMoves, <1>f, Agents DEF Moves
<1>28. ASSUME NEW t \in Task, kthread_stop(t) PROVE PassedInv'
  BY <1>28, KthreadStopMoves, <1>f, Agents DEF Moves
<1>29. ASSUME NEW t \in Task, Stopped(t) PROVE PassedInv'
  BY <1>29, StoppedMoves, <1>f, Agents DEF Moves
<1> QED
  BY <1>1, <1>2, <1>3, <1>4, <1>5, <1>6, <1>7, <1>8, <1>9, <1>10, <1>11, <1>12, <1>13, <1>14,
     <1>15, <1>16, <1>17, <1>18, <1>19, <1>20, <1>21, <1>22, <1>23, <1>24, <1>25, <1>26, <1>27,
     <1>28, <1>29, NextCases

-----------------------------------------------------------------------------
(* The invariant *)

\* Nothing is queued, armed or called at the beginning.
LEMMA InitIInv == Init => IInv
<1> SUFFICES ASSUME Init PROVE IInv
  OBVIOUS
<1>0. /\ worklist = [c \in CPU |-> <<>>] /\ stack = [c \in CPU |-> <<>>]
      /\ current_work = [c \in CPU |-> None] /\ lock = [c \in CPU |-> None]
      /\ pc = [a \in Agent |-> IF a \in CPU THEN "prepare" ELSE "idle"]
      /\ timer = {} /\ online = CPU
  BY DEF Init
<1>1. \A c \in CPU : pc[c] = "prepare"
  BY <1>0, Agents
<1>2. \A t \in Task \cup Work : pc[t] = "idle"
  BY <1>0, Agents
<1>3. \A a \in Agent : pc[a] \in {"prepare", "idle"}
  BY <1>0
<1>4. \A c \in CPU : \A x : ~Listed(c, x) /\ ~Clearing(c, x) /\ ~In(x, stack[c]) /\ Once(x, worklist[c])
  BY <1>0, <1>1 DEF Listed, Clearing, In, Once
<1>5. TypeOK
  <2>1. PlaceOK
    BY <1>0 DEF PlaceOK, Place
  <2>2. ListOK
    BY <1>0 DEF ListOK
  <2>3. FieldOK
    BY <1>0 DEF Init, FieldOK
  <2> QED
    BY <2>1, <2>2, <2>3, TypeParts
<1>6. WorkerInv
  BY <1>0, <1>1 DEF WorkerInv, InsertPlace
<1>7. TaskInv
  BY <1>2 DEF Init, TaskInv, InsertPlace, FlushPlace, CancelPlace
<1>8. AgentInv
  <2>1. load.works \subseteq Work
    <3>1. PICK l \in Workload, W \in SUBSET Work : load = [l EXCEPT !.works = W]
      BY DEF Init
    <3>2. l \in [ops : SUBSET Calls, rearms : BOOLEAN, works : Nat]
      BY WorkqueueAssumption
    <3> QED
      BY <3>1, <3>2
  <2> QED
    BY <1>2, <1>3, <2>1 DEF AgentInv, InsertPlace, CancelPlace
<1>9. OwedOK /\ CurrentInv
  BY <1>0 DEF Init, OwedOK, CurrentInv
<1>10. BarrierInv
  BY <1>4 DEF BarrierInv
<1>11. SleepInv
  <2>1. WakeInv
    BY <1>1 DEF Init, WakeInv
  <2>2. CleanupInv
    BY <1>0 DEF Init, CleanupInv
  <2> QED
    BY <2>1, <2>2 DEF SleepInv
<1>12. FlushInv
  BY DEF Init, FlushInv, OwedInv
<1>13. \A a \in Agent, w \in Work : ~Holds(a, w)
  BY <1>3 DEF Holds, HolderPlace, InsertPlace
<1>14. OwnerInv
  BY <1>4, <1>13 DEF Init, OwnerInv, OneOwner
<1>15. DataInv
  BY <1>3, <1>4 DEF DataInv, OwnData
<1>16. StealInv /\ PassedInv
  BY <1>2 DEF StealInv, PassedInv, Passed
<1> QED
  BY <1>5, <1>6, <1>7, <1>8, <1>9, <1>10, <1>11, <1>12, <1>14, <1>15, <1>16 DEF IInv

\* Steps of the rest of the kernel.
LEMMA StutterIInv == IInv /\ UNCHANGED vars => IInv'
<1> SUFFICES ASSUME IInv, UNCHANGED vars PROVE IInv'
  OBVIOUS
<1>0. UNCHANGED <<pending, data, timer, worklist, current_work, lock, stack, state, should_stop,
                  online, load, pc, wrk, cpu, kind, at, done, owed>>
  BY DEF vars, works, cwq, worker, env
<1>1. TypeOK' /\ WorkerInv' /\ TaskInv' /\ AgentInv' /\ OwedOK' /\ CurrentInv'
  BY <1>0 DEF IInv, TypeOK, WorkerInv, TaskInv, AgentInv, OwedOK, CurrentInv
<1>2. BarrierInv' /\ SleepInv'
  BY <1>0 DEF IInv, BarrierInv, Listed, Clearing, SleepInv, WakeInv, CleanupInv, Drained
<1>3. FlushInv'
  BY <1>0 DEF IInv, FlushInv, OwedInv, Listed
<1>4. OwnerInv' /\ DataInv'
  BY <1>0 DEF IInv, OwnerInv, OneOwner, DataInv, OwnData, Listed, Clearing, Holds
<1>5. StealInv' /\ PassedInv'
  BY <1>0 DEF IInv, StealInv, Guarded, Before, Listed, PassedInv, Passed
<1> QED
  BY <1>1, <1>2, <1>3, <1>4, <1>5 DEF IInv

\* The invariant holds in every reachable state.
LEMMA Invariance == Spec => []IInv
<1>1. IInv /\ Next => IInv'
  <2> SUFFICES ASSUME IInv, Next PROVE IInv'
    OBVIOUS
  <2>1. TypeOK'
    BY PlaceStep, ListStep, FieldStep, TypeParts
  <2> QED
    BY <2>1, WorkerStep, TaskStep, AgentStep, OwedStep, CurrentStep, BarrierStep, SleepStep,
       FlushStep, OwnerStep, DataStep, StealStep, PassedStep DEF IInv
<1> QED
  BY <1>1, InitIInv, StutterIInv, PTL DEF Spec

-----------------------------------------------------------------------------
(* Theorems *)

\* Types, for any number of CPUs, tasks and works.
THEOREM WorkqueueTypes == Spec => []TypeOK
<1>1. IInv => TypeOK
  BY DEF IInv
<1> QED
  BY <1>1, Invariance, PTL

\* The worker never sleeps in front of a work or a barrier, although it tests
\* its list without cwq->lock, nor after kthread_stop(); and the worker of a
\* CPU that is going down exits only when flush_cpu_workqueue() of the cleanup
\* and the barriers of others have left its list empty.
THEOREM WorkqueueNoLostWakeup == Spec => []NoLostWakeup
<1>1. IInv => NoLostWakeup
  <2> SUFFICES ASSUME IInv, NEW c \in CPU
               PROVE  /\ pc[c] = "sched" /\ state[c] = "INTERRUPTIBLE" =>
                           worklist[c] = <<>> /\ ~should_stop[c]
                      /\ pc[c] = "exit" => worklist[c] = <<>>
    BY DEF NoLostWakeup
  <2>1. pc[c] = "exit" => current_work[c] = None
    BY DEF IInv, WorkerInv, InsertPlace
  <2> QED
    BY <2>1 DEF IInv, SleepInv, WakeInv, Drained
<1> QED
  BY <1>1, Invariance, PTL

\* flush_workqueue() returns only when every work that was queued or running
\* when it was called, on any of the queues, has been run or cancelled, as long
\* as no work function nests run_workqueue() in itself.
THEOREM WorkqueueFlushComplete == Spec => [](Flat => FlushComplete)
<1>1. IInv => (Flat => FlushComplete)
  BY DEF IInv, FlushInv, OwedInv, FlushComplete
<1> QED
  BY <1>1, Invariance, PTL

\* ToSet(), Last() and Cardinality() in terms of the invariant.
LEMMA ListedOwners ==
  ASSUME IInv
  PROVE  /\ \A c \in CPU : \A x : x \in ToSet(worklist[c]) <=> Listed(c, x)
         /\ \A c \in CPU : \A x : x \in ToSet(stack[c]) <=> In(x, stack[c])
<1>1. \A c \in CPU : worklist[c] \in Seq(Item) /\ stack[c] \in Seq(Item)
  BY DEF IInv, TypeOK
<1> QED
  BY <1>1 DEF ToSet, Listed, In

\* WORK_STRUCT_PENDING has exactly one owner while it is set, whoever queues,
\* runs, re-queues, cancels and times the work out, with one or two CPUs.
THEOREM WorkqueuePendingOwned == Spec => [](TwoCpus => PendingOwned)
<1>1. IInv => (TwoCpus => PendingOwned)
  <2> SUFFICES ASSUME IInv, TwoCpus, NEW w \in Work
               PROVE  Cardinality(Owners(w)) = IF pending[w] THEN 1 ELSE 0
    BY DEF PendingOwned
  <2>1. OneOwner(w)
    BY DEF IInv, OwnerInv
  <2>2. \A o : o \in Owners(w) <=>
               \/ o \in Agent /\ Holds(o, w)
               \/ \E c \in CPU : o = <<"list", c>> /\ Listed(c, w)
               \/ \E c \in CPU : o = <<"clear", c>> /\ Clearing(c, w)
               \/ o = <<"timer", w>> /\ w \in timer
    BY ListedOwners DEF Owners, Holds, HolderPlace, InsertPlace, Clearing
  <2> HIDE DEF Owners
  <2>3. CASE ~pending[w]
    <3>1. Owners(w) = {}
      BY <2>1, <2>2, <2>3 DEF OneOwner
    <3> QED
      BY <2>3, <3>1, FS_EmptySet
  <2>4. CASE pending[w]
    <3>1. \E o : Owners(w) = {o}
      <4>1. ASSUME NEW a \in Agent, Holds(a, w) PROVE Owners(w) = {a}
        BY <2>1, <2>2, <4>1 DEF OneOwner
      <4>2. ASSUME NEW c \in CPU, Listed(c, w) PROVE Owners(w) = {<<"list", c>>}
        BY <2>1, <2>2, <4>2 DEF OneOwner
      <4>3. ASSUME NEW c \in CPU, Clearing(c, w) PROVE Owners(w) = {<<"clear", c>>}
        BY <2>1, <2>2, <4>3 DEF OneOwner
      <4>4. ASSUME w \in timer PROVE Owners(w) = {<<"timer", w>>}
        BY <2>1, <2>2, <4>4 DEF OneOwner
      <4> QED
        BY <2>1, <2>4, <4>1, <4>2, <4>3, <4>4 DEF OneOwner
    <3> QED
      BY <2>4, <3>1, FS_Singleton
  <2> QED
    BY <2>3, <2>4
<1> QED
  BY <1>1, Invariance, PTL

\* None of the BUG_ON()s is hit, and try_to_grab_pending() deletes a work only
\* from the list whose lock it holds, with one or two CPUs.
THEOREM WorkqueueNoBugOn == Spec => [](TwoCpus => NoBugOn)
<1>1. IInv => (TwoCpus => NoBugOn)
  <2> SUFFICES ASSUME IInv, TwoCpus PROVE NoBugOn
    OBVIOUS
  <2>0. \A w \in Work : OneOwner(w) /\ OwnData(w)
    BY DEF IInv, OwnerInv, DataInv
  <2>1. ASSUME NEW c \in CPU, pc[c] = "clear", Last(stack[c]) \in Work
        PROVE  data[Last(stack[c])] = c
    BY <2>0, <2>1 DEF OwnData, Clearing
  <2>2. ASSUME NEW a \in Agent, pc[a] \in {"set", "setnow", "arm"}
        PROVE  pending[wrk[a]] /\ ~OnList(wrk[a]) /\ wrk[a] \notin timer
    <3>1. wrk[a] \in Work /\ Holds(a, wrk[a])
      BY <2>2 DEF IInv, AgentInv, Holds, HolderPlace, InsertPlace
    <3> QED
      BY <2>0, <3>1, ListedOwners DEF OneOwner, OnList
  <2>3. ASSUME NEW t \in Task, pc[t] = "steal", data[wrk[t]] = cpu[t]
        PROVE  wrk[t] \in ToSet(worklist[cpu[t]])
    <3>1. wrk[t] \in Work /\ cpu[t] \in CPU
      BY <2>3, Agents DEF IInv, AgentInv, TaskInv, CancelPlace
    <3>2. Guarded(t, wrk[t], cpu[t])
      BY <2>3, <3>1 DEF IInv, StealInv
    <3> QED
      BY <2>3, <3>1, <3>2, ListedOwners DEF Guarded
  <2> QED
    BY <2>1, <2>2, <2>3 DEF NoBugOn
<1> QED
  BY <1>1, Invariance, PTL

\* When cancel_work_sync() or cancel_rearming_delayed_work() is about to return
\* the work is on no list, its timer is not pending and no worker is in its
\* function, even one that queues itself again, with one or two CPUs and
\* run_workqueue() not nested.
THEOREM WorkqueueCancelled == Spec => [](TwoCpus /\ Flat => Cancelled)
<1>1. IInv => (TwoCpus /\ Flat => Cancelled)
  <2> SUFFICES ASSUME IInv, TwoCpus, Flat,
                      NEW t \in Task, pc[t] = "clearbit", kind[t] # "cancel_delayed_work"
               PROVE  ~OnList(wrk[t]) /\ ~Running(wrk[t]) /\ wrk[t] \notin timer
    BY DEF Cancelled
  <2>1. wrk[t] \in Work /\ Holds(t, wrk[t]) /\ t \in Agent
    BY Agents DEF IInv, AgentInv, CancelPlace, Holds, HolderPlace
  <2>2. OneOwner(wrk[t])
    BY <2>1 DEF IInv, OwnerInv
  <2>3. \A c \in CPU : ~In(wrk[t], stack[c])
    BY DEF IInv, PassedInv, Passed
  <2> QED
    BY <2>1, <2>2, <2>3, ListedOwners DEF OneOwner, OnList, Running
<1> QED
  BY <1>1, Invariance, PTL

=============================================================================
