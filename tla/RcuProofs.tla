---------------------------- MODULE RcuProofs ----------------------------
(***************************************************************************)
(* Proofs about Rcu: IInv is inductive, and the safety properties follow   *)
(* from it, for any number of CPUs and callbacks. The properties of the    *)
(* grace period hold with CPUs going down and coming back and              *)
(* rcu_barrier() at any time; that no callback is lost, and that           *)
(* rcu_barrier() waits for all of them, where the two do not meet.         *)
(***************************************************************************)
EXTENDS Rcu, FiniteSetTheorems, SequenceTheorems, WellFoundedInduction, TLAPS

-----------------------------------------------------------------------------
(* Lists *)

\* A non-empty set of naturals has a least element.
LEMMA MinIn ==
  ASSUME NEW I \in SUBSET Nat, I # {}
  PROVE  Min(I) \in I
<1> DEFINE R == {ss \in Nat \X Nat : ss[1] < ss[2]}
<1>1. IsWellFoundedOn(R, Nat)
  BY NatLessThanWellFounded, Zenon DEF OpToRel
<1>2. PICK x \in I : \A y \in I : ~(<<y, x>> \in R)
  BY <1>1, WFMin, Zenon
<1>3. \A y \in I : x =< y
  <2> TAKE y \in I
  <2>1. x \in Nat /\ y \in Nat /\ <<y, x>> \in Nat \X Nat
    OBVIOUS
  <2>2. ~(y < x)
    BY <2>1, <1>2
  <2> QED
    BY <2>1, <2>2
<1> QED
  BY <1>3 DEF Min

\* The elements of a list after call_rcu(), rcu_move_batch() and rcu_do_batch().
LEMMA ToSetAppend ==
  ASSUME NEW S, NEW s \in Seq(S), NEW h \in S
  PROVE  /\ Append(s, h) \in Seq(S) /\ Len(Append(s, h)) = Len(s) + 1 /\ Append(s, h) # <<>>
         /\ ToSet(Append(s, h)) = ToSet(s) \cup {h}
<1>1. /\ Append(s, h) \in Seq(S) /\ Len(Append(s, h)) = Len(s) + 1 /\ Len(s) \in Nat
      /\ \A i \in 1..Len(s) : Append(s, h)[i] = s[i]
      /\ Append(s, h)[Len(s) + 1] = h
  BY AppendProperties, LenProperties
<1>2. DOMAIN s = 1..Len(s) /\ DOMAIN Append(s, h) = 1..Len(s) + 1
  BY <1>1
<1>3. ASSUME NEW i \in 1..Len(s) + 1 PROVE i \in 1..Len(s) \/ i = Len(s) + 1
  BY <1>1
<1>4. 1..Len(s) \subseteq 1..Len(s) + 1 /\ Len(s) + 1 \in 1..Len(s) + 1
  BY <1>1
<1>5. ToSet(Append(s, h)) = ToSet(s) \cup {h}
  BY <1>1, <1>2, <1>3, <1>4 DEF ToSet
<1> QED
  BY <1>1, <1>5

LEMMA ToSetConcat ==
  ASSUME NEW S, NEW s \in Seq(S), NEW r \in Seq(S)
  PROVE  /\ s \o r \in Seq(S) /\ Len(s \o r) = Len(s) + Len(r)
         /\ ToSet(s \o r) = ToSet(s) \cup ToSet(r)
<1>1. /\ s \o r \in Seq(S) /\ Len(s \o r) = Len(s) + Len(r) /\ Len(s) \in Nat /\ Len(r) \in Nat
      /\ \A i \in 1..Len(s) + Len(r) : (s \o r)[i] = IF i <= Len(s) THEN s[i] ELSE r[i - Len(s)]
  BY ConcatProperties, LenProperties
<1>2. DOMAIN s = 1..Len(s) /\ DOMAIN r = 1..Len(r) /\ DOMAIN (s \o r) = 1..Len(s) + Len(r)
  BY <1>1
<1>3. ASSUME NEW i \in 1..Len(s) PROVE i \in 1..Len(s) + Len(r) /\ (s \o r)[i] = s[i]
  BY <1>1
<1>4. ASSUME NEW i \in 1..Len(r)
      PROVE Len(s) + i \in 1..Len(s) + Len(r) /\ (s \o r)[Len(s) + i] = r[i]
  <2>1. Len(s) + i \in 1..Len(s) + Len(r) /\ ~(Len(s) + i <= Len(s)) /\ (Len(s) + i) - Len(s) = i
    BY <1>1
  <2> QED
    BY <2>1, <1>1
<1>5. ASSUME NEW i \in 1..Len(s) + Len(r)
      PROVE  \/ i \in 1..Len(s) /\ (s \o r)[i] = s[i]
             \/ i - Len(s) \in 1..Len(r) /\ (s \o r)[i] = r[i - Len(s)]
  BY <1>1
<1> HIDE <1>1
<1>6. ToSet(s \o r) \subseteq ToSet(s) \cup ToSet(r)
  BY <1>2, <1>5, Zenon DEF ToSet
<1>7. ToSet(s) \cup ToSet(r) \subseteq ToSet(s \o r)
  BY <1>2, <1>3, <1>4, Zenon DEF ToSet
<1> QED
  BY <1>1, <1>6, <1>7

LEMMA ToSetSubSeq ==
  ASSUME NEW S, NEW s \in Seq(S), NEW m \in 1..Len(s) + 1, NEW n \in 0..Len(s)
  PROVE  /\ SubSeq(s, m, n) \in Seq(S)
         /\ Len(SubSeq(s, m, n)) = IF m <= n THEN n - m + 1 ELSE 0
         /\ ToSet(SubSeq(s, m, n)) \subseteq ToSet(s)
<1> DEFINE r == SubSeq(s, m, n)
<1>0. Len(s) \in Nat /\ m \in Nat /\ n \in Nat
  OBVIOUS
<1>1. /\ r \in Seq(S) /\ Len(r) = (IF m <= n THEN n - m + 1 ELSE 0)
      /\ \A i \in 1..n - m + 1 : r[i] = s[m + i - 1]
  <2>1. \A i \in m..n : s[i] \in S
    BY <1>0
  <2> QED
    BY <2>1, <1>0, SubSeqProperties
<1> HIDE DEF r
<1>2. DOMAIN s = 1..Len(s) /\ DOMAIN r = 1..Len(r)
  BY <1>1
<1>3. ASSUME NEW i \in DOMAIN r PROVE m + i - 1 \in DOMAIN s /\ r[i] = s[m + i - 1]
  <2>1. i \in 1..n - m + 1
    BY <1>0, <1>1, <1>2
  <2> QED
    BY <2>1, <1>0, <1>1, <1>2
<1>4. ToSet(r) \subseteq ToSet(s)
  BY <1>3, Zenon DEF ToSet
<1> QED
  BY <1>1, <1>4 DEF r

LEMMA ToSetEmpty == ToSet(<<>>) = {} /\ <<>> \in Seq(RcuHead) /\ Len(<<>>) = 0
<1>1. DOMAIN <<>> = {}
  OBVIOUS
<1> QED
  BY <1>1 DEF ToSet

\* CPU_UP_PREPARE only shortens the lists that still hold the barrier head.
LEMMA CutLists ==
  ASSUME NEW list \in [CPU -> Seq(RcuHead)], NEW c \in CPU
  PROVE  /\ Cut(list, c) \in [CPU -> Seq(RcuHead)]
         /\ Cut(list, c)[c] = <<>>
         /\ \A d \in CPU : ToSet(Cut(list, c)[d]) \subseteq ToSet(list[d])
         /\ \A d \in CPU : Cut(list, c)[d] # <<>> => list[d] # <<>>
<1>1. ASSUME NEW d \in CPU \ {c}
      PROVE  \/ Cut(list, c)[d] = list[d]
             \/ \E n \in 1..Len(list[d]) : Cut(list, c)[d] = SubSeq(list[d], 1, n - 1)
  <2> DEFINE at == {i \in 1..Len(list[d]) : list[d][i] = c}
  <2>1. Cut(list, c)[d] = IF at = {} THEN list[d] ELSE SubSeq(list[d], 1, Min(at) - 1)
    BY DEF Cut
  <2>0. at \in SUBSET Nat /\ at \subseteq 1..Len(list[d])
    OBVIOUS
  <2> HIDE DEF at
  <2>2. at = {} \/ Min(at) \in at
    BY <2>0, MinIn
  <2> QED
    BY <2>0, <2>1, <2>2
<1>2. Cut(list, c)[c] = <<>>
  BY DEF Cut
<1>3. ASSUME NEW d \in CPU
      PROVE  /\ Cut(list, c)[d] \in Seq(RcuHead)
             /\ ToSet(Cut(list, c)[d]) \subseteq ToSet(list[d])
             /\ Cut(list, c)[d] # <<>> => list[d] # <<>>
  <2>1. CASE d = c
    BY <2>1, <1>2, ToSetEmpty
  <2>2. CASE d # c /\ Cut(list, c)[d] = list[d]
    BY <2>2
  <2>3. ASSUME NEW n \in 1..Len(list[d]), Cut(list, c)[d] = SubSeq(list[d], 1, n - 1)
        PROVE  /\ Cut(list, c)[d] \in Seq(RcuHead)
               /\ ToSet(Cut(list, c)[d]) \subseteq ToSet(list[d])
               /\ list[d] # <<>>
    <3>1. list[d] \in Seq(RcuHead) /\ Len(list[d]) \in Nat /\ n - 1 \in 0..Len(list[d])
          /\ 1 \in 1..Len(list[d]) + 1
      OBVIOUS
    <3> QED
      BY <3>1, <2>3, ToSetSubSeq
  <2> QED
    BY <1>1, <2>1, <2>2, <2>3
<1>4. Cut(list, c) = [d \in CPU |-> Cut(list, c)[d]]
  BY DEF Cut
<1>5. Cut(list, c) \in [CPU -> Seq(RcuHead)]
  BY <1>3, <1>4
<1> QED
  BY <1>2, <1>3, <1>5

\* If the CPU's lists are empty and its head is on no list, CPU_UP_PREPARE loses
\* nothing.
LEMMA CutNothing ==
  ASSUME NEW list \in [CPU -> Seq(RcuHead)], NEW c \in CPU, list[c] = <<>>,
         \A d \in CPU : c \notin ToSet(list[d])
  PROVE  Cut(list, c) = list
<1>1. ASSUME NEW d \in CPU PROVE Cut(list, c)[d] = list[d]
  <2> DEFINE at == {i \in 1..Len(list[d]) : list[d][i] = c}
  <2>1. Cut(list, c)[d] = IF d = c THEN <<>> ELSE IF at = {} THEN list[d] ELSE SubSeq(list[d], 1, Min(at) - 1)
    BY DEF Cut
  <2>2. DOMAIN list[d] = 1..Len(list[d])
    OBVIOUS
  <2>3. at = {}
    BY <2>2 DEF ToSet
  <2> QED
    BY <2>1, <2>3
<1>2. Cut(list, c) = [d \in CPU |-> Cut(list, c)[d]]
  BY DEF Cut
<1> QED
  BY <1>1, <1>2

\* A list that holds each head once still does after call_rcu(), after the
\* joining of two lists and after rcu_do_batch(), which splits it in two.
LEMMA OnceEmpty == Once(<<>>) /\ \A s : Apart(s, <<>>) /\ Apart(<<>>, s)
BY ToSetEmpty DEF Once, Apart

LEMMA OnceAppend ==
  ASSUME NEW s \in Seq(RcuHead), NEW h \in RcuHead, Once(s), h \notin ToSet(s)
  PROVE  Once(Append(s, h))
<1>1. /\ Len(Append(s, h)) = Len(s) + 1 /\ Len(s) \in Nat /\ DOMAIN s = 1..Len(s)
      /\ \A i \in 1..Len(s) : Append(s, h)[i] = s[i]
      /\ Append(s, h)[Len(s) + 1] = h
  BY AppendProperties, LenProperties
<1>2. \A i \in 1..Len(s) : h # s[i]
  BY <1>1 DEF ToSet
<1>3. ASSUME NEW i \in 1..Len(s) + 1 PROVE i \in 1..Len(s) \/ i = Len(s) + 1
  BY <1>1
<1> QED
  BY <1>1, <1>2, <1>3 DEF Once

LEMMA OnceConcat ==
  ASSUME NEW s \in Seq(RcuHead), NEW r \in Seq(RcuHead), Once(s), Once(r), Apart(s, r)
  PROVE  Once(s \o r)
<1>1. /\ Len(s \o r) = Len(s) + Len(r) /\ Len(s) \in Nat /\ Len(r) \in Nat
      /\ \A i \in 1..Len(s) + Len(r) : (s \o r)[i] = IF i <= Len(s) THEN s[i] ELSE r[i - Len(s)]
  BY ConcatProperties, LenProperties
<1>2. ASSUME NEW i \in 1..Len(s) + Len(r)
      PROVE  \/ i \in 1..Len(s) /\ (s \o r)[i] = s[i]
             \/ i - Len(s) \in 1..Len(r) /\ (s \o r)[i] = r[i - Len(s)]
  BY <1>1
<1>3. ASSUME NEW i \in 1..Len(s), NEW k \in 1..Len(r), s[i] = r[k] PROVE FALSE
  <2>1. s[i] \in ToSet(s) /\ r[k] \in ToSet(r)
    BY DEF ToSet
  <2> QED
    BY <2>1, <1>3 DEF Apart
<1>4. ASSUME NEW i \in 1..Len(s) + Len(r), NEW k \in 1..Len(s) + Len(r),
             (s \o r)[i] = (s \o r)[k]
      PROVE  i = k
  <2>1. CASE i \in 1..Len(s) /\ (s \o r)[i] = s[i]
    <3>1. k \in 1..Len(s) /\ (s \o r)[k] = s[k]
      BY <2>1, <1>2, <1>3, <1>4
    <3> QED
      BY <3>1, <2>1, <1>4 DEF Once
  <2>2. CASE i - Len(s) \in 1..Len(r) /\ (s \o r)[i] = r[i - Len(s)]
    <3>1. k - Len(s) \in 1..Len(r) /\ (s \o r)[k] = r[k - Len(s)]
      BY <2>2, <1>2, <1>3, <1>4
    <3>2. i - Len(s) = k - Len(s)
      BY <3>1, <2>2, <1>4 DEF Once
    <3> QED
      BY <3>2, <1>1
  <2> QED
    BY <1>2, <2>1, <2>2
<1> QED
  BY <1>1, <1>4 DEF Once

LEMMA OnceSplit ==
  ASSUME NEW s \in Seq(RcuHead), Once(s), NEW n \in 0..Len(s)
  PROVE  /\ Once(SubSeq(s, n + 1, Len(s)))
         /\ Apart(SubSeq(s, 1, n), SubSeq(s, n + 1, Len(s)))
         /\ ToSet(s) = ToSet(SubSeq(s, 1, n)) \cup ToSet(SubSeq(s, n + 1, Len(s)))
<1>0. Len(s) \in Nat /\ n \in Nat /\ n <= Len(s) /\ DOMAIN s = 1..Len(s)
  OBVIOUS
<1>p. PICK b, r : b = SubSeq(s, 1, n) /\ r = SubSeq(s, n + 1, Len(s))
  OBVIOUS
<1>1. /\ b \in Seq(RcuHead) /\ Len(b) = n /\ \A i \in 1..n : b[i] = s[i]
  <2>1. \A i \in 1..n : s[i] \in RcuHead
    BY <1>0
  <2>2. /\ SubSeq(s, 1, n) \in Seq(RcuHead)
        /\ Len(SubSeq(s, 1, n)) = IF 1 <= n THEN n - 1 + 1 ELSE 0
        /\ \A i \in 1..n - 1 + 1 : SubSeq(s, 1, n)[i] = s[1 + i - 1]
    BY <2>1, <1>0, SubSeqProperties
  <2>3. \A i \in 1..n : i \in 1..n - 1 + 1 /\ 1 + i - 1 = i
    BY <1>0
  <2>4. \A i \in 1..n : SubSeq(s, 1, n)[i] = s[i]
    BY <2>2, <2>3
  <2>5. (IF 1 <= n THEN n - 1 + 1 ELSE 0) = n
    BY <1>0
  <2> QED
    BY <2>2, <2>4, <2>5, <1>p, Zenon
<1>2. /\ r \in Seq(RcuHead) /\ Len(r) = Len(s) - n /\ \A i \in 1..Len(s) - n : r[i] = s[n + i]
  <2>1. \A i \in n + 1..Len(s) : s[i] \in RcuHead
    BY <1>0
  <2>2. /\ SubSeq(s, n + 1, Len(s)) \in Seq(RcuHead)
        /\ Len(SubSeq(s, n + 1, Len(s))) = IF n + 1 <= Len(s) THEN Len(s) - (n + 1) + 1 ELSE 0
        /\ \A i \in 1..Len(s) - (n + 1) + 1 : SubSeq(s, n + 1, Len(s))[i] = s[n + 1 + i - 1]
    BY <2>1, <1>0, SubSeqProperties
  <2>3. \A i \in 1..Len(s) - n : i \in 1..Len(s) - (n + 1) + 1 /\ n + 1 + i - 1 = n + i
    BY <1>0
  <2>4. \A i \in 1..Len(s) - n : SubSeq(s, n + 1, Len(s))[i] = s[n + i]
    BY <2>2, <2>3
  <2>5. (IF n + 1 <= Len(s) THEN Len(s) - (n + 1) + 1 ELSE 0) = Len(s) - n
    <3>1. PICK m \in Nat : m = Len(s) /\ n <= m
      BY <1>0
    <3>2. (IF n + 1 <= m THEN m - (n + 1) + 1 ELSE 0) = m - n
      BY <3>1, <1>0
    <3> QED
      BY <3>1, <3>2, Zenon
  <2> QED
    BY <2>2, <2>4, <2>5, <1>p, Zenon
<1>3. DOMAIN b = 1..n /\ DOMAIN r = 1..Len(s) - n
  BY <1>1, <1>2
<1>4. Once(r)
  <2>1. ASSUME NEW i \in 1..Len(s) - n
        PROVE  n + i \in 1..Len(s) /\ r[i] = s[n + i]
    BY <1>0, <1>2
  <2>2. ASSUME NEW i \in 1..Len(s) - n, NEW k \in 1..Len(s) - n, r[i] = r[k]
        PROVE  i = k
    <3>1. n + i = n + k
      BY <2>1, <2>2 DEF Once
    <3> QED
      BY <3>1, <1>0
  <2> QED
    BY <2>2, <1>2 DEF Once
<1>5. ASSUME NEW h \in ToSet(b) \cap ToSet(r) PROVE FALSE
  <2>1. PICK i \in 1..n : h = b[i]
    BY <1>3 DEF ToSet
  <2>2. PICK k \in 1..Len(s) - n : h = r[k]
    BY <1>3 DEF ToSet
  <2>3. i \in 1..Len(s) /\ n + k \in 1..Len(s) /\ i # n + k
    BY <1>0
  <2>4. s[i] = s[n + k] /\ h = s[i]
    BY <2>1, <2>2, <1>1, <1>2, Zenon
  <2> QED
    BY <2>3, <2>4 DEF Once
<1>6. ToSet(s) = ToSet(b) \cup ToSet(r)
  <2>1. ASSUME NEW i \in 1..Len(s) PROVE s[i] \in ToSet(b) \cup ToSet(r)
    <3>1. CASE i <= n
      <4>1. i \in 1..n /\ s[i] = b[i]
        BY <3>1, <1>1
      <4> QED
        BY <4>1, <1>3 DEF ToSet
    <3>2. CASE n < i
      <4>1. i - n \in 1..Len(s) - n /\ n + (i - n) = i
        BY <3>2, <1>0
      <4>2. s[i] = r[i - n]
        BY <4>1, <1>2
      <4> QED
        BY <4>1, <4>2, <1>3 DEF ToSet
    <3> QED
      BY <3>1, <3>2, <1>0
  <2>2. ToSet(b) \subseteq ToSet(s) /\ ToSet(r) \subseteq ToSet(s)
    <3>1. n + 1 \in 1..Len(s) + 1 /\ Len(s) \in 0..Len(s) /\ 1 \in 1..Len(s) + 1
      BY <1>0
    <3> QED
      BY <3>1, <1>p, ToSetSubSeq
  <2>3. ToSet(s) \subseteq ToSet(b) \cup ToSet(r)
    BY <2>1, <1>0 DEF ToSet
  <2> QED
    BY <2>2, <2>3
<1> QED
  BY <1>4, <1>5, <1>6, <1>p DEF Apart

\* The order of a queue survives call_rcu() at its end and rcu_do_batch() at its
\* front.
LEMMA BeforeAppend ==
  ASSUME NEW q \in Seq(RcuHead), NEW h \in RcuHead, NEW f
  PROVE  /\ \A g : Before(q, f, g) => Before(Append(q, h), f, g)
         /\ f \in ToSet(q) => Before(Append(q, h), f, h)
<1>1. /\ Len(Append(q, h)) = Len(q) + 1 /\ Len(q) \in Nat /\ DOMAIN q = 1..Len(q)
      /\ \A i \in 1..Len(q) : Append(q, h)[i] = q[i]
      /\ Append(q, h)[Len(q) + 1] = h
  BY AppendProperties, LenProperties
<1>2. \A i \in 1..Len(q) : i \in 1..Len(q) + 1 /\ i < Len(q) + 1
  BY <1>1
<1>3. ASSUME NEW g, Before(q, f, g) PROVE Before(Append(q, h), f, g)
  <2>1. PICK i \in 1..Len(q), k \in 1..Len(q) : i < k /\ q[i] = f /\ q[k] = g
    BY <1>3 DEF Before
  <2>2. Append(q, h)[i] = f /\ Append(q, h)[k] = g
    BY <2>1, <1>1
  <2> QED
    BY <2>1, <2>2, <1>1, <1>2 DEF Before
<1>4. ASSUME f \in ToSet(q) PROVE Before(Append(q, h), f, h)
  <2>1. PICK i \in 1..Len(q) : q[i] = f
    BY <1>4, <1>1 DEF ToSet
  <2>2. Append(q, h)[i] = f /\ Len(q) + 1 \in 1..Len(q) + 1
    BY <2>1, <1>1
  <2> QED
    BY <2>2, <1>1, <1>2 DEF Before
<1> QED
  BY <1>3, <1>4

LEMMA BeforeRest ==
  ASSUME NEW s \in Seq(RcuHead), NEW r \in Seq(RcuHead), NEW f, NEW h,
         Before(s \o r, f, h), f \notin ToSet(s)
  PROVE  Before(r, f, h)
<1>1. /\ Len(s \o r) = Len(s) + Len(r) /\ Len(s) \in Nat /\ Len(r) \in Nat
      /\ \A i \in 1..Len(s) + Len(r) : (s \o r)[i] = IF i <= Len(s) THEN s[i] ELSE r[i - Len(s)]
  BY ConcatProperties, LenProperties
<1>2. PICK i \in 1..Len(s) + Len(r), k \in 1..Len(s) + Len(r) :
         i < k /\ (s \o r)[i] = f /\ (s \o r)[k] = h
  BY <1>1 DEF Before
<1>3. ~(i <= Len(s))
  <2> SUFFICES ASSUME i <= Len(s) PROVE FALSE
    OBVIOUS
  <2>1. i \in 1..Len(s) /\ f = s[i]
    BY <1>1, <1>2
  <2> QED
    BY <2>1 DEF ToSet
<1>4. /\ i - Len(s) \in 1..Len(r) /\ k - Len(s) \in 1..Len(r) /\ i - Len(s) < k - Len(s)
      /\ ~(k <= Len(s))
  BY <1>1, <1>2, <1>3
<1>5. r[i - Len(s)] = f /\ r[k - Len(s)] = h
  BY <1>1, <1>2, <1>3, <1>4
<1> QED
  BY <1>4, <1>5 DEF Before

LEMMA BeforeIn ==
  ASSUME NEW q \in Seq(RcuHead), NEW f, NEW h, Before(q, f, h)
  PROVE  f \in ToSet(q) /\ h \in ToSet(q)
BY DEF Before, ToSet

-----------------------------------------------------------------------------
(* What the longer steps do to each CPU.                                     *)

AdvanceEffect(c) ==
  /\ c \in online /\ pc[c] = "idle" /\ pc'[c] = "next"
  /\ \/ /\ curlist[c] # <<>> /\ batch[c] <= completed /\ curlist'[c] = <<>>
        /\ donelist'[c] = donelist[c] \o curlist[c]
     \/ /\ curlist[c] = <<>> \/ completed < batch[c]
        /\ curlist'[c] = curlist[c] /\ donelist'[c] = donelist[c]
  /\ \A d \in CPU \ {c} :
       pc'[d] = pc[d] /\ curlist'[d] = curlist[d] /\ donelist'[d] = donelist[d]
  /\ UNCHANGED <<cur, completed, next_pending, cpumask, quiescbatch, passed_quiesc, batch,
                 nxtlist, qlen, ret, online, hp, work, active, called, invoked, waits>>

LEMMA AdvanceStep ==
  ASSUME IInv, NEW c \in CPU, Advance(c)
  PROVE  AdvanceEffect(c)
<1>t. /\ pc \in [CPU -> TaskletPc] /\ curlist \in [CPU -> Seq(RcuHead)]
      /\ donelist \in [CPU -> Seq(RcuHead)] /\ completed \in Int /\ batch \in [CPU -> Int]
  BY DEF IInv, ControlOK, TypeOK
<1> QED
  BY <1>t DEF AdvanceEffect, Advance, rcu_batch_before, At, Running, Goto, rcp, qs, cpus, ghost

TakeNextEffect(c) ==
  /\ c \in online /\ pc[c] = "next"
  /\ \/ /\ curlist[c] = <<>> /\ nxtlist[c] # <<>> /\ curlist'[c] = nxtlist[c]
        /\ nxtlist'[c] = <<>> /\ pc'[c] = "number"
     \/ /\ curlist'[c] = curlist[c] /\ nxtlist'[c] = nxtlist[c] /\ pc'[c] = "check"
  /\ \A d \in CPU \ {c} :
       pc'[d] = pc[d] /\ curlist'[d] = curlist[d] /\ nxtlist'[d] = nxtlist[d]
  /\ UNCHANGED <<cur, completed, next_pending, cpumask, quiescbatch, passed_quiesc, batch,
                 donelist, qlen, ret, online, hp, work, active, called, invoked, waits>>

LEMMA TakeNextStep ==
  ASSUME IInv, NEW c \in CPU, TakeNext(c)
  PROVE  TakeNextEffect(c)
<1>t. /\ pc \in [CPU -> TaskletPc] /\ curlist \in [CPU -> Seq(RcuHead)]
      /\ nxtlist \in [CPU -> Seq(RcuHead)]
  BY DEF IInv, ControlOK, TypeOK
<1> QED
  BY <1>t DEF TakeNextEffect, TakeNext, MayTake, At, Running, Goto, rcp, qs, cpus, ghost

NumberBatchEffect(c) ==
  /\ c \in online /\ pc[c] = "number" /\ pc'[c] = "pending" /\ batch'[c] = cur + 1
  /\ \A d \in CPU \ {c} : pc'[d] = pc[d] /\ batch'[d] = batch[d]
  /\ UNCHANGED <<cur, completed, next_pending, cpumask, quiescbatch, passed_quiesc, nxtlist,
                 curlist, donelist, qlen, ret, online, hp, work, active, called, invoked,
                 waits>>

LEMMA NumberBatchStep ==
  ASSUME IInv, NEW c \in CPU, NumberBatch(c)
  PROVE  NumberBatchEffect(c)
<1>t. pc \in [CPU -> TaskletPc] /\ batch \in [CPU -> Int]
  BY DEF IInv, ControlOK, TypeOK
<1> QED
  BY <1>t DEF NumberBatchEffect, NumberBatch, At, Running, Goto, rcp, qs, cpus, ghost

StartBatchEffect(c) ==
  /\ c \in online /\ pc[c] = "startbatch"
  /\ \/ next_pending /\ completed = cur /\ ~next_pending' /\ pc'[c] = "incr" /\ lock' = lock
     \/ /\ ~(next_pending /\ completed = cur) /\ next_pending' = next_pending
        /\ pc'[c] = ret[c]
  /\ \A d \in CPU \ {c} : pc'[d] = pc[d]
  /\ UNCHANGED <<cur, completed, cpumask, quiescbatch, passed_quiesc, batch, nxtlist, curlist,
                 donelist, qlen, ret, online, hp, work, active, called, invoked, waits>>

LEMMA StartBatchStep ==
  ASSUME IInv, NEW c \in CPU, StartBatch(c)
  PROVE  StartBatchEffect(c)
<1>t. pc \in [CPU -> TaskletPc]
  BY DEF IInv, ControlOK, TypeOK
<1> QED
  BY <1>t DEF StartBatchEffect, StartBatch, MayStart, At, Running, Goto, qs, lists, cpus, ghost

IncrCurEffect(c) ==
  /\ c \in online /\ pc[c] = "incr" /\ completed = cur /\ cur' = cur + 1
  /\ cpumask' = online /\ pc'[c] = ret[c]
  /\ \A d \in CPU \ {c} : pc'[d] = pc[d] /\ pc[d] # "incr"
  /\ UNCHANGED <<completed, next_pending, quiescbatch, passed_quiesc, batch, nxtlist, curlist,
                 donelist, qlen, ret, online, hp, work, active, called, invoked, waits>>

LEMMA IncrCurStep ==
  ASSUME IInv, NEW c \in CPU, IncrCur(c)
  PROVE  IncrCurEffect(c)
<1>t. pc \in [CPU -> TaskletPc] /\ LockInv
  BY DEF IInv, ControlOK, TypeOK
<1> QED
  BY <1>t DEF IncrCurEffect, IncrCur, LockInv, At, Running, Goto, qs, lists, cpus, ghost

CheckQuiescentEffect(c) ==
  /\ c \in online /\ pc[c] = "check"
  /\ \/ /\ quiescbatch[c] # cur /\ qs_pending'[c] /\ ~passed_quiesc'[c] /\ pc'[c] = "note"
     \/ /\ quiescbatch[c] = cur /\ passed_quiesc'[c] = passed_quiesc[c]
        /\ qs_pending[c] /\ passed_quiesc[c] /\ pc'[c] = "quiet"
     \/ /\ quiescbatch[c] = cur /\ passed_quiesc'[c] = passed_quiesc[c]
        /\ qs_pending'[c] = qs_pending[c] /\ pc'[c] = "invoke"
  /\ \A d \in CPU \ {c} : /\ pc'[d] = pc[d] /\ qs_pending'[d] = qs_pending[d]
                          /\ passed_quiesc'[d] = passed_quiesc[d]
  /\ UNCHANGED <<cur, completed, next_pending, cpumask, quiescbatch, batch, nxtlist, curlist,
                 donelist, qlen, ret, online, hp, work, active, called, invoked, waits>>

LEMMA CheckQuiescentStep ==
  ASSUME IInv, NEW c \in CPU, CheckQuiescent(c)
  PROVE  CheckQuiescentEffect(c)
<1>t. /\ pc \in [CPU -> TaskletPc] /\ qs_pending \in [CPU -> BOOLEAN]
      /\ passed_quiesc \in [CPU -> BOOLEAN]
  BY DEF IInv, ControlOK, TypeOK
<1> QED
  BY <1>t DEF CheckQuiescentEffect, CheckQuiescent, ForgetQuiet, At, Running, Goto, rcp, lists,
     cpus, ghost

NoteBatchEffect(c) ==
  /\ c \in online /\ pc[c] = "note" /\ pc'[c] = "invoke" /\ quiescbatch'[c] = cur
  /\ \A d \in CPU \ {c} : pc'[d] = pc[d] /\ quiescbatch'[d] = quiescbatch[d]
  /\ UNCHANGED <<cur, completed, next_pending, cpumask, passed_quiesc, qs_pending, batch,
                 nxtlist, curlist, donelist, qlen, ret, online, hp, work, active, called,
                 invoked, waits>>

LEMMA NoteBatchStep ==
  ASSUME IInv, NEW c \in CPU, NoteBatch(c)
  PROVE  NoteBatchEffect(c)
<1>t. pc \in [CPU -> TaskletPc] /\ quiescbatch \in [CPU -> Int]
  BY DEF IInv, ControlOK, TypeOK
<1> QED
  BY <1>t DEF NoteBatchEffect, NoteBatch, At, Running, Goto, rcp, lists, cpus, ghost

\* cpu_quiet() ends the grace period with the last CPU.
ReportQuietEffect(c) ==
  /\ c \in online /\ pc[c] = "quiet" /\ pc'[c] \in {"invoke", "startbatch"} /\ ret'[c] = "invoke"
  /\ \/ /\ quiescbatch[c] = cur /\ cpumask' = cpumask \ {c} /\ cpumask' = {}
        /\ completed' = cur /\ pc'[c] = "startbatch"
     \/ /\ quiescbatch[c] = cur /\ cpumask' = cpumask \ {c} /\ cpumask' # {}
        /\ completed' = completed /\ pc'[c] = "invoke"
     \/ /\ quiescbatch[c] # cur /\ cpumask' = cpumask /\ completed' = completed
        /\ pc'[c] = "invoke"
  /\ \A d \in CPU \ {c} : pc'[d] = pc[d] /\ ret'[d] = ret[d]
  /\ UNCHANGED <<cur, next_pending, quiescbatch, passed_quiesc, qs_pending, batch, nxtlist,
                 curlist, donelist, qlen, online, hp, work, active, called, invoked, waits>>

LEMMA ReportQuietStep ==
  ASSUME IInv, NEW c \in CPU, ReportQuiet(c)
  PROVE  ReportQuietEffect(c)
<1>t. pc \in [CPU -> TaskletPc] /\ ret \in [CPU -> {"check", "invoke", "idle"}]
  BY DEF IInv, ControlOK, TypeOK
<1> QED
  BY <1>t DEF ReportQuietEffect, ReportQuiet, ClearMask, At, Running, Goto, qs, lists, cpus, ghost

OfflineQuietEffect ==
  /\ hp.this \in online /\ hp.cpu \in CPU \ online /\ hp.stage = "dying" /\ pc[hp.this] = "idle"
  /\ \/ /\ cur # completed /\ cpumask' = cpumask \ {hp.cpu} /\ cpumask' = {}
        /\ completed' = cur /\ pc'[hp.this] = "startbatch" /\ ret'[hp.this] = "idle"
     \/ /\ cur # completed /\ cpumask' = cpumask \ {hp.cpu} /\ cpumask' # {}
        /\ completed' = completed /\ pc'[hp.this] = "idle"
     \/ /\ cur = completed /\ cpumask' = cpumask /\ completed' = completed
        /\ pc'[hp.this] = "idle"
  /\ \A d \in CPU \ {hp.this} : pc'[d] = pc[d] /\ ret'[d] = ret[d]
  /\ active' = [active EXCEPT ![hp.this] = {"task"}] /\ active[hp.this] = {}
  /\ UNCHANGED <<cur, next_pending, quiescbatch, passed_quiesc, qs_pending, batch, nxtlist,
                 curlist, donelist, qlen, online, work, called, invoked, waits>>

LEMMA OfflineQuietStep ==
  ASSUME IInv, OfflineQuiet
  PROVE  OfflineQuietEffect
<1>t. /\ pc \in [CPU -> TaskletPc] /\ ret \in [CPU -> {"check", "invoke", "idle"}] /\ OfflineInv
      /\ online \subseteq CPU
  BY DEF IInv, ControlOK, TypeOK
<1> QED
  BY <1>t DEF OfflineQuietEffect, OfflineQuiet, DeadQuiet, ClearMask, PreemptOff, OfflineInv,
     Running, Goto, qs, lists,
     ghost

CpuUpEffect(c) ==
  /\ c \notin online /\ online' = online \cup {c} /\ hp.stage = "none" /\ pc[c] = "idle"
  /\ quiescbatch'[c] = completed /\ ~passed_quiesc'[c] /\ batch'[c] = 0
  /\ nxtlist'[c] = <<>> /\ curlist'[c] = <<>> /\ donelist'[c] = <<>>
  /\ \A d \in CPU \ {c} : /\ quiescbatch'[d] = quiescbatch[d] /\ batch'[d] = batch[d]
                          /\ passed_quiesc'[d] = passed_quiesc[d]
  /\ \A d \in CPU : /\ ToSet(nxtlist'[d]) \subseteq ToSet(nxtlist[d])
                    /\ ToSet(curlist'[d]) \subseteq ToSet(curlist[d])
                    /\ ToSet(donelist'[d]) \subseteq ToSet(donelist[d])
                    /\ curlist'[d] # <<>> => curlist[d] # <<>>
  /\ UNCHANGED <<cur, completed, next_pending, cpumask, pc, ret, hp, work, active, called,
                 invoked, waits>>

LEMMA CpuUpStep ==
  ASSUME IInv, NEW c \in CPU, CpuUp(c)
  PROVE  CpuUpEffect(c)
<1>t. /\ nxtlist \in [CPU -> Seq(RcuHead)] /\ curlist \in [CPU -> Seq(RcuHead)]
      /\ donelist \in [CPU -> Seq(RcuHead)] /\ quiescbatch \in [CPU -> Int]
      /\ passed_quiesc \in [CPU -> BOOLEAN] /\ batch \in [CPU -> Int] /\ OfflineInv
  BY DEF IInv, ControlOK, TypeOK
<1>1. /\ c \notin online /\ online' = online \cup {c} /\ hp.stage = "none" /\ pc[c] = "idle"
      /\ quiescbatch'[c] = completed /\ ~passed_quiesc'[c] /\ batch'[c] = 0
      /\ \A d \in CPU \ {c} : /\ quiescbatch'[d] = quiescbatch[d] /\ batch'[d] = batch[d]
                              /\ passed_quiesc'[d] = passed_quiesc[d]
      /\ nxtlist' = Cut(nxtlist, c) /\ curlist' = Cut(curlist, c) /\ donelist' = Cut(donelist, c)
      /\ UNCHANGED <<cur, completed, next_pending, cpumask, pc, ret, hp, work, active, called,
                     invoked, waits>>
  BY <1>t DEF CpuUp, OfflineInv, rcp, ghost
<1>2. \A list \in [CPU -> Seq(RcuHead)] :
        /\ Cut(list, c)[c] = <<>>
        /\ \A d \in CPU : /\ ToSet(Cut(list, c)[d]) \subseteq ToSet(list[d])
                          /\ Cut(list, c)[d] # <<>> => list[d] # <<>>
  BY CutLists
<1>3. /\ nxtlist'[c] = <<>> /\ \A d \in CPU : ToSet(nxtlist'[d]) \subseteq ToSet(nxtlist[d])
      /\ curlist'[c] = <<>> /\ \A d \in CPU : ToSet(curlist'[d]) \subseteq ToSet(curlist[d])
      /\ donelist'[c] = <<>> /\ \A d \in CPU : ToSet(donelist'[d]) \subseteq ToSet(donelist[d])
      /\ \A d \in CPU : curlist'[d] # <<>> => curlist[d] # <<>>
  BY <1>1, <1>2, <1>t
<1> QED
  BY <1>1, <1>3 DEF CpuUpEffect

EnqueueEffect(c, h) ==
  /\ nxtlist' \in [CPU -> Seq(RcuHead)] /\ ToSet(nxtlist'[c]) = ToSet(nxtlist[c]) \cup {h}
  /\ Len(nxtlist'[c]) = Len(nxtlist[c]) + 1 /\ qlen'[c] = qlen[c] + 1
  /\ \A d \in CPU \ {c} : nxtlist'[d] = nxtlist[d] /\ qlen'[d] = qlen[d]
  /\ qlen' \in [CPU -> Int] /\ blimit' \in [CPU -> {Limit, INT_MAX}]
  /\ UNCHANGED <<batch, curlist, donelist>>

LEMMA EnqueueStep ==
  ASSUME IInv, NEW c \in CPU, NEW h \in RcuHead, Enqueue(c, h)
  PROVE  EnqueueEffect(c, h)
<1>t. /\ nxtlist \in [CPU -> Seq(RcuHead)] /\ qlen \in [CPU -> Int]
      /\ blimit \in [CPU -> {Limit, INT_MAX}]
  BY DEF IInv, ControlOK, TypeOK
<1>0. nxtlist[c] \in Seq(RcuHead) /\ Append(nxtlist[c], h) \in Seq(RcuHead)
  BY <1>t, ToSetAppend
<1> PICK s \in Seq(RcuHead) : s = Append(nxtlist[c], h)
  BY <1>0
<1>1. Len(s) = Len(nxtlist[c]) + 1 /\ ToSet(s) = ToSet(nxtlist[c]) \cup {h}
  BY <1>0, ToSetAppend
<1>2. nxtlist' = [nxtlist EXCEPT ![c] = s] /\ UNCHANGED <<batch, curlist, donelist>>
  BY DEF Enqueue
<1>3. /\ qlen' \in [CPU -> Int] /\ blimit' \in [CPU -> {Limit, INT_MAX}]
      /\ qlen'[c] = qlen[c] + 1 /\ \A d \in CPU \ {c} : qlen'[d] = qlen[d]
  BY <1>t DEF Enqueue, RaisedLimit
<1> QED
  BY <1>1, <1>2, <1>3, <1>t DEF EnqueueEffect

\* rcu_do_batch() takes qlen down by what it takes off donelist.
DoBatchEffect(c) ==
  /\ c \in online /\ pc[c] = "invoke" /\ pc'[c] = "idle"
  /\ donelist' \in [CPU -> Seq(RcuHead)] /\ ToSet(donelist'[c]) \subseteq ToSet(donelist[c])
  /\ qlen'[c] = qlen[c] - (Len(donelist[c]) - Len(donelist'[c]))
  /\ qlen' \in [CPU -> Int] /\ blimit' \in [CPU -> {Limit, INT_MAX}]
  /\ invoked' \subseteq invoked \cup (ToSet(donelist[c]) \cap Callback)
  /\ \A d \in CPU \ {c} : pc'[d] = pc[d] /\ donelist'[d] = donelist[d] /\ qlen'[d] = qlen[d]
  /\ UNCHANGED <<cur, completed, cpumask, quiescbatch, passed_quiesc, batch, nxtlist, curlist,
                 online, hp, work, active, called, waits>>

LEMMA DoBatchStep ==
  ASSUME IInv, NEW c \in CPU, rcu_do_batch(c)
  PROVE  DoBatchEffect(c)
<1>t. /\ donelist \in [CPU -> Seq(RcuHead)] /\ qlen \in [CPU -> Int]
      /\ blimit \in [CPU -> {Limit, INT_MAX}] /\ pc \in [CPU -> TaskletPc]
      /\ Limit \in Nat
  BY RcuAssumption DEF IInv, ControlOK, TypeOK
<1> DEFINE l == donelist[c]
           k == Min2(blimit[c], Len(l))
<1>0. l \in Seq(RcuHead) /\ Len(l) \in Nat
  BY <1>t
<1>1. k \in 0..Len(l)
  BY <1>t, <1>0 DEF Min2, INT_MAX
<1>2. /\ c \in online /\ pc[c] = "invoke" /\ pc' = [pc EXCEPT ![c] = "idle"]
      /\ donelist' = [donelist EXCEPT ![c] = SubSeq(l, k + 1, Len(l))]
      /\ qlen' = [qlen EXCEPT ![c] = qlen[c] - k]
      /\ blimit' = [blimit EXCEPT ![c] = blimit'[c]] /\ blimit'[c] \in {Limit, blimit[c]}
      /\ invoked' = invoked \cup (ToSet(SubSeq(l, 1, k)) \cap Callback)
      /\ UNCHANGED <<cur, completed, cpumask, quiescbatch, passed_quiesc, batch, nxtlist, curlist,
                     online, hp, work, active, called, waits>>
  BY <1>t DEF rcu_do_batch, QlenAfter, At, Running, Goto, rcp, qs, cpus
<1> PICK n \in 0..Len(l) : n = k
  BY <1>1
<1>3. n + 1 \in 1..Len(l) + 1 /\ Len(l) \in 0..Len(l) /\ 1 \in 1..Len(l) + 1
  BY <1>0
<1> PICK b, r : b = SubSeq(l, 1, n) /\ r = SubSeq(l, n + 1, Len(l))
  OBVIOUS
<1>4. /\ r \in Seq(RcuHead) /\ Len(r) = Len(l) - n
      /\ ToSet(r) \subseteq ToSet(l) /\ ToSet(b) \subseteq ToSet(l)
  <2> HIDE DEF l, k
  <2>1. /\ SubSeq(l, n + 1, Len(l)) \in Seq(RcuHead)
        /\ Len(SubSeq(l, n + 1, Len(l))) = IF n + 1 <= Len(l) THEN Len(l) - (n + 1) + 1 ELSE 0
        /\ ToSet(SubSeq(l, n + 1, Len(l))) \subseteq ToSet(l)
    BY <1>0, <1>3, ToSetSubSeq
  <2>2. ToSet(SubSeq(l, 1, n)) \subseteq ToSet(l)
    BY <1>0, <1>3, ToSetSubSeq
  <2> QED
    BY <2>1, <2>2, <1>0, <1>3
<1>5. /\ donelist' = [donelist EXCEPT ![c] = r] /\ qlen' = [qlen EXCEPT ![c] = qlen[c] - n]
      /\ invoked' = invoked \cup (ToSet(b) \cap Callback)
  BY <1>2
<1> HIDE DEF k
<1> QED
  BY <1>2, <1>4, <1>5, <1>0, <1>t DEF DoBatchEffect


\* rcu_offline_cpu() only moves heads, from the dead CPU's lists to a nxtlist.
OfflineMoveEffect ==
  /\ hp.this \in online /\ hp.cpu \in CPU \ online
  /\ nxtlist' \in [CPU -> Seq(RcuHead)]
  /\ curlist' \in [CPU -> Seq(RcuHead)] /\ donelist' \in [CPU -> Seq(RcuHead)]
  /\ \A d \in CPU :
       /\ ToSet(nxtlist'[d]) \subseteq ToSet(nxtlist[d]) \cup ToSet(nxtlist[hp.cpu])
                                 \cup ToSet(curlist[hp.cpu]) \cup ToSet(donelist[hp.cpu])
       /\ curlist'[d] = curlist[d] \/ curlist'[d] = <<>>
       /\ donelist'[d] = donelist[d] \/ donelist'[d] = <<>>
  /\ \/ UNCHANGED <<active, waits>>
     \/ Finish(hp.this, "task")
  /\ UNCHANGED <<cur, completed, cpumask, quiescbatch, passed_quiesc, batch, qlen, blimit, pc,
                 online, work, called, invoked>>

LEMMA OfflineMoveStep ==
  ASSUME IInv, OfflineMove
  PROVE  OfflineMoveEffect
<1>t. /\ nxtlist \in [CPU -> Seq(RcuHead)] /\ curlist \in [CPU -> Seq(RcuHead)]
      /\ donelist \in [CPU -> Seq(RcuHead)] /\ online \subseteq CPU /\ OfflineInv
  BY DEF IInv, ControlOK, TypeOK
<1>0. /\ hp.this \in online /\ hp.cpu \in CPU \ online /\ hp.this # hp.cpu
      /\ hp.this \in CPU /\ hp.cpu \in CPU
  BY <1>t DEF OfflineMove, OfflineInv, Running
<1>1. /\ \/ hp.stage = "curlist" /\ Move(curlist)
         \/ hp.stage = "nxtlist" /\ Move(nxtlist)
         \/ hp.stage = "donelist" /\ Move(donelist)
      /\ curlist' = curlist \/ curlist' = [curlist EXCEPT ![hp.cpu] = <<>>]
      /\ donelist' = donelist \/ donelist' = [donelist EXCEPT ![hp.cpu] = <<>>]
      /\ UNCHANGED <<active, waits>> \/ Finish(hp.this, "task")
      /\ UNCHANGED <<cur, completed, cpumask, quiescbatch, passed_quiesc, batch, qlen, blimit, pc,
                     online, work, called, invoked>>
  BY DEF OfflineMove, rcp, qs
<1>2. /\ curlist' \in [CPU -> Seq(RcuHead)] /\ donelist' \in [CPU -> Seq(RcuHead)]
      /\ \A d \in CPU : /\ curlist'[d] = curlist[d] \/ curlist'[d] = <<>>
                        /\ donelist'[d] = donelist[d] \/ donelist'[d] = <<>>
  BY <1>1, <1>t, ToSetEmpty
<1>3. ASSUME NEW list, list \in {curlist, nxtlist, donelist}, Move(list)
      PROVE  /\ nxtlist' \in [CPU -> Seq(RcuHead)]
             /\ \A d \in CPU : ToSet(nxtlist'[d]) \subseteq ToSet(nxtlist[d]) \cup ToSet(list[hp.cpu])
  <2>1. nxtlist[hp.this] \in Seq(RcuHead) /\ list[hp.cpu] \in Seq(RcuHead)
    BY <1>3, <1>0, <1>t
  <2>2. /\ nxtlist[hp.this] \o list[hp.cpu] \in Seq(RcuHead)
        /\ ToSet(nxtlist[hp.this] \o list[hp.cpu]) = ToSet(nxtlist[hp.this]) \cup ToSet(list[hp.cpu])
    BY <2>1, ToSetConcat
  <2> PICK s \in Seq(RcuHead) : s = nxtlist[hp.this] \o list[hp.cpu]
    BY <2>2
  <2>3. \/ nxtlist' = [nxtlist EXCEPT ![hp.this] = s, ![hp.cpu] = <<>>]
        \/ nxtlist' = [nxtlist EXCEPT ![hp.this] = s, ![hp.cpu] = nxtlist[hp.cpu]]
    BY <1>3, <1>0, <1>t DEF Move
  <2>4. /\ nxtlist' \in [CPU -> Seq(RcuHead)] /\ nxtlist'[hp.this] = s
        /\ nxtlist'[hp.cpu] \in {<<>>, nxtlist[hp.cpu]}
        /\ \A d \in CPU \ {hp.this, hp.cpu} : nxtlist'[d] = nxtlist[d]
    BY <2>3, <1>0, <1>t, ToSetEmpty
  <2> QED
    BY <2>2, <2>4, <1>0, ToSetEmpty
<1>4. nxtlist' \in [CPU -> Seq(RcuHead)]
  BY <1>1, <1>3
<1>5. \A d \in CPU : ToSet(nxtlist'[d]) \subseteq ToSet(nxtlist[d]) \cup ToSet(nxtlist[hp.cpu])
                               \cup ToSet(curlist[hp.cpu]) \cup ToSet(donelist[hp.cpu])
  BY <1>1, <1>3
<1> QED
  BY <1>0, <1>1, <1>2, <1>4, <1>5 DEF OfflineMoveEffect

-----------------------------------------------------------------------------
(* Type correctness, a group of variables at a time.                         *)

ListsOK ==
  /\ nxtlist \in [CPU -> Seq(RcuHead)] /\ curlist \in [CPU -> Seq(RcuHead)]
  /\ donelist \in [CPU -> Seq(RcuHead)]
PcOK ==
  /\ pc \in [CPU -> TaskletPc] /\ ret \in [CPU -> {"check", "invoke", "idle"}]
  /\ lock \in CPU \cup {NoCPU}
BatchOK ==
  /\ cur \in Int /\ completed \in Int /\ next_pending \in BOOLEAN /\ cpumask \subseteq CPU
  /\ quiescbatch \in [CPU -> Int] /\ batch \in [CPU -> Int]
QuietOK == passed_quiesc \in [CPU -> BOOLEAN] /\ qs_pending \in [CPU -> BOOLEAN]
CountOK == qlen \in [CPU -> Int] /\ blimit \in [CPU -> {Limit, INT_MAX}]
ReaderOK ==
  /\ active \in [CPU -> SUBSET Context] /\ waits \in [Callback -> SUBSET Reader]
  /\ invoked \subseteq called /\ called \subseteq Callback
HotplugOK ==
  /\ online \subseteq CPU /\ work \in Workload /\ downs \in Nat
  /\ hp \in [stage : HpStage, cpu : CPU \cup {NoCPU}, this : CPU \cup {NoCPU}]

\* ControlOK is the conjunction of these.
LEMMA ControlParts ==
  ControlOK <=> ListsOK /\ PcOK /\ BatchOK /\ QuietOK /\ CountOK /\ ReaderOK /\ HotplugOK
BY DEF ControlOK, TypeOK, ListsOK, PcOK, BatchOK, QuietOK, CountOK, ReaderOK, HotplugOK

\* The lists stay lists of heads.
LEMMA ListStep ==
  ASSUME IInv, Next
  PROVE  ListsOK'
<1>0. ListsOK
  BY DEF IInv, ControlOK, TypeOK, ListsOK
<1>t. /\ nxtlist \in [CPU -> Seq(RcuHead)] /\ curlist \in [CPU -> Seq(RcuHead)]
      /\ donelist \in [CPU -> Seq(RcuHead)]
  BY DEF IInv, ControlOK, TypeOK
\* Nothing that the invariant is about changes.
<1>1. CASE UNCHANGED <<curlist, donelist, nxtlist>>
  BY <1>0, <1>1 DEF ListsOK
<1>2. ASSUME NEW c \in CPU, NEW f \in Callback, call_rcu(c, f) PROVE ListsOK'
  <2>1. EnqueueEffect(c, f)
    BY <1>2, EnqueueStep DEF call_rcu, RcuHead
  <2> QED
    BY <2>1, <1>0 DEF EnqueueEffect, ListsOK
<1>3. ASSUME NEW c \in CPU, Advance(c) PROVE ListsOK'
  <2>1. donelist[c] \o curlist[c] \in Seq(RcuHead)
    BY <1>t, ToSetConcat
  <2> PICK s \in Seq(RcuHead) : s = donelist[c] \o curlist[c]
    BY <2>1
  <2>2. /\ nxtlist' = nxtlist
        /\ donelist' = donelist \/ donelist' = [donelist EXCEPT ![c] = s]
        /\ curlist' = curlist \/ curlist' = [curlist EXCEPT ![c] = <<>>]
    BY <1>3, <1>t DEF Advance
  <2> QED
    BY <2>2, <1>t, ToSetEmpty DEF ListsOK
<1>4. ASSUME NEW c \in CPU, TakeNext(c) PROVE ListsOK'
  BY <1>4, <1>t, ToSetEmpty DEF TakeNext, ListsOK
<1>5. ASSUME NEW c \in CPU, rcu_do_batch(c) PROVE ListsOK'
  <2>1. DoBatchEffect(c)
    BY <1>5, DoBatchStep
  <2> QED
    BY <2>1, <1>0, <1>t DEF DoBatchEffect, ListsOK
<1>6. ASSUME NEW c \in CPU, rcu_barrier_func(c) PROVE ListsOK'
  <2>1. EnqueueEffect(c, c)
    BY <1>6, EnqueueStep DEF rcu_barrier_func, RcuHead
  <2> QED
    BY <2>1, <1>0 DEF EnqueueEffect, ListsOK
<1>7. CASE OfflineMove
  <2>1. OfflineMoveEffect
    BY <1>7, OfflineMoveStep
  <2> QED
    BY <2>1, <1>0, <1>t DEF OfflineMoveEffect, ListsOK
<1>8. ASSUME NEW c \in CPU, CpuUp(c) PROVE ListsOK'
  BY <1>8, <1>t, CutLists DEF CpuUp, ListsOK
<1> QED
  <2>1. ASSUME NEW c \in CPU, Tasklet(c)
        PROVE  \/ UNCHANGED <<curlist, donelist, nxtlist>>
               \/ Advance(c) \/ TakeNext(c) \/ rcu_do_batch(c)
    BY <2>1 DEF Tasklet, NumberBatch, ReadPending, SetPending, StartBatch, IncrCur,
       CheckQuiescent, NoteBatch, ReportQuiet, MustAsk, MayStart, ForgetQuiet, ClearMask, Goto,
       lists
  <2>2. ASSUME NEW c \in CPU,
               \/ (\E x \in work.reads : rcu_read_lock(c, x))
               \/ (\E x \in work.reads : rcu_read_unlock(c, x)) \/ ContextSwitch(c)
               \/ rcu_check_callbacks(c)
        PROVE  UNCHANGED <<curlist, donelist, nxtlist>>
    BY <2>2 DEF rcu_read_lock, rcu_read_unlock, ContextSwitch, rcu_check_callbacks, Finish,
       lists
  <2>3. ASSUME Barrier \/ Hotplug
        PROVE  \/ UNCHANGED <<curlist, donelist, nxtlist>>
               \/ \E c \in CPU : \/ rcu_barrier_func(c) \/ CpuUp(c)
               \/ OfflineMove
    BY <2>3 DEF Barrier, Hotplug, rcu_barrier, BarrierWait, BarrierReturn, CpuDie,
       OfflineQuiet, PreemptOff, Finish, DeadQuiet, ClearMask, lists
  <2> QED
    BY <2>1, <2>2, <2>3, <1>1, <1>2, <1>3, <1>4, <1>5, <1>6, <1>7, <1>8 DEF Next

\* Where a tasklet is, and who holds the lock.
LEMMA PcTypes ==
  ASSUME IInv, Next
  PROVE  PcOK'
<1>0. PcOK
  BY DEF IInv, ControlOK, TypeOK, PcOK
<1>t. /\ pc \in [CPU -> TaskletPc] /\ online \subseteq CPU
      /\ hp \in [stage : HpStage, cpu : CPU \cup {NoCPU}, this : CPU \cup {NoCPU}]
  BY DEF IInv, ControlOK, TypeOK
\* Nothing that the invariant is about changes.
<1>1. CASE UNCHANGED <<lock, pc, ret>>
  BY <1>0, <1>1 DEF PcOK
<1>2. ASSUME NEW c \in CPU, Advance(c) PROVE PcOK'
  BY <1>0, <1>t, <1>2 DEF Advance, At, Running, Goto, rcp, PcOK, TaskletPc
<1>3. ASSUME NEW c \in CPU, TakeNext(c) PROVE PcOK'
  BY <1>0, <1>t, <1>3 DEF TakeNext, MayTake, At, Running, Goto, rcp, PcOK, TaskletPc
<1>4. ASSUME NEW c \in CPU, NumberBatch(c) PROVE PcOK'
  BY <1>0, <1>t, <1>4 DEF NumberBatch, At, Running, Goto, rcp, PcOK, TaskletPc
<1>5. ASSUME NEW c \in CPU, ReadPending(c) PROVE PcOK'
  BY <1>0, <1>t, <1>5 DEF ReadPending, MustAsk, At, Running, Goto, rcp, PcOK, TaskletPc
<1>6. ASSUME NEW c \in CPU, SetPending(c) PROVE PcOK'
  BY <1>0, <1>t, <1>6 DEF SetPending, At, Running, Goto, PcOK, TaskletPc
<1>7. ASSUME NEW c \in CPU, StartBatch(c) PROVE PcOK'
  BY <1>0, <1>t, <1>7 DEF StartBatch, MayStart, At, Running, Goto, PcOK, TaskletPc
<1>8. ASSUME NEW c \in CPU, IncrCur(c) PROVE PcOK'
  BY <1>0, <1>t, <1>8 DEF IncrCur, At, Running, Goto, PcOK, TaskletPc
<1>9. ASSUME NEW c \in CPU, CheckQuiescent(c) PROVE PcOK'
  BY <1>0, <1>t, <1>9 DEF CheckQuiescent, ForgetQuiet, At, Running, Goto, rcp, PcOK, TaskletPc
<1>10. ASSUME NEW c \in CPU, NoteBatch(c) PROVE PcOK'
  BY <1>0, <1>t, <1>10 DEF NoteBatch, At, Running, Goto, rcp, PcOK, TaskletPc
<1>11. ASSUME NEW c \in CPU, ReportQuiet(c) PROVE PcOK'
  BY <1>0, <1>t, <1>11 DEF ReportQuiet, ClearMask, At, Running, Goto, PcOK, TaskletPc
<1>12. ASSUME NEW c \in CPU, rcu_do_batch(c) PROVE PcOK'
  BY <1>0, <1>t, <1>12 DEF rcu_do_batch, At, Running, Goto, rcp, PcOK, TaskletPc
<1>13. CASE OfflineQuiet
  BY <1>0, <1>t, <1>13 DEF OfflineQuiet, DeadQuiet, ClearMask, PreemptOff, Running, Goto, PcOK,
     TaskletPc
<1> QED
  <2>1. ASSUME NEW c \in CPU,
               \/ (\E x \in work.reads : rcu_read_lock(c, x))
               \/ (\E x \in work.reads : rcu_read_unlock(c, x))
               \/ (\E f \in Callback : call_rcu(c, f)) \/ ContextSwitch(c)
               \/ rcu_check_callbacks(c)
        PROVE  UNCHANGED <<lock, pc, ret>>
    BY <2>1 DEF rcu_read_lock, rcu_read_unlock, call_rcu, ContextSwitch, rcu_check_callbacks,
       Finish, Enqueue, rcp
  <2>2. ASSUME Barrier \/ Hotplug
        PROVE  \/ UNCHANGED <<lock, pc, ret>>
               \/ OfflineQuiet
    BY <2>2 DEF Barrier, Hotplug, rcu_barrier, rcu_barrier_func, BarrierWait, BarrierReturn,
       CpuDie, OfflineMove, CpuUp, PreemptOff, Enqueue, Finish, Move, rcp
  <2> QED
    BY <2>1, <2>2, <1>1, <1>2, <1>3, <1>4, <1>5, <1>6, <1>7, <1>8, <1>9, <1>10, <1>11, <1>12,
       <1>13 DEF Next, Tasklet

\* Batch numbers.
LEMMA BatchTypes ==
  ASSUME IInv, Next
  PROVE  BatchOK'
<1>0. BatchOK
  BY DEF IInv, ControlOK, TypeOK, BatchOK
<1>t. /\ pc \in [CPU -> TaskletPc] /\ online \subseteq CPU
  BY DEF IInv, ControlOK, TypeOK
\* Nothing that the invariant is about changes.
<1>1. CASE UNCHANGED <<batch, completed, cpumask, cur, next_pending, quiescbatch>>
  BY <1>0, <1>1 DEF BatchOK
<1>2. ASSUME NEW c \in CPU, NumberBatch(c) PROVE BatchOK'
  BY <1>0, <1>t, <1>2 DEF NumberBatch, At, Running, Goto, rcp, qs, BatchOK
<1>3. ASSUME NEW c \in CPU, SetPending(c) PROVE BatchOK'
  BY <1>0, <1>t, <1>3 DEF SetPending, At, Running, Goto, qs, lists, BatchOK
<1>4. ASSUME NEW c \in CPU, StartBatch(c) PROVE BatchOK'
  BY <1>0, <1>t, <1>4 DEF StartBatch, MayStart, At, Running, Goto, qs, lists, BatchOK
<1>5. ASSUME NEW c \in CPU, IncrCur(c) PROVE BatchOK'
  BY <1>0, <1>t, <1>5 DEF IncrCur, At, Running, Goto, qs, lists, BatchOK
<1>6. ASSUME NEW c \in CPU, NoteBatch(c) PROVE BatchOK'
  BY <1>0, <1>t, <1>6 DEF NoteBatch, At, Running, Goto, rcp, lists, BatchOK
<1>7. ASSUME NEW c \in CPU, ReportQuiet(c) PROVE BatchOK'
  BY <1>0, <1>t, <1>7 DEF ReportQuiet, ClearMask, At, Running, Goto, qs, lists, BatchOK
<1>8. CASE OfflineQuiet
  BY <1>0, <1>t, <1>8 DEF OfflineQuiet, DeadQuiet, ClearMask, PreemptOff, Running, Goto, qs,
     lists, BatchOK
<1>9. ASSUME NEW c \in CPU, CpuUp(c) PROVE BatchOK'
  BY <1>0, <1>t, <1>9 DEF CpuUp, rcp, BatchOK
<1> QED
  <2>1. ASSUME NEW c \in CPU, Tasklet(c)
        PROVE  \/ UNCHANGED <<batch, completed, cpumask, cur, next_pending, quiescbatch>>
               \/ NumberBatch(c) \/ SetPending(c) \/ StartBatch(c) \/ IncrCur(c)
               \/ NoteBatch(c) \/ ReportQuiet(c)
    BY <2>1 DEF Tasklet, Advance, TakeNext, ReadPending, CheckQuiescent, rcu_do_batch, MayTake,
       MustAsk, ForgetQuiet, Goto, rcp, qs, lists
  <2>2. ASSUME NEW c \in CPU,
               \/ (\E x \in work.reads : rcu_read_lock(c, x))
               \/ (\E x \in work.reads : rcu_read_unlock(c, x))
               \/ (\E f \in Callback : call_rcu(c, f)) \/ ContextSwitch(c)
               \/ rcu_check_callbacks(c)
        PROVE  UNCHANGED <<batch, completed, cpumask, cur, next_pending, quiescbatch>>
    BY <2>2 DEF rcu_read_lock, rcu_read_unlock, call_rcu, ContextSwitch, rcu_check_callbacks,
       Finish, Enqueue, rcp, qs, lists
  <2>3. ASSUME Barrier \/ Hotplug
        PROVE  \/ UNCHANGED <<batch, completed, cpumask, cur, next_pending, quiescbatch>>
               \/ \E c \in CPU : \/ CpuUp(c)
               \/ OfflineQuiet
    BY <2>3 DEF Barrier, Hotplug, rcu_barrier, rcu_barrier_func, BarrierWait, BarrierReturn,
       CpuDie, OfflineMove, PreemptOff, Enqueue, Finish, Move, rcp, qs, lists
  <2> QED
    BY <2>1, <2>2, <2>3, <1>1, <1>2, <1>3, <1>4, <1>5, <1>6, <1>7, <1>8, <1>9 DEF Next

\* Quiescent states.
LEMMA QuietTypes ==
  ASSUME IInv, Next
  PROVE  QuietOK'
<1>0. QuietOK
  BY DEF IInv, ControlOK, TypeOK, QuietOK
<1>t. /\ pc \in [CPU -> TaskletPc] /\ online \subseteq CPU
  BY DEF IInv, ControlOK, TypeOK
\* Nothing that the invariant is about changes.
<1>1. CASE UNCHANGED <<passed_quiesc, qs_pending>>
  BY <1>0, <1>1 DEF QuietOK
<1>2. ASSUME NEW c \in CPU, ContextSwitch(c) PROVE QuietOK'
  BY <1>0, <1>t, <1>2 DEF ContextSwitch, Running, QuietOK
<1>3. ASSUME NEW c \in CPU, rcu_check_callbacks(c) PROVE QuietOK'
  BY <1>0, <1>t, <1>3 DEF rcu_check_callbacks, QuietOK
<1>4. ASSUME NEW c \in CPU, CheckQuiescent(c) PROVE QuietOK'
  BY <1>0, <1>t, <1>4 DEF CheckQuiescent, ForgetQuiet, At, Running, Goto, QuietOK
<1>5. ASSUME NEW c \in CPU, CpuDie(c) PROVE QuietOK'
  BY <1>0, <1>t, <1>5 DEF CpuDie, QuietOK
<1>6. ASSUME NEW c \in CPU, CpuUp(c) PROVE QuietOK'
  BY <1>0, <1>t, <1>6 DEF CpuUp, QuietOK
<1> QED
  <2>1. ASSUME NEW c \in CPU, Tasklet(c)
        PROVE  \/ UNCHANGED <<passed_quiesc, qs_pending>>
               \/ CheckQuiescent(c)
    BY <2>1 DEF Tasklet, Advance, TakeNext, NumberBatch, ReadPending, SetPending, StartBatch,
       IncrCur, NoteBatch, ReportQuiet, rcu_do_batch, MayTake, MustAsk, MayStart, ClearMask,
       Goto, qs
  <2>2. ASSUME NEW c \in CPU,
               \/ (\E x \in work.reads : rcu_read_lock(c, x))
               \/ (\E x \in work.reads : rcu_read_unlock(c, x))
               \/ (\E f \in Callback : call_rcu(c, f))
        PROVE  UNCHANGED <<passed_quiesc, qs_pending>>
    BY <2>2 DEF rcu_read_lock, rcu_read_unlock, call_rcu, Finish, Enqueue, qs
  <2>3. ASSUME Barrier \/ Hotplug
        PROVE  \/ UNCHANGED <<passed_quiesc, qs_pending>>
               \/ \E c \in CPU : \/ CpuDie(c) \/ CpuUp(c)
    BY <2>3 DEF Barrier, Hotplug, rcu_barrier, rcu_barrier_func, BarrierWait, BarrierReturn,
       OfflineQuiet, OfflineMove, PreemptOff, Enqueue, Finish, DeadQuiet, ClearMask, Move, qs
  <2> QED
    BY <2>1, <2>2, <2>3, <1>1, <1>2, <1>3, <1>4, <1>5, <1>6 DEF Next

\* Counters and limits.
LEMMA CountTypes ==
  ASSUME IInv, Next
  PROVE  CountOK'
<1>0. CountOK
  BY DEF IInv, ControlOK, TypeOK, CountOK
<1>t. /\ pc \in [CPU -> TaskletPc] /\ online \subseteq CPU
  BY DEF IInv, ControlOK, TypeOK
\* Nothing that the invariant is about changes.
<1>1. CASE UNCHANGED <<blimit, qlen>>
  BY <1>0, <1>1 DEF CountOK
<1>2. ASSUME NEW c \in CPU, NEW f \in Callback, call_rcu(c, f) PROVE CountOK'
  <2>1. EnqueueEffect(c, f)
    BY <1>2, EnqueueStep DEF call_rcu, RcuHead
  <2> QED
    BY <2>1, <1>0 DEF EnqueueEffect, CountOK
<1>3. ASSUME NEW c \in CPU, rcu_do_batch(c) PROVE CountOK'
  <2>1. DoBatchEffect(c)
    BY <1>3, DoBatchStep
  <2> QED
    BY <2>1, <1>0, <1>t DEF DoBatchEffect, CountOK
<1>4. ASSUME NEW c \in CPU, rcu_barrier_func(c) PROVE CountOK'
  <2>1. EnqueueEffect(c, c)
    BY <1>4, EnqueueStep DEF rcu_barrier_func, RcuHead
  <2> QED
    BY <2>1, <1>0 DEF EnqueueEffect, CountOK
<1>5. ASSUME NEW c \in CPU, CpuUp(c) PROVE CountOK'
  BY <1>0, <1>t, <1>5 DEF CpuUp, CountOK
<1> QED
  <2>1. ASSUME NEW c \in CPU, Tasklet(c)
        PROVE  \/ UNCHANGED <<blimit, qlen>>
               \/ rcu_do_batch(c)
    BY <2>1 DEF Tasklet, Advance, TakeNext, NumberBatch, ReadPending, SetPending, StartBatch,
       IncrCur, CheckQuiescent, NoteBatch, ReportQuiet, MayTake, MustAsk, MayStart,
       ForgetQuiet, ClearMask, Goto, lists
  <2>2. ASSUME NEW c \in CPU,
               \/ (\E x \in work.reads : rcu_read_lock(c, x))
               \/ (\E x \in work.reads : rcu_read_unlock(c, x)) \/ ContextSwitch(c)
               \/ rcu_check_callbacks(c)
        PROVE  UNCHANGED <<blimit, qlen>>
    BY <2>2 DEF rcu_read_lock, rcu_read_unlock, ContextSwitch, rcu_check_callbacks, Finish,
       lists
  <2>3. ASSUME Barrier \/ Hotplug
        PROVE  \/ UNCHANGED <<blimit, qlen>>
               \/ \E c \in CPU : \/ rcu_barrier_func(c) \/ CpuUp(c)
    BY <2>3 DEF Barrier, Hotplug, rcu_barrier, BarrierWait, BarrierReturn, CpuDie,
       OfflineQuiet, OfflineMove, PreemptOff, Finish, DeadQuiet, ClearMask, Move, lists
  <2> QED
    BY <2>1, <2>2, <2>3, <1>1, <1>2, <1>3, <1>4, <1>5 DEF Next

\* Readers and callbacks.
LEMMA ReaderTypes ==
  ASSUME IInv, Next
  PROVE  ReaderOK'
<1>0. ReaderOK /\ HeadInv
  BY DEF IInv, ControlOK, TypeOK, ReaderOK
<1>t. /\ pc \in [CPU -> TaskletPc] /\ online \subseteq CPU
      /\ donelist \in [CPU -> Seq(RcuHead)]
      /\ hp \in [stage : HpStage, cpu : CPU \cup {NoCPU}, this : CPU \cup {NoCPU}]
  BY DEF IInv, ControlOK, TypeOK
\* Nothing that the invariant is about changes.
<1>1. CASE UNCHANGED <<active, called, invoked, waits>>
  BY <1>0, <1>1 DEF ReaderOK
<1>2. ASSUME NEW c \in CPU, NEW x \in work.reads, rcu_read_lock(c, x) PROVE ReaderOK'
  <2>1. x \in Context
    BY RcuAssumption DEF IInv, ControlOK, Context
  <2> QED
    BY <1>2, <2>1, <1>0 DEF rcu_read_lock, ghost, ReaderOK
<1>3. ASSUME NEW c \in CPU, NEW x \in work.reads, rcu_read_unlock(c, x) PROVE ReaderOK'
  BY <1>0, <1>t, <1>3 DEF rcu_read_unlock, Finish, Running, ReaderOK, Context, Reader,
     AllReaders
<1>4. ASSUME NEW c \in CPU, NEW f \in Callback, call_rcu(c, f) PROVE ReaderOK'
  BY <1>0, <1>t, <1>4 DEF call_rcu, Enqueue, ReaderOK, Context, Reader, AllReaders
<1>5. ASSUME NEW c \in CPU, rcu_do_batch(c) PROVE ReaderOK'
  <2>1. DoBatchEffect(c)
    BY <1>5, DoBatchStep
  <2>2. ToSet(donelist[c]) \cap Callback \subseteq called
    BY <1>0, RcuAssumption DEF HeadInv
  <2> QED
    BY <2>1, <2>2, <1>0 DEF DoBatchEffect, ReaderOK
<1>6. ASSUME NEW c \in CPU, rcu_barrier(c) PROVE ReaderOK'
  BY <1>0, <1>t, <1>6 DEF rcu_barrier, PreemptOff, Running, ReaderOK, Context, Reader,
     AllReaders
<1>7. ASSUME NEW c \in CPU, BarrierWait(c) PROVE ReaderOK'
  BY <1>0, <1>t, <1>7 DEF BarrierWait, Finish, Running, ReaderOK, Context, Reader, AllReaders
<1>8. CASE OfflineQuiet
  BY <1>0, <1>t, <1>8 DEF OfflineQuiet, DeadQuiet, ClearMask, PreemptOff, Running, Goto, ghost,
     ReaderOK, Context, Reader, AllReaders
<1>9. CASE OfflineMove
  <2>1. OfflineMoveEffect
    BY <1>9, OfflineMoveStep
  <2>2. UNCHANGED <<active, waits>> \/ Finish(hp.this, "task")
    BY <2>1 DEF OfflineMoveEffect
  <2>3. active' \in [CPU -> SUBSET Context] /\ waits' \in [Callback -> SUBSET Reader]
    BY <2>2, <1>0 DEF Finish, ReaderOK
  <2> QED
    BY <2>1, <2>3, <1>0 DEF OfflineMoveEffect, ReaderOK
<1> QED
  <2>1. ASSUME NEW c \in CPU, Tasklet(c)
        PROVE  \/ UNCHANGED <<active, called, invoked, waits>>
               \/ rcu_do_batch(c)
    BY <2>1 DEF Tasklet, Advance, TakeNext, NumberBatch, ReadPending, SetPending, StartBatch,
       IncrCur, CheckQuiescent, NoteBatch, ReportQuiet, MayTake, MustAsk, MayStart,
       ForgetQuiet, ClearMask, Goto, ghost
  <2>2. ASSUME NEW c \in CPU,
               \/ ContextSwitch(c) \/ rcu_check_callbacks(c)
        PROVE  UNCHANGED <<active, called, invoked, waits>>
    BY <2>2 DEF ContextSwitch, rcu_check_callbacks, ghost
  <2>3. ASSUME Barrier \/ Hotplug
        PROVE  \/ UNCHANGED <<active, called, invoked, waits>>
               \/ \E c \in CPU : \/ rcu_barrier(c) \/ BarrierWait(c)
               \/ OfflineQuiet \/ OfflineMove
    BY <2>3 DEF Barrier, Hotplug, rcu_barrier_func, BarrierReturn, CpuDie, CpuUp, Enqueue, ghost
  <2> QED
    BY <2>1, <2>2, <2>3, <1>1, <1>2, <1>3, <1>4, <1>5, <1>6, <1>7, <1>8, <1>9 DEF Next

\* CPUs going down and coming up.
LEMMA HotplugTypes ==
  ASSUME IInv, Next
  PROVE  HotplugOK'
<1>0. HotplugOK
  BY DEF IInv, ControlOK, TypeOK, HotplugOK
<1>t. /\ pc \in [CPU -> TaskletPc] /\ online \subseteq CPU
  BY DEF IInv, ControlOK, TypeOK
\* Nothing that the invariant is about changes.
<1>1. CASE UNCHANGED <<downs, hp, online, work>>
  BY <1>0, <1>1 DEF HotplugOK
<1>2. ASSUME NEW c \in CPU, CpuDie(c) PROVE HotplugOK'
  BY <1>0, <1>t, <1>2 DEF CpuDie, HotplugOK, HpStage
<1>3. CASE OfflineQuiet
  BY <1>0, <1>t, <1>3 DEF OfflineQuiet, DeadQuiet, ClearMask, PreemptOff, Running, Goto,
     HotplugOK, HpStage
<1>4. CASE OfflineMove
  <2>1. /\ UNCHANGED <<online, work, downs>>
        /\ \/ \E s \in {"nxtlist", "donelist"} : hp' = [hp EXCEPT !.stage = s]
           \/ hp' = [stage |-> "none", cpu |-> NoCPU, this |-> NoCPU]
    BY <1>4 DEF OfflineMove
  <2> QED
    BY <2>1, <1>0 DEF HotplugOK, HpStage
<1>5. ASSUME NEW c \in CPU, CpuUp(c) PROVE HotplugOK'
  BY <1>0, <1>t, <1>5 DEF CpuUp, HotplugOK, HpStage
<1> QED
  <2>1. ASSUME NEW c \in CPU, Tasklet(c)
        PROVE  UNCHANGED <<downs, hp, online, work>>
    BY <2>1 DEF Tasklet, Advance, TakeNext, NumberBatch, ReadPending, SetPending, StartBatch,
       IncrCur, CheckQuiescent, NoteBatch, ReportQuiet, rcu_do_batch, MayTake, MustAsk,
       MayStart, ForgetQuiet, ClearMask, Goto, cpus
  <2>2. ASSUME NEW c \in CPU,
               \/ (\E x \in work.reads : rcu_read_lock(c, x))
               \/ (\E x \in work.reads : rcu_read_unlock(c, x))
               \/ (\E f \in Callback : call_rcu(c, f)) \/ ContextSwitch(c)
               \/ rcu_check_callbacks(c)
        PROVE  UNCHANGED <<downs, hp, online, work>>
    BY <2>2 DEF rcu_read_lock, rcu_read_unlock, call_rcu, ContextSwitch, rcu_check_callbacks,
       Finish, Enqueue, cpus
  <2>3. ASSUME Barrier \/ Hotplug
        PROVE  \/ UNCHANGED <<downs, hp, online, work>>
               \/ \E c \in CPU : \/ CpuDie(c) \/ CpuUp(c)
               \/ OfflineQuiet \/ OfflineMove
    BY <2>3 DEF Barrier, Hotplug, rcu_barrier, rcu_barrier_func, BarrierWait, BarrierReturn,
       PreemptOff, Enqueue, Finish, cpus
  <2> QED
    BY <2>1, <2>2, <2>3, <1>1, <1>2, <1>3, <1>4, <1>5 DEF Next

-----------------------------------------------------------------------------
(* Every step preserves every part of the invariant.                         *)

\* A CPU goes down when nothing runs on it, and nothing does until it is back.
LEMMA OfflineStep ==
  ASSUME IInv, Next
  PROVE  OfflineInv'
<1>0. OfflineInv /\ BatchInv
  BY DEF IInv
<1>t. /\ pc \in [CPU -> TaskletPc] /\ ret \in [CPU -> {"check", "invoke", "idle"}]
      /\ hp \in [stage : HpStage, cpu : CPU \cup {NoCPU}, this : CPU \cup {NoCPU}]
      /\ cpumask \subseteq CPU /\ online \subseteq CPU /\ active \in [CPU -> SUBSET Context]
      /\ work \in Workload /\ downs \in Nat
  BY DEF IInv, ControlOK, TypeOK
\* Nothing that the invariant is about changes.
<1>1. CASE UNCHANGED <<active, cpumask, hp, online, pc, work>>
  BY <1>0, <1>1 DEF OfflineInv
<1>2. ASSUME NEW c \in CPU, NEW x \in work.reads, rcu_read_lock(c, x) PROVE OfflineInv'
  BY <1>0, <1>t, <1>2 DEF rcu_read_lock, Running, rcp, cpus, OfflineInv
<1>3. ASSUME NEW c \in CPU, NEW x \in work.reads, rcu_read_unlock(c, x) PROVE OfflineInv'
  BY <1>0, <1>t, <1>3 DEF rcu_read_unlock, Finish, Running, rcp, cpus, OfflineInv
<1>4. ASSUME NEW c \in CPU, Advance(c) PROVE OfflineInv'
  BY <1>0, <1>t, <1>4 DEF Advance, At, Running, Goto, rcp, cpus, OfflineInv
<1>5. ASSUME NEW c \in CPU, TakeNext(c) PROVE OfflineInv'
  BY <1>0, <1>t, <1>5 DEF TakeNext, MayTake, At, Running, Goto, rcp, cpus, OfflineInv
<1>6. ASSUME NEW c \in CPU, NumberBatch(c) PROVE OfflineInv'
  BY <1>0, <1>t, <1>6 DEF NumberBatch, At, Running, Goto, rcp, cpus, OfflineInv
<1>7. ASSUME NEW c \in CPU, ReadPending(c) PROVE OfflineInv'
  BY <1>0, <1>t, <1>7 DEF ReadPending, MustAsk, At, Running, Goto, rcp, cpus, OfflineInv
<1>8. ASSUME NEW c \in CPU, SetPending(c) PROVE OfflineInv'
  BY <1>0, <1>t, <1>8 DEF SetPending, At, Running, Goto, cpus, OfflineInv
<1>9. ASSUME NEW c \in CPU, StartBatch(c) PROVE OfflineInv'
  BY <1>0, <1>t, <1>9 DEF StartBatch, MayStart, At, Running, Goto, cpus, OfflineInv
<1>10. ASSUME NEW c \in CPU, IncrCur(c) PROVE OfflineInv'
  BY <1>0, <1>t, <1>10 DEF IncrCur, At, Running, Goto, cpus, OfflineInv
<1>11. ASSUME NEW c \in CPU, CheckQuiescent(c) PROVE OfflineInv'
  BY <1>0, <1>t, <1>11 DEF CheckQuiescent, ForgetQuiet, At, Running, Goto, rcp, cpus, OfflineInv
<1>12. ASSUME NEW c \in CPU, NoteBatch(c) PROVE OfflineInv'
  BY <1>0, <1>t, <1>12 DEF NoteBatch, At, Running, Goto, rcp, cpus, OfflineInv
<1>13. ASSUME NEW c \in CPU, ReportQuiet(c) PROVE OfflineInv'
  BY <1>0, <1>t, <1>13 DEF ReportQuiet, ClearMask, At, Running, Goto, cpus, OfflineInv
<1>14. ASSUME NEW c \in CPU, rcu_do_batch(c) PROVE OfflineInv'
  BY <1>0, <1>t, <1>14 DEF rcu_do_batch, At, Running, Goto, rcp, cpus, OfflineInv
<1>15. ASSUME NEW c \in CPU, rcu_barrier(c) PROVE OfflineInv'
  BY <1>0, <1>t, <1>15 DEF rcu_barrier, PreemptOff, Running, rcp, cpus, OfflineInv
<1>16. ASSUME NEW c \in CPU, BarrierWait(c) PROVE OfflineInv'
  BY <1>0, <1>t, <1>16 DEF BarrierWait, Finish, Running, rcp, cpus, OfflineInv
<1>17. ASSUME NEW c \in CPU, CpuDie(c) PROVE OfflineInv'
  BY <1>0, <1>t, <1>17 DEF CpuDie, rcp, OfflineInv
<1>18. CASE OfflineQuiet
  <2>1. /\ hp.this \in online /\ hp.this \in CPU /\ hp.stage = "dying"
        /\ hp' = [hp EXCEPT !.stage = "curlist"] /\ active' = [active EXCEPT ![hp.this] = {"task"}]
        /\ online' = online /\ work' = work
        /\ cpumask' = IF cur # completed THEN cpumask \ {hp.cpu} ELSE cpumask
        /\ pc' = [pc EXCEPT ![hp.this] = "startbatch"] \/ pc' = pc
    BY <1>18, <1>t DEF OfflineQuiet, DeadQuiet, ClearMask, PreemptOff, Running, Goto
  <2>2. hp'.stage = "curlist" /\ hp'.cpu = hp.cpu
    BY <2>1, <1>t
  <2>3. hp.cpu \notin cpumask'
    BY <2>1, <1>0 DEF BatchInv
  <2>4. \A c \in CPU \ online : pc'[c] = pc[c] /\ active'[c] = active[c]
    BY <2>1, <1>t
  <2> QED
    BY <2>1, <2>2, <2>3, <2>4, <1>0 DEF OfflineInv
<1>19. CASE OfflineMove
  <2>1. /\ hp.this \in online /\ hp.stage # "none" /\ pc' = pc /\ online' = online /\ work' = work
        /\ cpumask' = cpumask
        /\ active' = active \/ active' = [active EXCEPT ![hp.this] = @ \ {"task"}]
        /\ \/ hp' = [hp EXCEPT !.stage = "nxtlist"] /\ hp.stage = "curlist"
           \/ hp' = [hp EXCEPT !.stage = "donelist"] /\ hp.stage = "nxtlist"
           \/ hp' = [stage |-> "none", cpu |-> NoCPU, this |-> NoCPU]
    BY <1>19 DEF OfflineMove, Finish, Running, rcp
  <2>2. \/ hp'.stage \in {"nxtlist", "donelist"} /\ hp'.cpu = hp.cpu /\ hp.stage \in {"curlist", "nxtlist"}
        \/ hp'.stage = "none" /\ hp'.cpu = NoCPU
    BY <2>1, <1>t
  <2>3. \A c \in CPU \ online : active'[c] = active[c]
    BY <2>1, <1>t
  <2> QED
    BY <2>1, <2>2, <2>3, <1>0 DEF OfflineInv
<1>20. ASSUME NEW c \in CPU, CpuUp(c) PROVE OfflineInv'
  BY <1>0, <1>t, <1>20 DEF CpuUp, rcp, OfflineInv
<1> QED
  <2>1. ASSUME NEW c \in CPU,
               \/ (\E f \in Callback : call_rcu(c, f)) \/ ContextSwitch(c)
               \/ rcu_check_callbacks(c)
        PROVE  UNCHANGED <<active, cpumask, hp, online, pc, work>>
    BY <2>1 DEF call_rcu, ContextSwitch, rcu_check_callbacks, Enqueue, rcp, cpus
  <2>2. ASSUME Barrier \/ Hotplug
        PROVE  \/ UNCHANGED <<active, cpumask, hp, online, pc, work>>
               \/ \E c \in CPU : \/ rcu_barrier(c) \/ BarrierWait(c) \/ CpuDie(c) \/ CpuUp(c)
               \/ OfflineQuiet \/ OfflineMove
    BY <2>2 DEF Barrier, Hotplug, rcu_barrier_func, BarrierReturn, Enqueue, rcp, cpus
  <2> QED
    BY <2>1, <2>2, <1>1, <1>2, <1>3, <1>4, <1>5, <1>6, <1>7, <1>8, <1>9, <1>10, <1>11, <1>12,
       <1>13, <1>14, <1>15, <1>16, <1>17, <1>18, <1>19, <1>20 DEF Next, Tasklet

\* rcu_start_batch() keeps rcp->lock from its first store to its last.
LEMMA LockStep ==
  ASSUME IInv, Next
  PROVE  LockInv'
<1>0. LockInv
  BY DEF IInv
<1>t. /\ pc \in [CPU -> TaskletPc] /\ ret \in [CPU -> {"check", "invoke", "idle"}]
      /\ NoCPU \notin CPU
  BY RcuAssumption DEF IInv, ControlOK, TypeOK
\* Nothing that the invariant is about changes.
<1>1. CASE UNCHANGED <<completed, cur, lock, pc>>
  BY <1>0, <1>1 DEF LockInv
<1>2. ASSUME NEW c \in CPU, Advance(c) PROVE LockInv'
  BY <1>0, <1>t, <1>2 DEF Advance, At, Running, Goto, rcp, LockInv
<1>3. ASSUME NEW c \in CPU, TakeNext(c) PROVE LockInv'
  BY <1>0, <1>t, <1>3 DEF TakeNext, MayTake, At, Running, Goto, rcp, LockInv
<1>4. ASSUME NEW c \in CPU, NumberBatch(c) PROVE LockInv'
  BY <1>0, <1>t, <1>4 DEF NumberBatch, At, Running, Goto, rcp, LockInv
<1>5. ASSUME NEW c \in CPU, ReadPending(c) PROVE LockInv'
  BY <1>0, <1>t, <1>5 DEF ReadPending, MustAsk, At, Running, Goto, rcp, LockInv
<1>6. ASSUME NEW c \in CPU, SetPending(c) PROVE LockInv'
  BY <1>0, <1>t, <1>6 DEF SetPending, At, Running, Goto, LockInv
<1>7. ASSUME NEW c \in CPU, StartBatch(c) PROVE LockInv'
  BY <1>0, <1>t, <1>7 DEF StartBatch, MayStart, At, Running, Goto, LockInv
<1>8. ASSUME NEW c \in CPU, IncrCur(c) PROVE LockInv'
  BY <1>0, <1>t, <1>8 DEF IncrCur, At, Running, Goto, LockInv
<1>9. ASSUME NEW c \in CPU, CheckQuiescent(c) PROVE LockInv'
  BY <1>0, <1>t, <1>9 DEF CheckQuiescent, ForgetQuiet, At, Running, Goto, rcp, LockInv
<1>10. ASSUME NEW c \in CPU, NoteBatch(c) PROVE LockInv'
  BY <1>0, <1>t, <1>10 DEF NoteBatch, At, Running, Goto, rcp, LockInv
<1>11. ASSUME NEW c \in CPU, ReportQuiet(c) PROVE LockInv'
  BY <1>0, <1>t, <1>11 DEF ReportQuiet, ClearMask, At, Running, Goto, LockInv
<1>12. ASSUME NEW c \in CPU, rcu_do_batch(c) PROVE LockInv'
  BY <1>0, <1>t, <1>12 DEF rcu_do_batch, At, Running, Goto, rcp, LockInv
<1>13. CASE OfflineQuiet
  BY <1>0, <1>t, <1>13 DEF OfflineQuiet, DeadQuiet, ClearMask, PreemptOff, Running, Goto,
     LockInv
<1> QED
  <2>1. ASSUME NEW c \in CPU,
               \/ (\E x \in work.reads : rcu_read_lock(c, x))
               \/ (\E x \in work.reads : rcu_read_unlock(c, x))
               \/ (\E f \in Callback : call_rcu(c, f)) \/ ContextSwitch(c)
               \/ rcu_check_callbacks(c)
        PROVE  UNCHANGED <<completed, cur, lock, pc>>
    BY <2>1 DEF rcu_read_lock, rcu_read_unlock, call_rcu, ContextSwitch, rcu_check_callbacks,
       Finish, Enqueue, rcp
  <2>2. ASSUME Barrier \/ Hotplug
        PROVE  \/ UNCHANGED <<completed, cur, lock, pc>>
               \/ OfflineQuiet
    BY <2>2 DEF Barrier, Hotplug, rcu_barrier, rcu_barrier_func, BarrierWait, BarrierReturn,
       CpuDie, OfflineMove, CpuUp, PreemptOff, Enqueue, Finish, Move, rcp
  <2> QED
    BY <2>1, <2>2, <1>1, <1>2, <1>3, <1>4, <1>5, <1>6, <1>7, <1>8, <1>9, <1>10, <1>11, <1>12,
       <1>13 DEF Next, Tasklet

\* cpumask is empty exactly between two grace periods.
LEMMA BatchStep ==
  ASSUME IInv, Next
  PROVE  BatchInv'
<1>0. BatchInv /\ OfflineInv /\ LockInv
  BY DEF IInv
<1>t. /\ pc \in [CPU -> TaskletPc] /\ ret \in [CPU -> {"check", "invoke", "idle"}]
      /\ cur \in Int /\ completed \in Int /\ cpumask \subseteq CPU
      /\ quiescbatch \in [CPU -> Int] /\ batch \in [CPU -> Int] /\ online \subseteq CPU
      /\ curlist \in [CPU -> Seq(RcuHead)]
  BY DEF IInv, ControlOK, TypeOK
\* Nothing that the invariant is about changes.
<1>1. CASE UNCHANGED <<batch, completed, cpumask, cur, curlist, pc, quiescbatch>>
  BY <1>0, <1>1 DEF BatchInv
<1>2. ASSUME NEW c \in CPU, Advance(c) PROVE BatchInv'
  <2>1. AdvanceEffect(c)
    BY <1>2, AdvanceStep
  <2> QED
    BY <2>1, <1>0, <1>t DEF AdvanceEffect, BatchInv
<1>3. ASSUME NEW c \in CPU, TakeNext(c) PROVE BatchInv'
  <2>1. TakeNextEffect(c)
    BY <1>3, TakeNextStep
  <2> QED
    BY <2>1, <1>0, <1>t DEF TakeNextEffect, BatchInv
<1>4. ASSUME NEW c \in CPU, NumberBatch(c) PROVE BatchInv'
  <2>1. NumberBatchEffect(c)
    BY <1>4, NumberBatchStep
  <2>2. cur' - completed' \in {0, 1} /\ (cpumask' = {} <=> cur' = completed')
    BY <2>1, <1>0, <1>t DEF NumberBatchEffect, BatchInv
  <2>3. ASSUME NEW d \in CPU
        PROVE  /\ quiescbatch'[d] <= cur'
               /\ curlist'[d] # <<>> /\ pc'[d] # "number" => batch'[d] <= cur' + 1
    <3>1. /\ quiescbatch[d] <= cur /\ quiescbatch[d] \in Int /\ batch[d] \in Int
          /\ curlist[d] # <<>> /\ pc[d] # "number" => batch[d] <= cur + 1
      BY <1>0, <1>t DEF BatchInv
    <3> QED
      BY <3>1, <2>1, <2>2, <1>t DEF NumberBatchEffect
  <2> QED
    BY <2>2, <2>3 DEF BatchInv
<1>5. ASSUME NEW c \in CPU, ReadPending(c) PROVE BatchInv'
  BY <1>0, <1>t, <1>5 DEF ReadPending, MustAsk, At, Running, Goto, rcp, qs, lists, BatchInv
<1>6. ASSUME NEW c \in CPU, SetPending(c) PROVE BatchInv'
  BY <1>0, <1>t, <1>6 DEF SetPending, At, Running, Goto, qs, lists, BatchInv
<1>7. ASSUME NEW c \in CPU, StartBatch(c) PROVE BatchInv'
  <2>1. StartBatchEffect(c)
    BY <1>7, StartBatchStep
  <2> QED
    BY <2>1, <1>0, <1>t DEF StartBatchEffect, BatchInv
<1>8. ASSUME NEW c \in CPU, IncrCur(c) PROVE BatchInv'
  <2>1. IncrCurEffect(c)
    BY <1>8, IncrCurStep
  <2>2. cur' - completed' \in {0, 1} /\ (cpumask' = {} <=> cur' = completed')
    BY <2>1, <1>0, <1>t DEF IncrCurEffect, BatchInv
  <2>3. ASSUME NEW d \in CPU
        PROVE  /\ quiescbatch'[d] <= cur'
               /\ curlist'[d] # <<>> /\ pc'[d] # "number" => batch'[d] <= cur' + 1
    <3>1. /\ quiescbatch[d] <= cur /\ quiescbatch[d] \in Int /\ batch[d] \in Int
          /\ curlist[d] # <<>> /\ pc[d] # "number" => batch[d] <= cur + 1
      BY <1>0, <1>t DEF BatchInv
    <3> QED
      BY <3>1, <2>1, <2>2, <1>t DEF IncrCurEffect
  <2> QED
    BY <2>2, <2>3 DEF BatchInv
<1>9. ASSUME NEW c \in CPU, CheckQuiescent(c) PROVE BatchInv'
  <2>1. CheckQuiescentEffect(c)
    BY <1>9, CheckQuiescentStep
  <2> QED
    BY <2>1, <1>0, <1>t DEF CheckQuiescentEffect, BatchInv
<1>10. ASSUME NEW c \in CPU, NoteBatch(c) PROVE BatchInv'
  <2>1. NoteBatchEffect(c)
    BY <1>10, NoteBatchStep
  <2>2. cur' - completed' \in {0, 1} /\ (cpumask' = {} <=> cur' = completed')
    BY <2>1, <1>0, <1>t DEF NoteBatchEffect, BatchInv
  <2>3. ASSUME NEW d \in CPU
        PROVE  /\ quiescbatch'[d] <= cur'
               /\ curlist'[d] # <<>> /\ pc'[d] # "number" => batch'[d] <= cur' + 1
    <3>1. /\ quiescbatch[d] <= cur /\ quiescbatch[d] \in Int /\ batch[d] \in Int
          /\ curlist[d] # <<>> /\ pc[d] # "number" => batch[d] <= cur + 1
      BY <1>0, <1>t DEF BatchInv
    <3>2. CASE d = c
      <4>1. quiescbatch'[d] = cur' /\ cur' = cur /\ batch'[d] = batch[d] /\ curlist'[d] = curlist[d] /\ pc[d] # "number"
        BY <2>1, <3>2 DEF NoteBatchEffect
      <4> QED
        BY <4>1, <3>1, <2>2, <1>t
    <3>3. CASE d # c
      <4>1. quiescbatch'[d] = quiescbatch[d] /\ batch'[d] = batch[d] /\ pc'[d] = pc[d] /\ cur' = cur
        BY <2>1, <3>3 DEF NoteBatchEffect
      <4>2. curlist'[d] # <<>> => curlist[d] # <<>>
        BY <2>1, <3>3 DEF NoteBatchEffect
      <4> QED
        BY <4>1, <4>2, <3>1
    <3> QED
      BY <3>2, <3>3
  <2> QED
    BY <2>2, <2>3 DEF BatchInv
<1>11. ASSUME NEW c \in CPU, ReportQuiet(c) PROVE BatchInv'
  <2>1. ReportQuietEffect(c)
    BY <1>11, ReportQuietStep
  <2>2. cur' - completed' \in {0, 1} /\ (cpumask' = {} <=> cur' = completed')
    BY <2>1, <1>0, <1>t DEF ReportQuietEffect, BatchInv
  <2>3. ASSUME NEW d \in CPU
        PROVE  /\ quiescbatch'[d] <= cur'
               /\ curlist'[d] # <<>> /\ pc'[d] # "number" => batch'[d] <= cur' + 1
    <3>1. /\ quiescbatch[d] <= cur /\ quiescbatch[d] \in Int /\ batch[d] \in Int
          /\ curlist[d] # <<>> /\ pc[d] # "number" => batch[d] <= cur + 1
      BY <1>0, <1>t DEF BatchInv
    <3> QED
      BY <3>1, <2>1, <2>2, <1>t DEF ReportQuietEffect
  <2> QED
    BY <2>2, <2>3 DEF BatchInv
<1>12. ASSUME NEW c \in CPU, rcu_do_batch(c) PROVE BatchInv'
  BY <1>0, <1>t, <1>12 DEF rcu_do_batch, At, Running, Goto, rcp, qs, BatchInv
<1>13. CASE OfflineQuiet
  <2>1. OfflineQuietEffect
    BY <1>13, OfflineQuietStep
  <2>2. cur' - completed' \in {0, 1} /\ (cpumask' = {} <=> cur' = completed')
    BY <2>1, <1>0, <1>t DEF OfflineQuietEffect, BatchInv
  <2>3. ASSUME NEW d \in CPU
        PROVE  /\ quiescbatch'[d] <= cur'
               /\ curlist'[d] # <<>> /\ pc'[d] # "number" => batch'[d] <= cur' + 1
    <3>1. /\ quiescbatch[d] <= cur /\ quiescbatch[d] \in Int /\ batch[d] \in Int
          /\ curlist[d] # <<>> /\ pc[d] # "number" => batch[d] <= cur + 1
      BY <1>0, <1>t DEF BatchInv
    <3> QED
      BY <3>1, <2>1, <2>2, <1>t DEF OfflineQuietEffect
  <2> QED
    BY <2>2, <2>3 DEF BatchInv
<1>14. CASE OfflineMove
  BY <1>0, <1>t, <1>14 DEF OfflineMove, Move, Finish, Running, rcp, qs, BatchInv
<1>15. ASSUME NEW c \in CPU, CpuUp(c) PROVE BatchInv'
  <2>1. CpuUpEffect(c)
    BY <1>15, CpuUpStep
  <2>2. cur' - completed' \in {0, 1} /\ (cpumask' = {} <=> cur' = completed')
    BY <2>1, <1>0, <1>t DEF CpuUpEffect, BatchInv
  <2>3. ASSUME NEW d \in CPU
        PROVE  /\ quiescbatch'[d] <= cur'
               /\ curlist'[d] # <<>> /\ pc'[d] # "number" => batch'[d] <= cur' + 1
    <3>1. /\ quiescbatch[d] <= cur /\ quiescbatch[d] \in Int /\ batch[d] \in Int
          /\ curlist[d] # <<>> /\ pc[d] # "number" => batch[d] <= cur + 1
      BY <1>0, <1>t DEF BatchInv
    <3>2. CASE d = c
      <4>1. quiescbatch'[d] = completed' /\ completed' = completed /\ cur' = cur /\ curlist'[d] = <<>>
        BY <2>1, <3>2 DEF CpuUpEffect
      <4> QED
        BY <4>1, <3>1, <2>2, <1>t
    <3>3. CASE d # c
      <4>1. quiescbatch'[d] = quiescbatch[d] /\ batch'[d] = batch[d] /\ pc'[d] = pc[d] /\ cur' = cur
        BY <2>1, <3>3 DEF CpuUpEffect
      <4>2. curlist'[d] # <<>> => curlist[d] # <<>>
        BY <2>1, <3>3 DEF CpuUpEffect
      <4> QED
        BY <4>1, <4>2, <3>1
    <3> QED
      BY <3>2, <3>3
  <2> QED
    BY <2>2, <2>3 DEF BatchInv
<1> QED
  <2>1. ASSUME NEW c \in CPU,
               \/ (\E x \in work.reads : rcu_read_lock(c, x))
               \/ (\E x \in work.reads : rcu_read_unlock(c, x))
               \/ (\E f \in Callback : call_rcu(c, f)) \/ ContextSwitch(c)
               \/ rcu_check_callbacks(c)
        PROVE  UNCHANGED <<batch, completed, cpumask, cur, curlist, pc, quiescbatch>>
    BY <2>1 DEF rcu_read_lock, rcu_read_unlock, call_rcu, ContextSwitch, rcu_check_callbacks,
       Finish, Enqueue, rcp, qs, lists
  <2>2. ASSUME Barrier \/ Hotplug
        PROVE  \/ UNCHANGED <<batch, completed, cpumask, cur, curlist, pc, quiescbatch>>
               \/ \E c \in CPU : \/ CpuUp(c)
               \/ OfflineQuiet \/ OfflineMove
    BY <2>2 DEF Barrier, Hotplug, rcu_barrier, rcu_barrier_func, BarrierWait, BarrierReturn,
       CpuDie, PreemptOff, Enqueue, Finish, rcp, qs, lists
  <2> QED
    BY <2>1, <2>2, <1>1, <1>2, <1>3, <1>4, <1>5, <1>6, <1>7, <1>8, <1>9, <1>10, <1>11, <1>12,
       <1>13, <1>14, <1>15 DEF Next, Tasklet

\* A quiescent state that is forgotten or reported is not passed meanwhile.
LEMMA QuietStep ==
  ASSUME IInv, Next
  PROVE  QuietInv'
<1>0. QuietInv /\ OfflineInv
  BY DEF IInv
<1>t. /\ pc \in [CPU -> TaskletPc] /\ ret \in [CPU -> {"check", "invoke", "idle"}]
      /\ passed_quiesc \in [CPU -> BOOLEAN] /\ qs_pending \in [CPU -> BOOLEAN]
  BY DEF IInv, ControlOK, TypeOK
\* Nothing that the invariant is about changes.
<1>1. CASE UNCHANGED <<passed_quiesc, pc, qs_pending>>
  BY <1>0, <1>1 DEF QuietInv
<1>2. ASSUME NEW c \in CPU, ContextSwitch(c) PROVE QuietInv'
  BY <1>0, <1>t, <1>2 DEF ContextSwitch, Running, QuietInv
<1>3. ASSUME NEW c \in CPU, rcu_check_callbacks(c) PROVE QuietInv'
  BY <1>0, <1>t, <1>3 DEF rcu_check_callbacks, QuietInv
<1>4. ASSUME NEW c \in CPU, Advance(c) PROVE QuietInv'
  BY <1>0, <1>t, <1>4 DEF Advance, At, Running, Goto, qs, QuietInv
<1>5. ASSUME NEW c \in CPU, TakeNext(c) PROVE QuietInv'
  BY <1>0, <1>t, <1>5 DEF TakeNext, MayTake, At, Running, Goto, qs, QuietInv
<1>6. ASSUME NEW c \in CPU, NumberBatch(c) PROVE QuietInv'
  BY <1>0, <1>t, <1>6 DEF NumberBatch, At, Running, Goto, qs, QuietInv
<1>7. ASSUME NEW c \in CPU, ReadPending(c) PROVE QuietInv'
  BY <1>0, <1>t, <1>7 DEF ReadPending, MustAsk, At, Running, Goto, qs, QuietInv
<1>8. ASSUME NEW c \in CPU, SetPending(c) PROVE QuietInv'
  BY <1>0, <1>t, <1>8 DEF SetPending, At, Running, Goto, qs, QuietInv
<1>9. ASSUME NEW c \in CPU, StartBatch(c) PROVE QuietInv'
  BY <1>0, <1>t, <1>9 DEF StartBatch, MayStart, At, Running, Goto, qs, QuietInv
<1>10. ASSUME NEW c \in CPU, IncrCur(c) PROVE QuietInv'
  BY <1>0, <1>t, <1>10 DEF IncrCur, At, Running, Goto, qs, QuietInv
<1>11. ASSUME NEW c \in CPU, CheckQuiescent(c) PROVE QuietInv'
  BY <1>0, <1>t, <1>11 DEF CheckQuiescent, ForgetQuiet, At, Running, Goto, QuietInv
<1>12. ASSUME NEW c \in CPU, NoteBatch(c) PROVE QuietInv'
  BY <1>0, <1>t, <1>12 DEF NoteBatch, At, Running, Goto, QuietInv
<1>13. ASSUME NEW c \in CPU, ReportQuiet(c) PROVE QuietInv'
  BY <1>0, <1>t, <1>13 DEF ReportQuiet, ClearMask, At, Running, Goto, qs, QuietInv
<1>14. ASSUME NEW c \in CPU, rcu_do_batch(c) PROVE QuietInv'
  BY <1>0, <1>t, <1>14 DEF rcu_do_batch, At, Running, Goto, qs, QuietInv
<1>15. ASSUME NEW c \in CPU, CpuDie(c) PROVE QuietInv'
  BY <1>0, <1>t, <1>15 DEF CpuDie, QuietInv
<1>16. CASE OfflineQuiet
  BY <1>0, <1>t, <1>16 DEF OfflineQuiet, DeadQuiet, ClearMask, PreemptOff, Running, Goto, qs,
     QuietInv
<1>17. ASSUME NEW c \in CPU, CpuUp(c) PROVE QuietInv'
  BY <1>0, <1>t, <1>17 DEF CpuUp, QuietInv, OfflineInv
<1> QED
  <2>1. ASSUME NEW c \in CPU,
               \/ (\E x \in work.reads : rcu_read_lock(c, x))
               \/ (\E x \in work.reads : rcu_read_unlock(c, x))
               \/ (\E f \in Callback : call_rcu(c, f))
        PROVE  UNCHANGED <<passed_quiesc, pc, qs_pending>>
    BY <2>1 DEF rcu_read_lock, rcu_read_unlock, call_rcu, Finish, Enqueue, qs
  <2>2. ASSUME Barrier \/ Hotplug
        PROVE  \/ UNCHANGED <<passed_quiesc, pc, qs_pending>>
               \/ \E c \in CPU : \/ CpuDie(c) \/ CpuUp(c)
               \/ OfflineQuiet
    BY <2>2 DEF Barrier, Hotplug, rcu_barrier, rcu_barrier_func, BarrierWait, BarrierReturn,
       OfflineMove, PreemptOff, Enqueue, Finish, Move, qs
  <2> QED
    BY <2>1, <2>2, <1>1, <1>2, <1>3, <1>4, <1>5, <1>6, <1>7, <1>8, <1>9, <1>10, <1>11, <1>12,
       <1>13, <1>14, <1>15, <1>16, <1>17 DEF Next, Tasklet

\* Every CPU in cpumask still has its report to make.
LEMMA ForgottenStep ==
  ASSUME IInv, Next
  PROVE  NoForgottenCpu'
<1>0. NoForgottenCpu /\ BatchInv /\ LockInv /\ OfflineInv /\ QuietInv
  BY DEF IInv
<1>t. /\ pc \in [CPU -> TaskletPc] /\ ret \in [CPU -> {"check", "invoke", "idle"}]
      /\ cur \in Int /\ completed \in Int /\ quiescbatch \in [CPU -> Int]
      /\ cpumask \subseteq CPU /\ online \subseteq CPU
      /\ hp \in [stage : HpStage, cpu : CPU \cup {NoCPU}, this : CPU \cup {NoCPU}]
      /\ qs_pending \in [CPU -> BOOLEAN] /\ NoCPU \notin CPU
  BY RcuAssumption DEF IInv, ControlOK, TypeOK
\* Nothing that the invariant is about changes.
<1>1. CASE UNCHANGED <<completed, cpumask, cur, hp, online, pc, qs_pending, quiescbatch>>
  BY <1>0, <1>1 DEF NoForgottenCpu
<1>2. ASSUME NEW c \in CPU, Advance(c) PROVE NoForgottenCpu'
  BY <1>0, <1>t, <1>2 DEF Advance, At, Running, Goto, rcp, qs, cpus, NoForgottenCpu
<1>3. ASSUME NEW c \in CPU, TakeNext(c) PROVE NoForgottenCpu'
  BY <1>0, <1>t, <1>3 DEF TakeNext, MayTake, At, Running, Goto, rcp, qs, cpus, NoForgottenCpu
<1>4. ASSUME NEW c \in CPU, NumberBatch(c) PROVE NoForgottenCpu'
  BY <1>0, <1>t, <1>4 DEF NumberBatch, At, Running, Goto, rcp, qs, cpus, NoForgottenCpu
<1>5. ASSUME NEW c \in CPU, ReadPending(c) PROVE NoForgottenCpu'
  BY <1>0, <1>t, <1>5 DEF ReadPending, MustAsk, At, Running, Goto, rcp, qs, cpus, NoForgottenCpu
<1>6. ASSUME NEW c \in CPU, SetPending(c) PROVE NoForgottenCpu'
  BY <1>0, <1>t, <1>6 DEF SetPending, At, Running, Goto, qs, cpus, NoForgottenCpu
<1>7. ASSUME NEW c \in CPU, StartBatch(c) PROVE NoForgottenCpu'
  BY <1>0, <1>t, <1>7 DEF StartBatch, MayStart, At, Running, Goto, qs, cpus, NoForgottenCpu
<1>8. ASSUME NEW c \in CPU, IncrCur(c) PROVE NoForgottenCpu'
  BY <1>0, <1>t, <1>8 DEF IncrCur, At, Running, Goto, qs, cpus, NoForgottenCpu, BatchInv,
     LockInv
<1>9. ASSUME NEW c \in CPU, CheckQuiescent(c) PROVE NoForgottenCpu'
  <2>1. /\ pc[c] = "check" /\ UNCHANGED <<cur, completed, cpumask, online, quiescbatch, hp>>
        /\ \/ /\ quiescbatch[c] # cur /\ qs_pending' = [qs_pending EXCEPT ![c] = TRUE]
              /\ pc' = [pc EXCEPT ![c] = "note"]
           \/ qs_pending' = [qs_pending EXCEPT ![c] = FALSE] /\ pc' = [pc EXCEPT ![c] = "quiet"]
           \/ qs_pending' = qs_pending /\ pc' = [pc EXCEPT ![c] = "invoke"]
    BY <1>9 DEF CheckQuiescent, At, Goto, rcp, cpus
  <2>2. \A d \in CPU \ {c} : qs_pending'[d] = qs_pending[d] /\ pc'[d] = pc[d]
    BY <2>1, <1>t
  <2>3. qs_pending'[c] \/ pc'[c] = "quiet" \/ qs_pending'[c] = qs_pending[c]
    BY <2>1, <1>t
  <2> QED
    BY <2>1, <2>2, <2>3, <1>0, <1>t DEF NoForgottenCpu
<1>10. ASSUME NEW c \in CPU, NoteBatch(c) PROVE NoForgottenCpu'
  BY <1>0, <1>t, <1>10 DEF NoteBatch, At, Running, Goto, rcp, cpus, NoForgottenCpu, QuietInv
<1>11. ASSUME NEW c \in CPU, ReportQuiet(c) PROVE NoForgottenCpu'
  BY <1>0, <1>t, <1>11 DEF ReportQuiet, ClearMask, At, Running, Goto, qs, cpus, NoForgottenCpu
<1>12. ASSUME NEW c \in CPU, rcu_do_batch(c) PROVE NoForgottenCpu'
  BY <1>0, <1>t, <1>12 DEF rcu_do_batch, At, Running, Goto, rcp, qs, cpus, NoForgottenCpu
<1>13. ASSUME NEW c \in CPU, CpuDie(c) PROVE NoForgottenCpu'
  BY <1>0, <1>t, <1>13 DEF CpuDie, rcp, NoForgottenCpu, OfflineInv
<1>14. CASE OfflineQuiet
  BY <1>0, <1>t, <1>14 DEF OfflineQuiet, DeadQuiet, ClearMask, PreemptOff, Running, Goto, qs,
     NoForgottenCpu
<1>15. CASE OfflineMove
  BY <1>0, <1>t, <1>15 DEF OfflineMove, Move, Finish, Running, rcp, qs, NoForgottenCpu,
     OfflineInv
<1>16. ASSUME NEW c \in CPU, CpuUp(c) PROVE NoForgottenCpu'
  BY <1>0, <1>t, <1>16 DEF CpuUp, rcp, NoForgottenCpu
<1> QED
  <2>1. ASSUME NEW c \in CPU,
               \/ (\E x \in work.reads : rcu_read_lock(c, x))
               \/ (\E x \in work.reads : rcu_read_unlock(c, x))
               \/ (\E f \in Callback : call_rcu(c, f)) \/ ContextSwitch(c)
               \/ rcu_check_callbacks(c)
        PROVE  UNCHANGED <<completed, cpumask, cur, hp, online, pc, qs_pending, quiescbatch>>
    BY <2>1 DEF rcu_read_lock, rcu_read_unlock, call_rcu, ContextSwitch, rcu_check_callbacks,
       Finish, Enqueue, rcp, qs, cpus
  <2>2. ASSUME Barrier \/ Hotplug
        PROVE  \/ UNCHANGED <<completed, cpumask, cur, hp, online, pc, qs_pending, quiescbatch>>
               \/ \E c \in CPU : \/ CpuDie(c) \/ CpuUp(c)
               \/ OfflineQuiet \/ OfflineMove
    BY <2>2 DEF Barrier, Hotplug, rcu_barrier, rcu_barrier_func, BarrierWait, BarrierReturn,
       PreemptOff, Enqueue, Finish, rcp, qs, cpus
  <2> QED
    BY <2>1, <2>2, <1>1, <1>2, <1>3, <1>4, <1>5, <1>6, <1>7, <1>8, <1>9, <1>10, <1>11, <1>12,
       <1>13, <1>14, <1>15, <1>16 DEF Next, Tasklet

\* A CPU takes its finished batch off before it lets the next one finish.
LEMMA StaleStep ==
  ASSUME IInv, Next
  PROVE  StaleInv'
<1>0. StaleInv /\ BatchInv /\ OfflineInv /\ LockInv /\ QuietInv
  BY DEF IInv
<1>t. /\ pc \in [CPU -> TaskletPc] /\ ret \in [CPU -> {"check", "invoke", "idle"}]
      /\ cur \in Int /\ completed \in Int /\ cpumask \subseteq CPU
      /\ quiescbatch \in [CPU -> Int] /\ batch \in [CPU -> Int] /\ online \subseteq CPU
      /\ curlist \in [CPU -> Seq(RcuHead)]
  BY DEF IInv, ControlOK, TypeOK
\* Nothing that the invariant is about changes.
<1>1. CASE UNCHANGED <<batch, completed, cpumask, cur, curlist, online, pc, quiescbatch, ret>>
  BY <1>0, <1>1 DEF StaleInv
<1>2. ASSUME NEW c \in CPU, Advance(c) PROVE StaleInv'
  <2>1. AdvanceEffect(c)
    BY <1>2, AdvanceStep
  <2> QED
    BY <2>1, <1>0, <1>t DEF AdvanceEffect, StaleInv, BatchInv
<1>3. ASSUME NEW c \in CPU, TakeNext(c) PROVE StaleInv'
  <2>1. TakeNextEffect(c)
    BY <1>3, TakeNextStep
  <2> QED
    BY <2>1, <1>0, <1>t DEF TakeNextEffect, StaleInv
<1>4. ASSUME NEW c \in CPU, NumberBatch(c) PROVE StaleInv'
  <2>1. NumberBatchEffect(c)
    BY <1>4, NumberBatchStep
  <2>2. completed' <= batch'[c] /\ ~(cur' > batch'[c])
    BY <2>1, <1>0, <1>t DEF NumberBatchEffect, BatchInv
  <2>3. /\ \A d \in CPU \ {c} : pc'[d] = pc[d] /\ batch'[d] = batch[d]
        /\ UNCHANGED <<cur, completed, cpumask, quiescbatch, ret, online, curlist>>
    BY <2>1 DEF NumberBatchEffect
  <2>4. online \subseteq CPU
    BY <1>t
  <2> QED
    BY <2>2, <2>3, <2>4, <1>0 DEF StaleInv
<1>5. ASSUME NEW c \in CPU, ReadPending(c) PROVE StaleInv'
  BY <1>0, <1>t, <1>5 DEF ReadPending, MustAsk, At, Running, Goto, rcp, qs, lists, cpus,
     StaleInv
<1>6. ASSUME NEW c \in CPU, SetPending(c) PROVE StaleInv'
  BY <1>0, <1>t, <1>6 DEF SetPending, At, Running, Goto, qs, lists, cpus, StaleInv
<1>7. ASSUME NEW c \in CPU, StartBatch(c) PROVE StaleInv'
  <2>1. StartBatchEffect(c)
    BY <1>7, StartBatchStep
  <2> QED
    BY <2>1, <1>0, <1>t DEF StartBatchEffect, StaleInv
<1>8. ASSUME NEW c \in CPU, IncrCur(c) PROVE StaleInv'
  <2>1. IncrCurEffect(c)
    BY <1>8, IncrCurStep
  <2> QED
    BY <2>1, <1>0, <1>t DEF IncrCurEffect, StaleInv, BatchInv
<1>9. ASSUME NEW c \in CPU, CheckQuiescent(c) PROVE StaleInv'
  <2>1. CheckQuiescentEffect(c)
    BY <1>9, CheckQuiescentStep
  <2> QED
    BY <2>1, <1>0, <1>t DEF CheckQuiescentEffect, StaleInv
<1>10. ASSUME NEW c \in CPU, NoteBatch(c) PROVE StaleInv'
  <2>1. NoteBatchEffect(c)
    BY <1>10, NoteBatchStep
  <2> QED
    BY <2>1, <1>0, <1>t DEF NoteBatchEffect, StaleInv
<1>11. ASSUME NEW c \in CPU, ReportQuiet(c) PROVE StaleInv'
  <2>1. ReportQuietEffect(c)
    BY <1>11, ReportQuietStep
  <2>2. SUFFICES ASSUME NEW d \in online, curlist[d] # <<>>, pc'[d] # "number"
                 PROVE  /\ completed' <= batch[d]
                        /\ cur > batch[d] =>
                             /\ d \in cpumask'
                             /\ quiescbatch[d] = cur =>
                                  \/ pc'[d] \in {"idle", "invoke"}
                                  \/ pc'[d] \in {"startbatch", "incr"} /\ ret'[d] = "idle"
    BY <2>1 DEF StaleInv, ReportQuietEffect
  <2>3. /\ pc[d] # "number" /\ d \in CPU
        /\ d # c => pc'[d] = pc[d] /\ ret'[d] = ret[d]
    BY <2>1, <2>2, <1>t DEF ReportQuietEffect
  <2>4. /\ completed <= batch[d]
        /\ cur > batch[d] =>
             /\ d \in cpumask
             /\ quiescbatch[d] = cur => \/ pc[d] \in {"idle", "invoke"}
                                        \/ pc[d] \in {"startbatch", "incr"} /\ ret[d] = "idle"
    BY <2>2, <2>3, <1>0 DEF StaleInv
  \* A CPU that is about to report has no finished batch left.
  <2>5. cur > batch[d] /\ d = c => quiescbatch[c] # cur /\ pc'[c] = "invoke"
    BY <2>1, <2>4 DEF ReportQuietEffect
  <2>6. \/ cpumask' = cpumask \ {c} /\ cpumask' = {} /\ completed' = cur /\ quiescbatch[c] = cur
        \/ cpumask' = cpumask \ {c} /\ completed' = completed /\ quiescbatch[c] = cur
        \/ cpumask' = cpumask /\ completed' = completed
    BY <2>1 DEF ReportQuietEffect
  <2>7. cur > batch[d] => d \in cpumask' /\ completed' = completed
    BY <2>4, <2>5, <2>6
  <2>8. completed' <= batch[d]
    BY <2>4, <2>6, <2>7, <1>t
  <2> QED
    BY <2>3, <2>4, <2>5, <2>7, <2>8
<1>12. ASSUME NEW c \in CPU, rcu_do_batch(c) PROVE StaleInv'
  BY <1>0, <1>t, <1>12 DEF rcu_do_batch, At, Running, Goto, rcp, qs, cpus, StaleInv
<1>13. ASSUME NEW c \in CPU, CpuDie(c) PROVE StaleInv'
  BY <1>0, <1>t, <1>13 DEF CpuDie, rcp, lists, StaleInv
<1>14. CASE OfflineQuiet
  <2>1. OfflineQuietEffect
    BY <1>14, OfflineQuietStep
  <2>2. SUFFICES ASSUME NEW d \in online, curlist[d] # <<>>, pc'[d] # "number"
                 PROVE  /\ completed' <= batch[d]
                        /\ cur > batch[d] =>
                             /\ d \in cpumask'
                             /\ quiescbatch[d] = cur =>
                                  \/ pc'[d] \in {"idle", "invoke"}
                                  \/ pc'[d] \in {"startbatch", "incr"} /\ ret'[d] = "idle"
    BY <2>1 DEF StaleInv, OfflineQuietEffect
  <2>3. /\ pc[d] # "number" /\ d # hp.cpu /\ d \in CPU
        /\ \/ pc'[d] = pc[d] /\ ret'[d] = ret[d]
           \/ pc'[d] = "idle"
           \/ pc'[d] = "startbatch" /\ ret'[d] = "idle"
    BY <2>1, <2>2, <1>t DEF OfflineQuietEffect
  <2>4. /\ completed <= batch[d]
        /\ cur > batch[d] =>
             /\ d \in cpumask
             /\ quiescbatch[d] = cur => \/ pc[d] \in {"idle", "invoke"}
                                        \/ pc[d] \in {"startbatch", "incr"} /\ ret[d] = "idle"
    BY <2>2, <2>3, <1>0 DEF StaleInv
  <2>5. \/ cpumask' = cpumask \ {hp.cpu} /\ cpumask' = {} /\ completed' = cur
        \/ cpumask' = cpumask \ {hp.cpu} /\ completed' = completed
        \/ cpumask' = cpumask /\ completed' = completed
    BY <2>1 DEF OfflineQuietEffect
  <2>6. cur > batch[d] => d \in cpumask' /\ completed' = completed
    BY <2>3, <2>4, <2>5
  <2>7. completed' <= batch[d]
    BY <2>4, <2>5, <2>6, <1>t
  <2>8. cur > batch[d] /\ quiescbatch[d] = cur =>
          \/ pc'[d] \in {"idle", "invoke"}
          \/ pc'[d] \in {"startbatch", "incr"} /\ ret'[d] = "idle"
    BY <2>3, <2>4
  <2> QED
    BY <2>6, <2>7, <2>8
<1>15. CASE OfflineMove
  BY <1>0, <1>t, <1>15 DEF OfflineMove, Move, Finish, Running, rcp, qs, StaleInv
<1>16. ASSUME NEW c \in CPU, CpuUp(c) PROVE StaleInv'
  <2>1. CpuUpEffect(c)
    BY <1>16, CpuUpStep
  <2>2. \A d \in online' : curlist'[d] # <<>> =>
          /\ d \in online /\ curlist[d] # <<>>
          /\ batch'[d] = batch[d] /\ quiescbatch'[d] = quiescbatch[d]
    BY <2>1, <1>t DEF CpuUpEffect
  <2>3. UNCHANGED <<cur, completed, cpumask, pc, ret>>
    BY <2>1 DEF CpuUpEffect
  <2> QED
    BY <2>2, <2>3, <1>0 DEF StaleInv
<1> QED
  <2>1. ASSUME NEW c \in CPU,
               \/ (\E x \in work.reads : rcu_read_lock(c, x))
               \/ (\E x \in work.reads : rcu_read_unlock(c, x))
               \/ (\E f \in Callback : call_rcu(c, f)) \/ ContextSwitch(c)
               \/ rcu_check_callbacks(c)
        PROVE  UNCHANGED <<batch, completed, cpumask, cur, curlist, online, pc, quiescbatch, ret>>
    BY <2>1 DEF rcu_read_lock, rcu_read_unlock, call_rcu, ContextSwitch, rcu_check_callbacks,
       Finish, Enqueue, rcp, qs, lists, cpus
  <2>2. ASSUME Barrier \/ Hotplug
        PROVE  \/ UNCHANGED <<batch, completed, cpumask, cur, curlist, online, pc, quiescbatch, ret>>
               \/ \E c \in CPU : \/ CpuDie(c) \/ CpuUp(c)
               \/ OfflineQuiet \/ OfflineMove
    BY <2>2 DEF Barrier, Hotplug, rcu_barrier, rcu_barrier_func, BarrierWait, BarrierReturn,
       PreemptOff, Enqueue, Finish, rcp, qs, lists, cpus
  <2> QED
    BY <2>1, <2>2, <1>1, <1>2, <1>3, <1>4, <1>5, <1>6, <1>7, <1>8, <1>9, <1>10, <1>11, <1>12,
       <1>13, <1>14, <1>15, <1>16 DEF Next, Tasklet

\* A request is served by whoever ends the running grace period.
LEMMA PendingStep ==
  ASSUME IInv, Next
  PROVE  PendingInv'
<1>0. PendingInv /\ BatchInv /\ LockInv /\ OfflineInv
  BY DEF IInv
<1>t. /\ pc \in [CPU -> TaskletPc] /\ ret \in [CPU -> {"check", "invoke", "idle"}]
      /\ cur \in Int /\ completed \in Int /\ cpumask \subseteq CPU /\ online \subseteq CPU
      /\ hp \in [stage : HpStage, cpu : CPU \cup {NoCPU}, this : CPU \cup {NoCPU}]
  BY DEF IInv, ControlOK, TypeOK
\* Nothing that the invariant is about changes.
<1>1. CASE UNCHANGED <<completed, cur, next_pending, pc>>
  BY <1>0, <1>1 DEF PendingInv
<1>2. ASSUME NEW c \in CPU, Advance(c) PROVE PendingInv'
  BY <1>0, <1>t, <1>2 DEF Advance, At, Running, Goto, rcp, PendingInv
<1>3. ASSUME NEW c \in CPU, TakeNext(c) PROVE PendingInv'
  BY <1>0, <1>t, <1>3 DEF TakeNext, MayTake, At, Running, Goto, rcp, PendingInv
<1>4. ASSUME NEW c \in CPU, NumberBatch(c) PROVE PendingInv'
  BY <1>0, <1>t, <1>4 DEF NumberBatch, At, Running, Goto, rcp, PendingInv
<1>5. ASSUME NEW c \in CPU, ReadPending(c) PROVE PendingInv'
  BY <1>0, <1>t, <1>5 DEF ReadPending, MustAsk, At, Running, Goto, rcp, PendingInv
<1>6. ASSUME NEW c \in CPU, SetPending(c) PROVE PendingInv'
  BY <1>0, <1>t, <1>6 DEF SetPending, At, Running, Goto, PendingInv
<1>7. ASSUME NEW c \in CPU, StartBatch(c) PROVE PendingInv'
  BY <1>0, <1>t, <1>7 DEF StartBatch, MayStart, At, Running, Goto, PendingInv
<1>8. ASSUME NEW c \in CPU, IncrCur(c) PROVE PendingInv'
  BY <1>0, <1>t, <1>8 DEF IncrCur, At, Running, Goto, PendingInv, LockInv
<1>9. ASSUME NEW c \in CPU, CheckQuiescent(c) PROVE PendingInv'
  BY <1>0, <1>t, <1>9 DEF CheckQuiescent, ForgetQuiet, At, Running, Goto, rcp, PendingInv
<1>10. ASSUME NEW c \in CPU, NoteBatch(c) PROVE PendingInv'
  BY <1>0, <1>t, <1>10 DEF NoteBatch, At, Running, Goto, rcp, PendingInv
<1>11. ASSUME NEW c \in CPU, ReportQuiet(c) PROVE PendingInv'
  BY <1>0, <1>t, <1>11 DEF ReportQuiet, ClearMask, At, Running, Goto, PendingInv
<1>12. ASSUME NEW c \in CPU, rcu_do_batch(c) PROVE PendingInv'
  BY <1>0, <1>t, <1>12 DEF rcu_do_batch, At, Running, Goto, rcp, PendingInv
<1>13. CASE OfflineQuiet
  BY <1>0, <1>t, <1>13 DEF OfflineQuiet, DeadQuiet, ClearMask, PreemptOff, Running, Goto,
     PendingInv
<1> QED
  <2>1. ASSUME NEW c \in CPU,
               \/ (\E x \in work.reads : rcu_read_lock(c, x))
               \/ (\E x \in work.reads : rcu_read_unlock(c, x))
               \/ (\E f \in Callback : call_rcu(c, f)) \/ ContextSwitch(c)
               \/ rcu_check_callbacks(c)
        PROVE  UNCHANGED <<completed, cur, next_pending, pc>>
    BY <2>1 DEF rcu_read_lock, rcu_read_unlock, call_rcu, ContextSwitch, rcu_check_callbacks,
       Finish, Enqueue, rcp
  <2>2. ASSUME Barrier \/ Hotplug
        PROVE  \/ UNCHANGED <<completed, cur, next_pending, pc>>
               \/ OfflineQuiet
    BY <2>2 DEF Barrier, Hotplug, rcu_barrier, rcu_barrier_func, BarrierWait, BarrierReturn,
       CpuDie, OfflineMove, CpuUp, PreemptOff, Enqueue, Finish, Move, rcp
  <2> QED
    BY <2>1, <2>2, <1>1, <1>2, <1>3, <1>4, <1>5, <1>6, <1>7, <1>8, <1>9, <1>10, <1>11, <1>12,
       <1>13 DEF Next, Tasklet

\* A numbered batch is asked for until it is started.
LEMMA StartStep ==
  ASSUME IInv, Next
  PROVE  BatchWillStart'
<1>0. BatchWillStart /\ BatchInv /\ OfflineInv /\ LockInv /\ PendingInv
  BY DEF IInv
<1>t. /\ pc \in [CPU -> TaskletPc] /\ ret \in [CPU -> {"check", "invoke", "idle"}]
      /\ cur \in Int /\ completed \in Int /\ cpumask \subseteq CPU /\ batch \in [CPU -> Int]
      /\ online \subseteq CPU /\ curlist \in [CPU -> Seq(RcuHead)]
  BY DEF IInv, ControlOK, TypeOK
\* Nothing that the invariant is about changes.
<1>1. CASE UNCHANGED <<batch, completed, cur, curlist, next_pending, online, pc>>
  BY <1>0, <1>1 DEF BatchWillStart
<1>2. ASSUME NEW c \in CPU, Advance(c) PROVE BatchWillStart'
  <2>1. AdvanceEffect(c)
    BY <1>2, AdvanceStep
  <2>2. SUFFICES ASSUME NEW d \in online, curlist'[d] # <<>>, batch[d] > cur \/ pc'[d] = "number"
                 PROVE  \/ next_pending /\ (cur # completed \/ \E e \in CPU : pc'[e] = "startbatch")
                        \/ pc'[d] \in {"number", "pending", "setpending"}
                        \/ \E e \in CPU : pc'[e] = "incr"
    BY <2>1 DEF BatchWillStart, AdvanceEffect
  <2>3. curlist[d] # <<>> /\ (batch[d] > cur \/ pc[d] = "number") /\ d \in CPU
    BY <2>1, <2>2, <1>t DEF AdvanceEffect
  <2>4. \A e \in CPU : pc[e] # "idle" => pc'[e] = pc[e]
    BY <2>1 DEF AdvanceEffect
  <2>5. \/ next_pending /\ (cur # completed \/ \E e \in CPU : pc[e] = "startbatch")
        \/ pc[d] \in {"number", "pending", "setpending"}
        \/ \E e \in CPU : pc[e] = "incr"
    BY <2>2, <2>3, <1>0 DEF BatchWillStart
  <2> QED
    BY <2>3, <2>4, <2>5
<1>3. ASSUME NEW c \in CPU, TakeNext(c) PROVE BatchWillStart'
  BY <1>0, <1>t, <1>3 DEF TakeNext, MayTake, At, Running, Goto, rcp, cpus, BatchWillStart
<1>4. ASSUME NEW c \in CPU, NumberBatch(c) PROVE BatchWillStart'
  BY <1>0, <1>t, <1>4 DEF NumberBatch, At, Running, Goto, rcp, cpus, BatchWillStart
<1>5. ASSUME NEW c \in CPU, ReadPending(c) PROVE BatchWillStart'
  BY <1>0, <1>t, <1>5 DEF ReadPending, MustAsk, At, Running, Goto, rcp, lists, cpus,
     BatchWillStart, PendingInv
<1>6. ASSUME NEW c \in CPU, SetPending(c) PROVE BatchWillStart'
  BY <1>0, <1>t, <1>6 DEF SetPending, At, Running, Goto, lists, cpus, BatchWillStart
<1>7. ASSUME NEW c \in CPU, StartBatch(c) PROVE BatchWillStart'
  <2>1. StartBatchEffect(c)
    BY <1>7, StartBatchStep
  <2>2. CASE pc'[c] = "incr"
    BY <2>2 DEF BatchWillStart
  <2>3. CASE pc'[c] # "incr"
    <3>1. SUFFICES ASSUME NEW d \in online, curlist[d] # <<>>, batch[d] > cur \/ pc'[d] = "number"
                   PROVE  \/ next_pending /\ cur # completed
                          \/ pc'[d] \in {"number", "pending", "setpending"}
      BY <2>1, <2>3 DEF BatchWillStart, StartBatchEffect
    <3>2. /\ next_pending => cur # completed
          /\ pc'[c] \in {"check", "invoke", "idle"} /\ \A e \in CPU \ {c} : pc'[e] = pc[e]
      BY <2>1, <2>3, <1>t DEF StartBatchEffect
    <3>3. ~\E e \in CPU : pc[e] = "incr"
      BY <2>1, <1>0 DEF StartBatchEffect, LockInv
    <3>4. /\ d \in CPU /\ (batch[d] > cur \/ pc[d] = "number")
          /\ pc[d] \in {"number", "pending", "setpending"} => pc'[d] = pc[d]
      BY <3>1, <3>2, <2>1, <1>t DEF StartBatchEffect
    <3>5. \/ next_pending
          \/ pc[d] \in {"number", "pending", "setpending"}
      BY <3>1, <3>3, <3>4, <1>0 DEF BatchWillStart
    <3> QED
      BY <3>2, <3>4, <3>5
  <2> QED
    BY <2>2, <2>3
<1>8. ASSUME NEW c \in CPU, IncrCur(c) PROVE BatchWillStart'
  <2>1. IncrCurEffect(c)
    BY <1>8, IncrCurStep
  <2>2. ASSUME NEW d \in online, curlist'[d] # <<>>, batch'[d] > cur' \/ pc'[d] = "number"
        PROVE  pc'[d] = "number"
    <3>1. /\ d \in CPU /\ batch[d] \in Int /\ pc[c] # "number" /\ pc'[c] # "number"
          /\ d # c => pc'[d] = pc[d]
      BY <2>1, <1>t DEF IncrCurEffect
    <3>2. curlist[d] # <<>> /\ pc[d] # "number" => batch[d] <= cur + 1
      BY <3>1, <1>0 DEF BatchInv
    <3> QED
      BY <2>1, <2>2, <3>1, <3>2, <1>t DEF IncrCurEffect
  <2> QED
    BY <2>1, <2>2 DEF IncrCurEffect, BatchWillStart
<1>9. ASSUME NEW c \in CPU, CheckQuiescent(c) PROVE BatchWillStart'
  BY <1>0, <1>t, <1>9 DEF CheckQuiescent, ForgetQuiet, At, Running, Goto, rcp, lists, cpus,
     BatchWillStart
<1>10. ASSUME NEW c \in CPU, NoteBatch(c) PROVE BatchWillStart'
  BY <1>0, <1>t, <1>10 DEF NoteBatch, At, Running, Goto, rcp, lists, cpus, BatchWillStart
<1>11. ASSUME NEW c \in CPU, ReportQuiet(c) PROVE BatchWillStart'
  BY <1>0, <1>t, <1>11 DEF ReportQuiet, ClearMask, At, Running, Goto, lists, cpus,
     BatchWillStart
<1>12. ASSUME NEW c \in CPU, rcu_do_batch(c) PROVE BatchWillStart'
  BY <1>0, <1>t, <1>12 DEF rcu_do_batch, At, Running, Goto, rcp, cpus, BatchWillStart
<1>13. ASSUME NEW c \in CPU, CpuDie(c) PROVE BatchWillStart'
  BY <1>0, <1>t, <1>13 DEF CpuDie, rcp, lists, BatchWillStart
<1>14. CASE OfflineQuiet
  BY <1>0, <1>t, <1>14 DEF OfflineQuiet, DeadQuiet, ClearMask, PreemptOff, Running, Goto,
     lists, BatchWillStart
<1>15. CASE OfflineMove
  BY <1>0, <1>t, <1>15 DEF OfflineMove, Move, Finish, Running, rcp, BatchWillStart
<1>16. ASSUME NEW c \in CPU, CpuUp(c) PROVE BatchWillStart'
  <2>1. CpuUpEffect(c)
    BY <1>16, CpuUpStep
  <2> QED
    BY <2>1, <1>0, <1>t DEF CpuUpEffect, BatchWillStart
<1> QED
  <2>1. ASSUME NEW c \in CPU,
               \/ (\E x \in work.reads : rcu_read_lock(c, x))
               \/ (\E x \in work.reads : rcu_read_unlock(c, x))
               \/ (\E f \in Callback : call_rcu(c, f)) \/ ContextSwitch(c)
               \/ rcu_check_callbacks(c)
        PROVE  UNCHANGED <<batch, completed, cur, curlist, next_pending, online, pc>>
    BY <2>1 DEF rcu_read_lock, rcu_read_unlock, call_rcu, ContextSwitch, rcu_check_callbacks,
       Finish, Enqueue, rcp, lists, cpus
  <2>2. ASSUME Barrier \/ Hotplug
        PROVE  \/ UNCHANGED <<batch, completed, cur, curlist, next_pending, online, pc>>
               \/ \E c \in CPU : \/ CpuDie(c) \/ CpuUp(c)
               \/ OfflineQuiet \/ OfflineMove
    BY <2>2 DEF Barrier, Hotplug, rcu_barrier, rcu_barrier_func, BarrierWait, BarrierReturn,
       PreemptOff, Enqueue, Finish, rcp, lists, cpus
  <2> QED
    BY <2>1, <2>2, <1>1, <1>2, <1>3, <1>4, <1>5, <1>6, <1>7, <1>8, <1>9, <1>10, <1>11, <1>12,
       <1>13, <1>14, <1>15, <1>16 DEF Next, Tasklet

\* A list only ever holds heads that came in through call_rcu() or rcu_barrier().
LEMMA HeadStep ==
  ASSUME IInv, Next
  PROVE  HeadInv'
<1>0. HeadInv
  BY DEF IInv
<1>t. /\ nxtlist \in [CPU -> Seq(RcuHead)] /\ curlist \in [CPU -> Seq(RcuHead)]
      /\ donelist \in [CPU -> Seq(RcuHead)]
  BY DEF IInv, ControlOK, TypeOK
\* Nothing that the invariant is about changes.
<1>1. CASE UNCHANGED <<called, curlist, donelist, nxtlist>>
  BY <1>0, <1>1 DEF HeadInv
<1>2. ASSUME NEW c \in CPU, NEW f \in Callback, call_rcu(c, f) PROVE HeadInv'
  <2>1. EnqueueEffect(c, f)
    BY <1>2, EnqueueStep DEF call_rcu, RcuHead
  <2>2. called' = called \cup {f}
    BY <1>2 DEF call_rcu
  <2> QED
    BY <2>1, <2>2, <1>0 DEF EnqueueEffect, HeadInv
<1>3. ASSUME NEW c \in CPU, Advance(c) PROVE HeadInv'
  <2>1. AdvanceEffect(c)
    BY <1>3, AdvanceStep
  <2>2. ToSet(donelist[c] \o curlist[c]) = ToSet(donelist[c]) \cup ToSet(curlist[c])
    BY <1>t, ToSetConcat
  <2> QED
    BY <2>1, <2>2, <1>0, ToSetEmpty DEF AdvanceEffect, HeadInv
<1>4. ASSUME NEW c \in CPU, TakeNext(c) PROVE HeadInv'
  <2>1. TakeNextEffect(c)
    BY <1>4, TakeNextStep
  <2> QED
    BY <2>1, <1>0, <1>t, ToSetEmpty DEF TakeNextEffect, HeadInv
<1>5. ASSUME NEW c \in CPU, rcu_do_batch(c) PROVE HeadInv'
  <2>1. DoBatchEffect(c)
    BY <1>5, DoBatchStep
  <2> QED
    BY <2>1, <1>0, <1>t DEF DoBatchEffect, HeadInv
<1>6. ASSUME NEW c \in CPU, rcu_barrier_func(c) PROVE HeadInv'
  <2>1. EnqueueEffect(c, c)
    BY <1>6, EnqueueStep DEF rcu_barrier_func, RcuHead
  <2>2. called' = called
    BY <1>6 DEF rcu_barrier_func, ghost
  <2> QED
    BY <2>1, <2>2, <1>0 DEF EnqueueEffect, HeadInv
<1>7. CASE OfflineMove
  <2>1. OfflineMoveEffect
    BY <1>7, OfflineMoveStep
  <2>2. hp.cpu \in CPU /\ called' = called
    BY <2>1 DEF OfflineMoveEffect
  <2>3. ToSet(nxtlist[hp.cpu]) \cup ToSet(curlist[hp.cpu]) \cup ToSet(donelist[hp.cpu])
          \subseteq called \cup CPU
    BY <2>2, <1>0 DEF HeadInv
  <2>4. ASSUME NEW d \in CPU
        PROVE  ToSet(nxtlist'[d]) \cup ToSet(curlist'[d]) \cup ToSet(donelist'[d])
                 \subseteq called \cup CPU
    <3>1. /\ ToSet(nxtlist'[d]) \subseteq ToSet(nxtlist[d]) \cup ToSet(nxtlist[hp.cpu])
                                      \cup ToSet(curlist[hp.cpu]) \cup ToSet(donelist[hp.cpu])
          /\ ToSet(curlist'[d]) \subseteq ToSet(curlist[d])
          /\ ToSet(donelist'[d]) \subseteq ToSet(donelist[d])
      BY <2>1, ToSetEmpty DEF OfflineMoveEffect
    <3> QED
      BY <3>1, <2>3, <1>0 DEF HeadInv
  <2> QED
    BY <2>2, <2>4 DEF HeadInv
<1>8. ASSUME NEW c \in CPU, CpuUp(c) PROVE HeadInv'
  <2>1. CpuUpEffect(c)
    BY <1>8, CpuUpStep
  <2> QED
    BY <2>1, <1>0, <1>t DEF CpuUpEffect, HeadInv
<1> QED
  <2>1. ASSUME NEW c \in CPU, Tasklet(c)
        PROVE  \/ UNCHANGED <<called, curlist, donelist, nxtlist>>
               \/ Advance(c) \/ TakeNext(c) \/ rcu_do_batch(c)
    BY <2>1 DEF Tasklet, NumberBatch, ReadPending, SetPending, StartBatch, IncrCur,
       CheckQuiescent, NoteBatch, ReportQuiet, MustAsk, MayStart, ForgetQuiet, ClearMask, Goto,
       lists, ghost
  <2>2. ASSUME NEW c \in CPU,
               \/ (\E x \in work.reads : rcu_read_lock(c, x))
               \/ (\E x \in work.reads : rcu_read_unlock(c, x)) \/ ContextSwitch(c)
               \/ rcu_check_callbacks(c)
        PROVE  UNCHANGED <<called, curlist, donelist, nxtlist>>
    BY <2>2 DEF rcu_read_lock, rcu_read_unlock, ContextSwitch, rcu_check_callbacks, Finish,
       lists, ghost
  <2>3. ASSUME Barrier \/ Hotplug
        PROVE  \/ UNCHANGED <<called, curlist, donelist, nxtlist>>
               \/ \E c \in CPU : \/ rcu_barrier_func(c) \/ CpuUp(c)
               \/ OfflineMove
    BY <2>3 DEF Barrier, Hotplug, rcu_barrier, BarrierWait, BarrierReturn, CpuDie,
       OfflineQuiet, PreemptOff, Finish, DeadQuiet, ClearMask, lists, ghost
  <2> QED
    BY <2>1, <2>2, <2>3, <1>1, <1>2, <1>3, <1>4, <1>5, <1>6, <1>7, <1>8 DEF Next

LEMMA ReadersGrow ==
  ASSUME \A d \in CPU : active[d] \subseteq active'[d]
  PROVE  AllReaders \subseteq AllReaders'
BY DEF AllReaders, Reader

\* A reader that ends its section is waited for no longer.
LEMMA FinishReaders ==
  ASSUME IInv, NEW c \in CPU, NEW x \in Context, Finish(c, x)
  PROVE  ReaderInv'
<1>t. active \in [CPU -> SUBSET Context] /\ waits \in [Callback -> SUBSET Reader] /\ ReaderInv
  BY DEF IInv, ControlOK, TypeOK
<1>1. SUFFICES ASSUME NEW f \in Callback, NEW r \in waits'[f]
               PROVE  r \in Reader /\ r[2] \in active'[r[1]]
  BY DEF ReaderInv, AllReaders
<1>2. r \in waits[f] /\ r # <<c, x>>
  BY <1>1 DEF Finish
<1>3. r \in Reader /\ r[2] \in active[r[1]] /\ r[1] \in CPU
  BY <1>2, <1>t DEF ReaderInv, AllReaders, Reader
<1>4. r[1] # c \/ r[2] # x
  BY <1>2, <1>3 DEF Reader
<1>5. r[2] \in active'[r[1]]
  BY <1>3, <1>4, <1>t DEF Finish
<1> QED
  BY <1>3, <1>5

\* A callback is made to wait for readers that run, and for them only as long as they do.
LEMMA ReaderStep ==
  ASSUME IInv, Next
  PROVE  ReaderInv'
<1>0. ReaderInv /\ OfflineInv
  BY DEF IInv
<1>t. /\ active \in [CPU -> SUBSET Context] /\ waits \in [Callback -> SUBSET Reader]
      /\ online \subseteq CPU
      /\ hp \in [stage : HpStage, cpu : CPU \cup {NoCPU}, this : CPU \cup {NoCPU}]
      /\ work \in Workload
  BY DEF IInv, ControlOK, TypeOK
\* Nothing that the invariant is about changes.
<1>1. CASE UNCHANGED <<active, waits>>
  BY <1>0, <1>1 DEF ReaderInv, AllReaders
<1>2. ASSUME NEW c \in CPU, NEW x \in work.reads, rcu_read_lock(c, x) PROVE ReaderInv'
  <2>1. /\ waits' = waits
        /\ \A d \in CPU : active[d] \subseteq active'[d]
    BY <1>2, <1>t DEF rcu_read_lock, ghost
  <2> QED
    BY <2>1, <1>0, ReadersGrow DEF ReaderInv
<1>3. ASSUME NEW c \in CPU, NEW x \in work.reads, rcu_read_unlock(c, x) PROVE ReaderInv'
  <2>1. x \in Context
    BY <1>t, RcuAssumption DEF Context
  <2> QED
    BY <1>3, <2>1, FinishReaders DEF rcu_read_unlock
<1>4. ASSUME NEW c \in CPU, NEW f \in Callback, call_rcu(c, f) PROVE ReaderInv'
  <2>1. active' = active /\ waits' = [waits EXCEPT ![f] = AllReaders]
    BY <1>4 DEF call_rcu
  <2>2. AllReaders' = AllReaders
    BY <2>1 DEF AllReaders
  <2> QED
    BY <2>1, <2>2, <1>0, <1>t DEF ReaderInv
<1>5. ASSUME NEW c \in CPU, rcu_barrier(c) PROVE ReaderInv'
  <2>1. /\ waits' = waits
        /\ \A d \in CPU : active[d] \subseteq active'[d]
    BY <1>5, <1>t DEF rcu_barrier, PreemptOff
  <2> QED
    BY <2>1, <1>0, ReadersGrow DEF ReaderInv
<1>6. ASSUME NEW c \in CPU, BarrierWait(c) PROVE ReaderInv'
  BY <1>6, FinishReaders DEF BarrierWait, Context
<1>7. CASE OfflineQuiet
  <2>1. OfflineQuietEffect
    BY <1>7, OfflineQuietStep
  <2>2. waits' = waits /\ \A d \in CPU : active[d] \subseteq active'[d]
    BY <2>1, <1>t DEF OfflineQuietEffect
  <2> QED
    BY <2>2, <1>0, ReadersGrow DEF ReaderInv
<1>8. CASE OfflineMove
  <2>1. OfflineMoveEffect
    BY <1>8, OfflineMoveStep
  <2>2. CASE UNCHANGED <<active, waits>>
    BY <2>2, <1>0 DEF ReaderInv, AllReaders
  <2>3. CASE Finish(hp.this, "task")
    <3>1. hp.this \in CPU /\ "task" \in Context
      BY <2>1, <1>t DEF OfflineMoveEffect, Context
    <3> QED
      BY <3>1, <2>3, FinishReaders
  <2> QED
    BY <2>1, <2>2, <2>3 DEF OfflineMoveEffect
<1> QED
  <2>1. ASSUME NEW c \in CPU, Tasklet(c)
        PROVE  UNCHANGED <<active, waits>>
    BY <2>1 DEF Tasklet, Advance, TakeNext, NumberBatch, ReadPending, SetPending, StartBatch,
       IncrCur, CheckQuiescent, NoteBatch, ReportQuiet, rcu_do_batch, MayTake, MustAsk,
       MayStart, ForgetQuiet, ClearMask, Goto, ghost
  <2>2. ASSUME NEW c \in CPU,
               \/ ContextSwitch(c) \/ rcu_check_callbacks(c)
        PROVE  UNCHANGED <<active, waits>>
    BY <2>2 DEF ContextSwitch, rcu_check_callbacks, ghost
  <2>3. ASSUME Barrier \/ Hotplug
        PROVE  \/ UNCHANGED <<active, waits>>
               \/ \E c \in CPU : \/ rcu_barrier(c) \/ BarrierWait(c)
               \/ OfflineQuiet \/ OfflineMove
    BY <2>3 DEF Barrier, Hotplug, rcu_barrier_func, BarrierReturn, CpuDie, CpuUp, Enqueue, ghost
  <2> QED
    BY <2>1, <2>2, <2>3, <1>1, <1>2, <1>3, <1>4, <1>5, <1>6, <1>7, <1>8 DEF Next

\* curlist is done only when its grace period has waited for every reader.
LEMMA DoneStep ==
  ASSUME IInv, Next
  PROVE  DoneInv'
<1>0. DoneInv /\ HeadInv /\ WaitInv
  BY DEF IInv
<1>t. /\ curlist \in [CPU -> Seq(RcuHead)] /\ donelist \in [CPU -> Seq(RcuHead)]
      /\ waits \in [Callback -> SUBSET Reader] /\ called \subseteq Callback
      /\ invoked \subseteq called /\ Callback \cap CPU = {}
  BY RcuAssumption DEF IInv, ControlOK, TypeOK
\* Nothing that the invariant is about changes.
<1>1. CASE UNCHANGED <<donelist, invoked, waits>>
  BY <1>0, <1>1 DEF DoneInv, GracePeriod
<1>2. ASSUME NEW c \in CPU, NEW x \in work.reads, rcu_read_unlock(c, x) PROVE DoneInv'
  <2>1. \A g \in Callback : waits'[g] \subseteq waits[g]
    BY <1>2 DEF rcu_read_unlock, Finish
  <2>2. UNCHANGED <<invoked, donelist>>
    BY <1>2 DEF rcu_read_unlock, lists
  <2> QED
    BY <2>1, <2>2, <1>0, <1>t DEF DoneInv, GracePeriod
<1>3. ASSUME NEW c \in CPU, NEW f \in Callback, call_rcu(c, f) PROVE DoneInv'
  <2>1. /\ f \notin called /\ waits' = [waits EXCEPT ![f] = AllReaders]
        /\ UNCHANGED <<invoked, donelist>>
    BY <1>3 DEF call_rcu, Enqueue
  <2>2. f \notin invoked /\ \A d \in CPU : f \notin ToSet(donelist[d])
    BY <2>1, <1>0, <1>t DEF HeadInv
  <2> QED
    BY <2>1, <2>2, <1>0, <1>t DEF DoneInv, GracePeriod
<1>4. ASSUME NEW c \in CPU, Advance(c) PROVE DoneInv'
  <2>1. AdvanceEffect(c)
    BY <1>4, AdvanceStep
  <2>2. ToSet(donelist[c] \o curlist[c]) = ToSet(donelist[c]) \cup ToSet(curlist[c])
    BY <1>t, ToSetConcat
  <2>3. batch[c] <= completed => \A g \in ToSet(curlist[c]) \cap Callback : waits[g] = {}
    <3>1. batch[c] \in Int /\ completed \in Int /\ pc[c] # "number"
      BY <2>1 DEF IInv, ControlOK, TypeOK, AdvanceEffect
    <3>2. ASSUME NEW g \in ToSet(curlist[c]) \cap Callback, NEW r \in waits[g]
          PROVE  completed < batch[c]
      BY <3>1, <3>2, <1>0 DEF WaitInv, Outlives
    <3> QED
      BY <3>1, <3>2
  <2> QED
    BY <2>1, <2>2, <2>3, <1>0 DEF AdvanceEffect, DoneInv, GracePeriod
<1>5. ASSUME NEW c \in CPU, rcu_do_batch(c) PROVE DoneInv'
  <2>1. DoBatchEffect(c)
    BY <1>5, DoBatchStep
  <2> QED
    BY <2>1, <1>0, <1>t DEF DoBatchEffect, DoneInv, GracePeriod
<1>6. ASSUME NEW c \in CPU, BarrierWait(c) PROVE DoneInv'
  <2>1. \A g \in Callback : waits'[g] \subseteq waits[g]
    BY <1>6 DEF BarrierWait, Finish
  <2>2. UNCHANGED <<invoked, donelist>>
    BY <1>6 DEF BarrierWait, lists
  <2> QED
    BY <2>1, <2>2, <1>0, <1>t DEF DoneInv, GracePeriod
<1>7. CASE OfflineMove
  <2>1. OfflineMoveEffect
    BY <1>7, OfflineMoveStep
  <2>2. \A f \in Callback : waits'[f] \subseteq waits[f]
    BY <2>1 DEF OfflineMoveEffect, Finish
  <2>3. invoked' = invoked /\ \A d \in CPU : ToSet(donelist'[d]) \subseteq ToSet(donelist[d])
    BY <2>1, ToSetEmpty DEF OfflineMoveEffect
  <2> QED
    BY <2>2, <2>3, <1>0, <1>t DEF DoneInv, GracePeriod
<1>8. ASSUME NEW c \in CPU, CpuUp(c) PROVE DoneInv'
  <2>1. CpuUpEffect(c)
    BY <1>8, CpuUpStep
  <2> QED
    BY <2>1, <1>0, <1>t DEF CpuUpEffect, DoneInv, GracePeriod
<1> QED
  <2>1. ASSUME NEW c \in CPU, Tasklet(c)
        PROVE  \/ UNCHANGED <<donelist, invoked, waits>>
               \/ Advance(c) \/ rcu_do_batch(c)
    BY <2>1 DEF Tasklet, TakeNext, NumberBatch, ReadPending, SetPending, StartBatch, IncrCur,
       CheckQuiescent, NoteBatch, ReportQuiet, MayTake, MustAsk, MayStart, ForgetQuiet,
       ClearMask, Goto, lists, ghost
  <2>2. ASSUME NEW c \in CPU,
               \/ (\E x \in work.reads : rcu_read_lock(c, x)) \/ ContextSwitch(c)
               \/ rcu_check_callbacks(c)
        PROVE  UNCHANGED <<donelist, invoked, waits>>
    BY <2>2 DEF rcu_read_lock, ContextSwitch, rcu_check_callbacks, lists, ghost
  <2>3. ASSUME Barrier \/ Hotplug
        PROVE  \/ UNCHANGED <<donelist, invoked, waits>>
               \/ \E c \in CPU : \/ BarrierWait(c) \/ CpuUp(c)
               \/ OfflineMove
    BY <2>3 DEF Barrier, Hotplug, rcu_barrier, rcu_barrier_func, BarrierReturn, CpuDie,
       OfflineQuiet, PreemptOff, Enqueue, DeadQuiet, ClearMask, lists, ghost
  <2> QED
    BY <2>1, <2>2, <2>3, <1>1, <1>2, <1>3, <1>4, <1>5, <1>6, <1>7, <1>8 DEF Next

\* Outlives in the next state.
OutlivesNext(b, e) ==
  /\ completed' < b /\ cur' <= b
  /\ cur' = b => e \in cpumask' /\ ~(quiescbatch'[e] = cur' /\ passed_quiesc'[e])

\* No CPU reports itself quiet below a reader that a batch waits for.
LEMMA WaitStep ==
  ASSUME IInv, Next
  PROVE  WaitInv'
<1>0. WaitInv /\ ReaderInv /\ HeadInv /\ OfflineInv /\ BatchInv /\ QuietInv
  BY DEF IInv
<1>t. /\ pc \in [CPU -> TaskletPc] /\ ret \in [CPU -> {"check", "invoke", "idle"}]
      /\ cur \in Int /\ completed \in Int /\ cpumask \subseteq CPU
      /\ quiescbatch \in [CPU -> Int] /\ passed_quiesc \in [CPU -> BOOLEAN]
      /\ batch \in [CPU -> Int] /\ online \subseteq CPU /\ active \in [CPU -> SUBSET Context]
      /\ waits \in [Callback -> SUBSET Reader] /\ called \subseteq Callback
      /\ Callback \cap CPU = {}
  BY RcuAssumption DEF IInv, ControlOK, TypeOK
<1> SUFFICES ASSUME NEW d \in CPU, pc'[d] # "number",
                    NEW g \in Callback, g \in ToSet(curlist'[d]), NEW r \in waits'[g]
             PROVE  OutlivesNext(batch'[d], r[1])
  BY DEF WaitInv, Outlives, OutlivesNext
<1>w. ASSUME pc[d] # "number", g \in ToSet(curlist[d]), r \in waits[g]
      PROVE  Outlives(batch[d], r[1])
  BY <1>w, <1>0 DEF WaitInv
<1>r. ASSUME r \in waits[g] PROVE r[1] \in CPU /\ r[1] \in online /\ active[r[1]] # {}
  BY <1>r, <1>0 DEF ReaderInv, AllReaders, Reader, OfflineInv
\* Nothing that the invariant is about changes.
<1>1. CASE UNCHANGED <<batch, completed, cpumask, cur, curlist, passed_quiesc, pc, quiescbatch, waits>>
  BY <1>1, <1>w DEF Outlives, OutlivesNext
<1>2. ASSUME NEW c \in CPU, NEW x \in work.reads, rcu_read_unlock(c, x)
      PROVE  OutlivesNext(batch'[d], r[1])
  <2>1. /\ pc[d] # "number" /\ g \in ToSet(curlist[d]) /\ r \in waits[g]
        /\ UNCHANGED <<batch, cur, completed, cpumask, quiescbatch, passed_quiesc>>
    BY <1>2, <1>t DEF rcu_read_unlock, Finish, rcp, qs, lists, ghost
  <2>2. Outlives(batch[d], r[1])
    BY <2>1, <1>w
  <2> QED
    BY <2>1, <2>2 DEF Outlives, OutlivesNext
<1>3. ASSUME NEW c \in CPU, NEW f \in Callback, call_rcu(c, f) PROVE OutlivesNext(batch'[d], r[1])
  <2>1. /\ f \notin called /\ waits' = [waits EXCEPT ![f] = AllReaders]
        /\ UNCHANGED <<pc, curlist, batch, cur, completed, cpumask, quiescbatch, passed_quiesc>>
    BY <1>3 DEF call_rcu, Enqueue, rcp, qs
  <2>2. f # g
    BY <2>1, <1>0, <1>t DEF HeadInv
  <2>3. r \in waits[g] /\ Outlives(batch[d], r[1])
    BY <2>1, <2>2, <1>t, <1>w
  <2> QED
    BY <2>1, <2>3 DEF Outlives, OutlivesNext
<1>4. ASSUME NEW c \in CPU, ContextSwitch(c) PROVE OutlivesNext(batch'[d], r[1])
  <2>1. /\ pc' = pc /\ curlist' = curlist /\ waits' = waits
        /\ UNCHANGED <<batch, cur, completed, cpumask, quiescbatch>>
        /\ \A e \in CPU : active[e] # {} => passed_quiesc'[e] = passed_quiesc[e]
    BY <1>4, <1>t, <1>0 DEF ContextSwitch, rcp, lists, ghost
  <2>2. Outlives(batch[d], r[1])
    BY <2>1, <1>w
  <2> QED
    BY <2>1, <2>2, <1>r DEF Outlives, OutlivesNext
<1>5. ASSUME NEW c \in CPU, rcu_check_callbacks(c) PROVE OutlivesNext(batch'[d], r[1])
  <2>1. /\ pc' = pc /\ curlist' = curlist /\ waits' = waits
        /\ UNCHANGED <<batch, cur, completed, cpumask, quiescbatch>>
        /\ \A e \in CPU : active[e] # {} => passed_quiesc'[e] = passed_quiesc[e]
    BY <1>5, <1>t, <1>0 DEF rcu_check_callbacks, rcp, lists, ghost
  <2>2. Outlives(batch[d], r[1])
    BY <2>1, <1>w
  <2> QED
    BY <2>1, <2>2, <1>r DEF Outlives, OutlivesNext
<1>6. ASSUME NEW c \in CPU, Advance(c) PROVE OutlivesNext(batch'[d], r[1])
  <2>1. AdvanceEffect(c)
    BY <1>6, AdvanceStep
  <2>2. /\ pc[d] # "number" /\ g \in ToSet(curlist[d]) /\ r \in waits[g]
        /\ UNCHANGED <<batch, cur, completed, cpumask, quiescbatch, passed_quiesc>>
    BY <2>1, ToSetEmpty DEF AdvanceEffect
  <2>3. Outlives(batch[d], r[1])
    BY <2>2, <1>w
  <2> QED
    BY <2>2, <2>3 DEF Outlives, OutlivesNext
<1>7. ASSUME NEW c \in CPU, TakeNext(c) PROVE OutlivesNext(batch'[d], r[1])
  <2>1. TakeNextEffect(c)
    BY <1>7, TakeNextStep
  <2>2. /\ pc[d] # "number" /\ g \in ToSet(curlist[d]) /\ r \in waits[g]
        /\ UNCHANGED <<batch, cur, completed, cpumask, quiescbatch, passed_quiesc>>
    BY <2>1 DEF TakeNextEffect
  <2>3. Outlives(batch[d], r[1])
    BY <2>2, <1>w
  <2> QED
    BY <2>2, <2>3 DEF Outlives, OutlivesNext
<1>8. ASSUME NEW c \in CPU, NumberBatch(c) PROVE OutlivesNext(batch'[d], r[1])
  <2>1. NumberBatchEffect(c)
    BY <1>8, NumberBatchStep
  <2>2. CASE d = c
    BY <2>1, <2>2, <1>0, <1>t DEF NumberBatchEffect, OutlivesNext, BatchInv
  <2>3. CASE d # c
    <3>1. /\ pc[d] # "number" /\ g \in ToSet(curlist[d]) /\ r \in waits[g] /\ batch'[d] = batch[d]
          /\ UNCHANGED <<cur, completed, cpumask, quiescbatch, passed_quiesc>>
      BY <2>1, <2>3 DEF NumberBatchEffect
    <3>2. Outlives(batch[d], r[1])
      BY <3>1, <1>w
    <3> QED
      BY <3>1, <3>2 DEF Outlives, OutlivesNext
  <2> QED
    BY <2>2, <2>3
<1>9. ASSUME NEW c \in CPU, ReadPending(c) PROVE OutlivesNext(batch'[d], r[1])
  <2>1. /\ pc[d] # "number" /\ g \in ToSet(curlist[d]) /\ r \in waits[g]
        /\ UNCHANGED <<batch, cur, completed, cpumask, quiescbatch, passed_quiesc>>
    BY <1>9, <1>t DEF ReadPending, At, Goto, rcp, qs, lists, ghost
  <2>2. Outlives(batch[d], r[1])
    BY <2>1, <1>w
  <2> QED
    BY <2>1, <2>2 DEF Outlives, OutlivesNext
<1>10. ASSUME NEW c \in CPU, SetPending(c) PROVE OutlivesNext(batch'[d], r[1])
  <2>1. /\ pc[d] # "number" /\ g \in ToSet(curlist[d]) /\ r \in waits[g]
        /\ UNCHANGED <<batch, cur, completed, cpumask, quiescbatch, passed_quiesc>>
    BY <1>10, <1>t DEF SetPending, At, Goto, rcp, qs, lists, ghost
  <2>2. Outlives(batch[d], r[1])
    BY <2>1, <1>w
  <2> QED
    BY <2>1, <2>2 DEF Outlives, OutlivesNext
<1>11. ASSUME NEW c \in CPU, StartBatch(c) PROVE OutlivesNext(batch'[d], r[1])
  <2>1. StartBatchEffect(c)
    BY <1>11, StartBatchStep
  <2>2. /\ pc[d] # "number" /\ g \in ToSet(curlist[d]) /\ r \in waits[g]
        /\ UNCHANGED <<batch, cur, completed, cpumask, quiescbatch, passed_quiesc>>
    BY <2>1 DEF StartBatchEffect
  <2>3. Outlives(batch[d], r[1])
    BY <2>2, <1>w
  <2> QED
    BY <2>2, <2>3 DEF Outlives, OutlivesNext
<1>12. ASSUME NEW c \in CPU, IncrCur(c) PROVE OutlivesNext(batch'[d], r[1])
  <2>1. IncrCurEffect(c)
    BY <1>12, IncrCurStep
  <2>2. pc[d] # "number" /\ g \in ToSet(curlist[d]) /\ r \in waits[g] /\ batch'[d] = batch[d]
    BY <2>1, ToSetEmpty DEF IncrCurEffect
  <2>3. Outlives(batch[d], r[1]) /\ r[1] \in CPU /\ r[1] \in online
    BY <2>2, <1>w, <1>r
  <2> QED
    BY <2>1, <2>2, <2>3, <1>0, <1>t DEF IncrCurEffect, Outlives, OutlivesNext, BatchInv
<1>13. ASSUME NEW c \in CPU, CheckQuiescent(c) PROVE OutlivesNext(batch'[d], r[1])
  <2>1. CheckQuiescentEffect(c)
    BY <1>13, CheckQuiescentStep
  <2>2. pc[d] # "number" /\ g \in ToSet(curlist[d]) /\ r \in waits[g] /\ batch'[d] = batch[d]
    BY <2>1, ToSetEmpty DEF CheckQuiescentEffect
  <2>3. Outlives(batch[d], r[1]) /\ r[1] \in CPU /\ r[1] \in online
    BY <2>2, <1>w, <1>r
  <2> QED
    BY <2>1, <2>2, <2>3, <1>0, <1>t DEF CheckQuiescentEffect, Outlives, OutlivesNext
<1>14. ASSUME NEW c \in CPU, NoteBatch(c) PROVE OutlivesNext(batch'[d], r[1])
  <2>1. NoteBatchEffect(c)
    BY <1>14, NoteBatchStep
  <2>2. pc[d] # "number" /\ g \in ToSet(curlist[d]) /\ r \in waits[g] /\ batch'[d] = batch[d]
    BY <2>1, ToSetEmpty DEF NoteBatchEffect
  <2>3. Outlives(batch[d], r[1]) /\ r[1] \in CPU /\ r[1] \in online
    BY <2>2, <1>w, <1>r
  <2> QED
    BY <2>1, <2>2, <2>3, <1>0, <1>t DEF NoteBatchEffect, Outlives, OutlivesNext, QuietInv
<1>15. ASSUME NEW c \in CPU, ReportQuiet(c) PROVE OutlivesNext(batch'[d], r[1])
  <2>1. ReportQuietEffect(c)
    BY <1>15, ReportQuietStep
  <2>2. pc[d] # "number" /\ g \in ToSet(curlist[d]) /\ r \in waits[g] /\ batch'[d] = batch[d]
    BY <2>1, ToSetEmpty DEF ReportQuietEffect
  <2>3. Outlives(batch[d], r[1]) /\ r[1] \in CPU /\ r[1] \in online
    BY <2>2, <1>w, <1>r
  <2> QED
    BY <2>1, <2>2, <2>3, <1>0, <1>t DEF ReportQuietEffect, Outlives, OutlivesNext, QuietInv
<1>16. ASSUME NEW c \in CPU, rcu_do_batch(c) PROVE OutlivesNext(batch'[d], r[1])
  <2>1. DoBatchEffect(c)
    BY <1>16, DoBatchStep
  <2>2. /\ pc[d] # "number" /\ g \in ToSet(curlist[d]) /\ r \in waits[g]
        /\ UNCHANGED <<batch, cur, completed, cpumask, quiescbatch, passed_quiesc>>
    BY <2>1 DEF DoBatchEffect
  <2>3. Outlives(batch[d], r[1])
    BY <2>2, <1>w
  <2> QED
    BY <2>2, <2>3 DEF Outlives, OutlivesNext
<1>17. ASSUME NEW c \in CPU, BarrierWait(c) PROVE OutlivesNext(batch'[d], r[1])
  <2>1. /\ pc[d] # "number" /\ g \in ToSet(curlist[d]) /\ r \in waits[g]
        /\ UNCHANGED <<batch, cur, completed, cpumask, quiescbatch, passed_quiesc>>
    BY <1>17, <1>t DEF BarrierWait, Finish, rcp, qs, lists, ghost
  <2>2. Outlives(batch[d], r[1])
    BY <2>1, <1>w
  <2> QED
    BY <2>1, <2>2 DEF Outlives, OutlivesNext
<1>18. ASSUME NEW c \in CPU, CpuDie(c) PROVE OutlivesNext(batch'[d], r[1])
  <2>1. /\ pc' = pc /\ curlist' = curlist /\ waits' = waits
        /\ UNCHANGED <<batch, cur, completed, cpumask, quiescbatch>>
        /\ \A e \in CPU : active[e] # {} => passed_quiesc'[e] = passed_quiesc[e]
    BY <1>18, <1>t, <1>0 DEF CpuDie, OfflineInv, rcp, lists, ghost
  <2>2. Outlives(batch[d], r[1])
    BY <2>1, <1>w
  <2> QED
    BY <2>1, <2>2, <1>r DEF Outlives, OutlivesNext
<1>19. CASE OfflineQuiet
  <2>1. OfflineQuietEffect
    BY <1>19, OfflineQuietStep
  <2>2. pc[d] # "number" /\ g \in ToSet(curlist[d]) /\ r \in waits[g] /\ batch'[d] = batch[d]
    BY <2>1, ToSetEmpty DEF OfflineQuietEffect
  <2>3. Outlives(batch[d], r[1]) /\ r[1] \in CPU /\ r[1] \in online
    BY <2>2, <1>w, <1>r
  <2> QED
    BY <2>1, <2>2, <2>3, <1>0, <1>t DEF OfflineQuietEffect, Outlives, OutlivesNext
<1>20. CASE OfflineMove
  <2>1. OfflineMoveEffect
    BY <1>20, OfflineMoveStep
  <2>2. /\ pc[d] # "number" /\ g \in ToSet(curlist[d]) /\ r \in waits[g]
        /\ UNCHANGED <<batch, cur, completed, cpumask, quiescbatch, passed_quiesc>>
    BY <2>1, ToSetEmpty DEF OfflineMoveEffect, Finish
  <2>3. Outlives(batch[d], r[1])
    BY <2>2, <1>w
  <2> QED
    BY <2>2, <2>3 DEF Outlives, OutlivesNext
<1>21. ASSUME NEW c \in CPU, CpuUp(c) PROVE OutlivesNext(batch'[d], r[1])
  <2>1. CpuUpEffect(c)
    BY <1>21, CpuUpStep
  <2>2. pc[d] # "number" /\ g \in ToSet(curlist[d]) /\ r \in waits[g] /\ batch'[d] = batch[d]
    BY <2>1, ToSetEmpty DEF CpuUpEffect
  <2>3. Outlives(batch[d], r[1]) /\ r[1] \in CPU /\ r[1] \in online
    BY <2>2, <1>w, <1>r
  <2> QED
    BY <2>1, <2>2, <2>3, <1>0, <1>t DEF CpuUpEffect, Outlives, OutlivesNext
<1> QED
  <2>1. ASSUME NEW c \in CPU,
               \/ (\E x \in work.reads : rcu_read_lock(c, x))
        PROVE  UNCHANGED <<batch, completed, cpumask, cur, curlist, passed_quiesc, pc, quiescbatch, waits>>
    BY <2>1 DEF rcu_read_lock, rcp, qs, lists, ghost
  <2>2. ASSUME Barrier \/ Hotplug
        PROVE  \/ UNCHANGED <<batch, completed, cpumask, cur, curlist, passed_quiesc, pc, quiescbatch, waits>>
               \/ \E c \in CPU : \/ BarrierWait(c) \/ CpuDie(c) \/ CpuUp(c)
               \/ OfflineQuiet \/ OfflineMove
    BY <2>2 DEF Barrier, Hotplug, rcu_barrier, rcu_barrier_func, BarrierReturn, PreemptOff,
       Enqueue, rcp, qs, lists, ghost
  <2> QED
    BY <2>1, <2>2, <1>1, <1>2, <1>3, <1>4, <1>5, <1>6, <1>7, <1>8, <1>9, <1>10, <1>11, <1>12,
       <1>13, <1>14, <1>15, <1>16, <1>17, <1>18, <1>19, <1>20, <1>21 DEF Next, Tasklet

\* qlen counts what is on the three lists, as long as no CPU goes down.
LEMMA QlenStep ==
  ASSUME IInv, Next
  PROVE  QlenInv'
<1>0. QlenInv /\ OfflineInv
  BY DEF IInv
<1>t. /\ nxtlist \in [CPU -> Seq(RcuHead)] /\ curlist \in [CPU -> Seq(RcuHead)]
      /\ donelist \in [CPU -> Seq(RcuHead)] /\ qlen \in [CPU -> Int]
  BY DEF IInv, ControlOK, TypeOK
\* Nothing that the invariant is about changes.
<1>1. CASE UNCHANGED <<curlist, donelist, nxtlist, qlen, work>>
  BY <1>0, <1>1 DEF QlenInv
<1>2. ASSUME NEW c \in CPU, NEW f \in Callback, call_rcu(c, f) PROVE QlenInv'
  <2>1. EnqueueEffect(c, f)
    BY <1>2, EnqueueStep DEF call_rcu, RcuHead
  <2>2. work' = work
    BY <1>2 DEF call_rcu, cpus
  <2>3. \A d \in CPU \ {c} : /\ qlen'[d] = qlen[d] /\ nxtlist'[d] = nxtlist[d]
                             /\ curlist'[d] = curlist[d] /\ donelist'[d] = donelist[d]
    BY <2>1 DEF EnqueueEffect
  <2> DEFINE nxt == Len(nxtlist[c])
             now == Len(curlist[c])
             done == Len(donelist[c])
             nxt1 == Len(nxtlist'[c])
             now1 == Len(curlist'[c])
             done1 == Len(donelist'[c])
  <2>4. /\ nxt \in Nat /\ now \in Nat /\ done \in Nat /\ qlen[c] \in Int
        /\ nxt1 \in Nat /\ now1 \in Nat /\ done1 \in Nat
    BY <1>t, ListStep DEF ListsOK
  <2>5. nxt1 = nxt + 1 /\ now1 = now /\ done1 = done /\ qlen'[c] = qlen[c] + 1
    BY <2>1, <2>4, ToSetEmpty DEF EnqueueEffect
  <2> HIDE DEF nxt, now, done, nxt1, now1, done1
  <2>6. qlen[c] = nxt + now + done => qlen'[c] = nxt1 + now1 + done1
    BY <2>4, <2>5
  <2> QED
    BY <2>2, <2>3, <2>6, <1>0 DEF QlenInv, nxt, now, done, nxt1, now1, done1
<1>3. ASSUME NEW c \in CPU, Advance(c) PROVE QlenInv'
  <2>1. AdvanceEffect(c)
    BY <1>3, AdvanceStep
  <2>2. work' = work
    BY <1>3 DEF Advance, cpus
  <2>3. \A d \in CPU \ {c} : /\ qlen'[d] = qlen[d] /\ nxtlist'[d] = nxtlist[d]
                             /\ curlist'[d] = curlist[d] /\ donelist'[d] = donelist[d]
    BY <2>1 DEF AdvanceEffect
  <2> DEFINE nxt == Len(nxtlist[c])
             now == Len(curlist[c])
             done == Len(donelist[c])
             nxt1 == Len(nxtlist'[c])
             now1 == Len(curlist'[c])
             done1 == Len(donelist'[c])
  <2>4. /\ nxt \in Nat /\ now \in Nat /\ done \in Nat /\ qlen[c] \in Int
        /\ nxt1 \in Nat /\ now1 \in Nat /\ done1 \in Nat
    BY <1>t, ListStep DEF ListsOK
  <2>5. /\ qlen'[c] = qlen[c] /\ nxt1 = nxt
        /\ \/ now1 = 0 /\ done1 = done + now
           \/ now1 = now /\ done1 = done
    <3>1. donelist[c] \in Seq(RcuHead) /\ curlist[c] \in Seq(RcuHead)
      BY <1>t
    <3>2. Len(donelist[c] \o curlist[c]) = done + now
      BY <3>1, ToSetConcat
    <3> QED
      BY <2>1, <3>2, ToSetEmpty DEF AdvanceEffect
  <2> HIDE DEF nxt, now, done, nxt1, now1, done1
  <2>6. qlen[c] = nxt + now + done => qlen'[c] = nxt1 + now1 + done1
    BY <2>4, <2>5
  <2> QED
    BY <2>2, <2>3, <2>6, <1>0 DEF QlenInv, nxt, now, done, nxt1, now1, done1
<1>4. ASSUME NEW c \in CPU, TakeNext(c) PROVE QlenInv'
  <2>1. TakeNextEffect(c)
    BY <1>4, TakeNextStep
  <2>2. work' = work
    BY <1>4 DEF TakeNext, cpus
  <2>3. \A d \in CPU \ {c} : /\ qlen'[d] = qlen[d] /\ nxtlist'[d] = nxtlist[d]
                             /\ curlist'[d] = curlist[d] /\ donelist'[d] = donelist[d]
    BY <2>1 DEF TakeNextEffect
  <2> DEFINE nxt == Len(nxtlist[c])
             now == Len(curlist[c])
             done == Len(donelist[c])
             nxt1 == Len(nxtlist'[c])
             now1 == Len(curlist'[c])
             done1 == Len(donelist'[c])
  <2>4. /\ nxt \in Nat /\ now \in Nat /\ done \in Nat /\ qlen[c] \in Int
        /\ nxt1 \in Nat /\ now1 \in Nat /\ done1 \in Nat
    BY <1>t, ListStep DEF ListsOK
  <2>5. /\ qlen'[c] = qlen[c] /\ done1 = done
        /\ \/ now = 0 /\ now1 = nxt /\ nxt1 = 0
           \/ now1 = now /\ nxt1 = nxt
    BY <2>1, <2>4, ToSetEmpty DEF TakeNextEffect
  <2> HIDE DEF nxt, now, done, nxt1, now1, done1
  <2>6. qlen[c] = nxt + now + done => qlen'[c] = nxt1 + now1 + done1
    BY <2>4, <2>5
  <2> QED
    BY <2>2, <2>3, <2>6, <1>0 DEF QlenInv, nxt, now, done, nxt1, now1, done1
<1>5. ASSUME NEW c \in CPU, rcu_do_batch(c) PROVE QlenInv'
  <2>1. DoBatchEffect(c)
    BY <1>5, DoBatchStep
  <2>2. work' = work
    BY <1>5 DEF rcu_do_batch, cpus
  <2>3. \A d \in CPU \ {c} : /\ qlen'[d] = qlen[d] /\ nxtlist'[d] = nxtlist[d]
                             /\ curlist'[d] = curlist[d] /\ donelist'[d] = donelist[d]
    BY <2>1 DEF DoBatchEffect
  <2> DEFINE nxt == Len(nxtlist[c])
             now == Len(curlist[c])
             done == Len(donelist[c])
             nxt1 == Len(nxtlist'[c])
             now1 == Len(curlist'[c])
             done1 == Len(donelist'[c])
  <2>4. /\ nxt \in Nat /\ now \in Nat /\ done \in Nat /\ qlen[c] \in Int
        /\ nxt1 \in Nat /\ now1 \in Nat /\ done1 \in Nat
    BY <1>t, ListStep DEF ListsOK
  <2>5. /\ qlen'[c] = qlen[c] - (done - done1) /\ nxt1 = nxt /\ now1 = now
    BY <2>1, <2>4, ToSetEmpty DEF DoBatchEffect
  <2> HIDE DEF nxt, now, done, nxt1, now1, done1
  <2>6. qlen[c] = nxt + now + done => qlen'[c] = nxt1 + now1 + done1
    BY <2>4, <2>5
  <2> QED
    BY <2>2, <2>3, <2>6, <1>0 DEF QlenInv, nxt, now, done, nxt1, now1, done1
<1>6. ASSUME NEW c \in CPU, rcu_barrier_func(c) PROVE QlenInv'
  <2>1. EnqueueEffect(c, c)
    BY <1>6, EnqueueStep DEF rcu_barrier_func, RcuHead
  <2>2. work' = work
    BY <1>6 DEF rcu_barrier_func, cpus
  <2>3. \A d \in CPU \ {c} : /\ qlen'[d] = qlen[d] /\ nxtlist'[d] = nxtlist[d]
                             /\ curlist'[d] = curlist[d] /\ donelist'[d] = donelist[d]
    BY <2>1 DEF EnqueueEffect
  <2> DEFINE nxt == Len(nxtlist[c])
             now == Len(curlist[c])
             done == Len(donelist[c])
             nxt1 == Len(nxtlist'[c])
             now1 == Len(curlist'[c])
             done1 == Len(donelist'[c])
  <2>4. /\ nxt \in Nat /\ now \in Nat /\ done \in Nat /\ qlen[c] \in Int
        /\ nxt1 \in Nat /\ now1 \in Nat /\ done1 \in Nat
    BY <1>t, ListStep DEF ListsOK
  <2>5. nxt1 = nxt + 1 /\ now1 = now /\ done1 = done /\ qlen'[c] = qlen[c] + 1
    BY <2>1, <2>4, ToSetEmpty DEF EnqueueEffect
  <2> HIDE DEF nxt, now, done, nxt1, now1, done1
  <2>6. qlen[c] = nxt + now + done => qlen'[c] = nxt1 + now1 + done1
    BY <2>4, <2>5
  <2> QED
    BY <2>2, <2>3, <2>6, <1>0 DEF QlenInv, nxt, now, done, nxt1, now1, done1
<1>7. CASE OfflineMove
  BY <1>7, <1>0, <1>t DEF OfflineMove, OfflineInv, QlenInv, cpus
<1>8. ASSUME NEW c \in CPU, CpuUp(c) PROVE QlenInv'
  BY <1>8, <1>0, <1>t DEF CpuUp, OfflineInv, QlenInv, cpus
<1> QED
  <2>1. ASSUME NEW c \in CPU, Tasklet(c)
        PROVE  \/ UNCHANGED <<curlist, donelist, nxtlist, qlen, work>>
               \/ Advance(c) \/ TakeNext(c) \/ rcu_do_batch(c)
    BY <2>1 DEF Tasklet, NumberBatch, ReadPending, SetPending, StartBatch, IncrCur,
       CheckQuiescent, NoteBatch, ReportQuiet, MustAsk, MayStart, ForgetQuiet, ClearMask, Goto,
       lists, cpus
  <2>2. ASSUME NEW c \in CPU,
               \/ (\E x \in work.reads : rcu_read_lock(c, x))
               \/ (\E x \in work.reads : rcu_read_unlock(c, x)) \/ ContextSwitch(c)
               \/ rcu_check_callbacks(c)
        PROVE  UNCHANGED <<curlist, donelist, nxtlist, qlen, work>>
    BY <2>2 DEF rcu_read_lock, rcu_read_unlock, ContextSwitch, rcu_check_callbacks, Finish,
       lists, cpus
  <2>3. ASSUME Barrier \/ Hotplug
        PROVE  \/ UNCHANGED <<curlist, donelist, nxtlist, qlen, work>>
               \/ \E c \in CPU : \/ rcu_barrier_func(c) \/ CpuUp(c)
               \/ OfflineMove
    BY <2>3 DEF Barrier, Hotplug, rcu_barrier, BarrierWait, BarrierReturn, CpuDie,
       OfflineQuiet, PreemptOff, Finish, DeadQuiet, ClearMask, lists, cpus
  <2> QED
    BY <2>1, <2>2, <2>3, <1>1, <1>2, <1>3, <1>4, <1>5, <1>6, <1>7, <1>8 DEF Next

\* rcu_barrier() runs once, if at all.
LEMMA BarrierTypes ==
  ASSUME IInv, Next
  PROVE  BarrierOK'
<1>0. BarrierOK /\ online \subseteq CPU
  BY DEF IInv, ControlOK, TypeOK
\* Nothing that the invariant is about changes.
<1>1. CASE UNCHANGED <<bar, work>>
  BY <1>0, <1>1 DEF BarrierOK
<1>2. ASSUME NEW c \in CPU, rcu_do_batch(c) PROVE BarrierOK'
  <2>1. work' = work /\ \E x \in BOOLEAN : bar' = [bar EXCEPT !.done = x]
    BY <1>2, <1>0 DEF rcu_do_batch, cpus, BarrierOK
  <2> QED
    BY <2>1, <1>0 DEF BarrierOK
<1>3. ASSUME NEW c \in CPU, rcu_barrier(c) PROVE BarrierOK'
  BY <1>3, <1>0 DEF rcu_barrier, cpus, BarrierOK
<1>4. ASSUME NEW c \in CPU, rcu_barrier_func(c) PROVE BarrierOK'
  BY <1>4, <1>0 DEF rcu_barrier_func, cpus, BarrierOK
<1>5. ASSUME NEW c \in CPU, BarrierWait(c) PROVE BarrierOK'
  BY <1>5, <1>0 DEF BarrierWait, cpus, BarrierOK
<1>6. CASE BarrierReturn
  BY <1>6, <1>0 DEF BarrierReturn, cpus, BarrierOK
<1> QED
  <2>1. ASSUME NEW c \in CPU, Tasklet(c)
        PROVE  UNCHANGED <<bar, work>> \/ rcu_do_batch(c)
    BY <2>1 DEF Tasklet, Advance, TakeNext, NumberBatch, ReadPending, SetPending, StartBatch,
       IncrCur, CheckQuiescent, NoteBatch, ReportQuiet, barrier, cpus
  <2>2. ASSUME NEW c \in CPU,
               \/ (\E x \in work.reads : rcu_read_lock(c, x))
               \/ (\E x \in work.reads : rcu_read_unlock(c, x)) \/ ContextSwitch(c)
               \/ rcu_check_callbacks(c) \/ (\E f \in Callback : call_rcu(c, f))
        PROVE  UNCHANGED <<bar, work>>
    BY <2>2 DEF rcu_read_lock, rcu_read_unlock, ContextSwitch, rcu_check_callbacks, call_rcu,
       barrier, cpus
  <2>3. ASSUME Hotplug PROVE UNCHANGED <<bar, work>>
    BY <2>3 DEF Hotplug, CpuDie, CpuUp, OfflineQuiet, OfflineMove, barrier
  <2> QED
    BY <2>1, <2>2, <2>3, <1>1, <1>2, <1>3, <1>4, <1>5, <1>6 DEF Next, Barrier

\* The head of a CPU is queued after rcu_barrier_func() has run there.
LEMMA BarHeadStep ==
  ASSUME IInv, Next
  PROVE  BarHeadInv'
<1>0. BarHeadInv /\ BarrierOK
  BY DEF IInv
<1>t. /\ nxtlist \in [CPU -> Seq(RcuHead)] /\ curlist \in [CPU -> Seq(RcuHead)]
      /\ donelist \in [CPU -> Seq(RcuHead)] /\ Callback \cap CPU = {}
  BY RcuAssumption DEF IInv, ControlOK, TypeOK
\* Nothing that the invariant is about changes.
<1>1. CASE UNCHANGED <<bar, curlist, donelist, nxtlist>>
  BY <1>0, <1>1 DEF BarHeadInv, Heads
\* No head comes in.
<1>m. ASSUME bar'.stage = bar.stage, bar'.todo = bar.todo,
             \A d \in CPU : \A h \in Heads(d)' : \E e \in CPU : h \in Heads(e)
      PROVE  BarHeadInv'
  <2> SUFFICES ASSUME NEW c \in CPU, NEW d \in CPU, c \in Heads(d)'
               PROVE  bar'.stage # "off" /\ c \notin bar'.todo
    BY DEF BarHeadInv
  <2>1. PICK e \in CPU : c \in Heads(e)
    BY <1>m
  <2> QED
    BY <2>1, <1>0, <1>m DEF BarHeadInv
<1>2. ASSUME NEW c \in CPU, NEW f \in Callback, call_rcu(c, f) PROVE BarHeadInv'
  <2>1. EnqueueEffect(c, f)
    BY <1>2, EnqueueStep DEF call_rcu, RcuHead
  <2>2. bar' = bar
    BY <1>2 DEF call_rcu, barrier
  <2>3. ASSUME NEW d \in CPU PROVE Heads(d)' \subseteq Heads(d) \cup {f}
    BY <2>1 DEF EnqueueEffect, Heads
  <2> QED
    BY <2>2, <2>3, <1>0, <1>t DEF BarHeadInv
<1>3. ASSUME NEW c \in CPU, Advance(c) PROVE BarHeadInv'
  <2>1. AdvanceEffect(c) /\ bar' = bar
    BY <1>3, AdvanceStep DEF Advance, barrier
  <2>2. ToSet(donelist[c] \o curlist[c]) = ToSet(donelist[c]) \cup ToSet(curlist[c])
    BY <1>t, ToSetConcat
  <2>3. ASSUME NEW d \in CPU PROVE Heads(d)' \subseteq Heads(d)
    BY <2>1, <2>2, ToSetEmpty DEF AdvanceEffect, Heads
  <2> QED
    BY <2>1, <2>3, <1>m
<1>4. ASSUME NEW c \in CPU, TakeNext(c) PROVE BarHeadInv'
  <2>1. TakeNextEffect(c) /\ bar' = bar
    BY <1>4, TakeNextStep DEF TakeNext, barrier
  <2>3. ASSUME NEW d \in CPU PROVE Heads(d)' \subseteq Heads(d)
    BY <2>1, ToSetEmpty DEF TakeNextEffect, Heads
  <2> QED
    BY <2>1, <2>3, <1>m
<1>5. ASSUME NEW c \in CPU, rcu_do_batch(c) PROVE BarHeadInv'
  <2>1. DoBatchEffect(c)
    BY <1>5, DoBatchStep
  <2>2. bar'.stage = bar.stage /\ bar'.todo = bar.todo
    BY <1>5, <1>0 DEF rcu_do_batch, BarrierOK
  <2>3. ASSUME NEW d \in CPU PROVE Heads(d)' \subseteq Heads(d)
    BY <2>1 DEF DoBatchEffect, Heads
  <2> QED
    BY <2>2, <2>3, <1>m
<1>6. ASSUME NEW c \in CPU, rcu_barrier_func(c) PROVE BarHeadInv'
  <2>1. EnqueueEffect(c, c)
    BY <1>6, EnqueueStep DEF rcu_barrier_func, RcuHead
  <2>2. bar'.stage = bar.stage /\ bar.stage = "ipi" /\ bar'.todo = bar.todo \ {c}
    BY <1>6, <1>0 DEF rcu_barrier_func, BarrierOK
  <2>3. ASSUME NEW d \in CPU PROVE Heads(d)' \subseteq Heads(d) \cup {c}
    BY <2>1 DEF EnqueueEffect, Heads
  <2> QED
    BY <2>2, <2>3, <1>0 DEF BarHeadInv
<1>7. CASE OfflineMove
  <2>1. OfflineMoveEffect /\ bar' = bar
    BY <1>7, OfflineMoveStep DEF OfflineMove, barrier
  <2>2. hp.cpu \in CPU
    BY <2>1 DEF OfflineMoveEffect
  <2>3. ASSUME NEW d \in CPU PROVE Heads(d)' \subseteq Heads(d) \cup Heads(hp.cpu)
    BY <2>1, ToSetEmpty DEF OfflineMoveEffect, Heads
  <2> QED
    BY <2>1, <2>2, <2>3, <1>m
<1>8. ASSUME NEW c \in CPU, CpuUp(c) PROVE BarHeadInv'
  <2>1. CpuUpEffect(c) /\ bar' = bar
    BY <1>8, CpuUpStep DEF CpuUp, barrier
  <2>3. ASSUME NEW d \in CPU PROVE Heads(d)' \subseteq Heads(d)
    BY <2>1 DEF CpuUpEffect, Heads
  <2> QED
    BY <2>1, <2>3, <1>m
<1>9. ASSUME NEW c \in CPU, rcu_barrier(c) PROVE BarHeadInv'
  <2>1. bar.stage = "off" /\ UNCHANGED <<nxtlist, curlist, donelist>>
    BY <1>9 DEF rcu_barrier, lists
  <2> QED
    BY <2>1, <1>0 DEF BarHeadInv, Heads
<1>10. CASE BarrierReturn \/ \E c \in CPU : BarrierWait(c)
  <2>1. /\ bar'.stage # "off" /\ bar'.todo = bar.todo
        /\ UNCHANGED <<nxtlist, curlist, donelist>>
    BY <1>10, <1>0 DEF BarrierReturn, BarrierWait, lists, BarrierOK
  <2> QED
    BY <2>1, <1>0 DEF BarHeadInv, Heads
<1> QED
  <2>1. ASSUME NEW c \in CPU, Tasklet(c)
        PROVE  \/ UNCHANGED <<bar, curlist, donelist, nxtlist>>
               \/ Advance(c) \/ TakeNext(c) \/ rcu_do_batch(c)
    BY <2>1 DEF Tasklet, NumberBatch, ReadPending, SetPending, StartBatch, IncrCur,
       CheckQuiescent, NoteBatch, ReportQuiet, lists, barrier
  <2>2. ASSUME NEW c \in CPU,
               \/ (\E x \in work.reads : rcu_read_lock(c, x))
               \/ (\E x \in work.reads : rcu_read_unlock(c, x)) \/ ContextSwitch(c)
               \/ rcu_check_callbacks(c)
        PROVE  UNCHANGED <<bar, curlist, donelist, nxtlist>>
    BY <2>2 DEF rcu_read_lock, rcu_read_unlock, ContextSwitch, rcu_check_callbacks, lists, barrier
  <2>3. ASSUME Hotplug
        PROVE  \/ UNCHANGED <<bar, curlist, donelist, nxtlist>>
               \/ \E c \in CPU : CpuUp(c)
               \/ OfflineMove
    BY <2>3 DEF Hotplug, CpuDie, OfflineQuiet, lists, barrier
  <2> QED
    BY <2>1, <2>2, <2>3, <1>1, <1>2, <1>3, <1>4, <1>5, <1>6, <1>7, <1>8, <1>9, <1>10
       DEF Next, Barrier

\* rcu_offline_cpu() empties the dead CPU's lists one after the other.
LEMMA OfflineMoveLists ==
  ASSUME IInv, OfflineMove
  PROVE  /\ hp.this \in online /\ hp.cpu \in CPU \ online /\ UNCHANGED <<online, work, called, invoked>>
         /\ \/ /\ hp.stage = "curlist" /\ hp'.stage = "nxtlist" /\ hp'.cpu = hp.cpu
               /\ nxtlist' = [nxtlist EXCEPT ![hp.this] = @ \o curlist[hp.cpu]]
               /\ curlist' = [curlist EXCEPT ![hp.cpu] = <<>>] /\ donelist' = donelist
            \/ /\ hp.stage = "nxtlist" /\ hp'.stage = "donelist" /\ hp'.cpu = hp.cpu
               /\ nxtlist' = [nxtlist EXCEPT ![hp.this] = @ \o nxtlist[hp.cpu], ![hp.cpu] = <<>>]
               /\ curlist' = curlist /\ donelist' = donelist
            \/ /\ hp.stage = "donelist" /\ hp'.stage = "none" /\ hp'.cpu = NoCPU
               /\ nxtlist' = [nxtlist EXCEPT ![hp.this] = @ \o donelist[hp.cpu]]
               /\ curlist' = curlist /\ donelist' = [donelist EXCEPT ![hp.cpu] = <<>>]
<1>t. /\ nxtlist \in [CPU -> Seq(RcuHead)] /\ online \subseteq CPU /\ OfflineInv
      /\ hp \in [stage : HpStage, cpu : CPU \cup {NoCPU}, this : CPU \cup {NoCPU}]
  BY DEF IInv, ControlOK, TypeOK
<1>1. /\ hp.this \in online /\ hp.cpu \in CPU \ online /\ hp.this # hp.cpu
      /\ hp.this \in CPU /\ hp.cpu \in CPU /\ UNCHANGED <<online, work, called, invoked>>
  BY <1>t DEF OfflineMove, OfflineInv, Running
<1>2. ASSUME NEW list, Move(list), hp.stage # "nxtlist"
      PROVE  nxtlist' = [nxtlist EXCEPT ![hp.this] = @ \o list[hp.cpu]]
  <2> PICK s : s = nxtlist[hp.this] \o list[hp.cpu]
    OBVIOUS
  <2>1. nxtlist' = [nxtlist EXCEPT ![hp.this] = s, ![hp.cpu] = nxtlist[hp.cpu]]
    BY <1>2, <1>1, <1>t DEF Move
  <2> QED
    BY <2>1, <1>1, <1>t
<1>3. ASSUME Move(nxtlist), hp.stage = "nxtlist"
      PROVE  nxtlist' = [nxtlist EXCEPT ![hp.this] = @ \o nxtlist[hp.cpu], ![hp.cpu] = <<>>]
  BY <1>3, <1>1 DEF Move
<1>4. CASE hp.stage = "curlist"
  BY <1>1, <1>2, <1>4, <1>t DEF OfflineMove
<1>5. CASE hp.stage = "nxtlist"
  BY <1>1, <1>3, <1>5, <1>t DEF OfflineMove
<1>6. CASE hp.stage = "donelist"
  BY <1>1, <1>2, <1>6, <1>t DEF OfflineMove
<1> QED
  BY <1>4, <1>5, <1>6 DEF OfflineMove

\* Nothing is queued on a CPU that is not online.
LEMMA GoneStep ==
  ASSUME IInv, Next
  PROVE  GoneInv'
<1>0. GoneInv /\ OfflineInv /\ BarrierOK
  BY DEF IInv
<1>t. /\ nxtlist \in [CPU -> Seq(RcuHead)] /\ curlist \in [CPU -> Seq(RcuHead)]
      /\ donelist \in [CPU -> Seq(RcuHead)] /\ NoCPU \notin CPU /\ online \subseteq CPU
      /\ hp \in [stage : HpStage, cpu : CPU \cup {NoCPU}, this : CPU \cup {NoCPU}]
  BY RcuAssumption DEF IInv, ControlOK, TypeOK
\* Nothing that the invariant is about changes.
<1>1. CASE UNCHANGED <<curlist, donelist, nxtlist, online, hp, work>>
  BY <1>0, <1>1 DEF GoneInv
\* What happens on an online CPU.
<1>m. ASSUME NEW c \in online, UNCHANGED <<online, hp, work>>,
             \A d \in CPU \ {c} : /\ nxtlist'[d] = nxtlist[d] /\ curlist'[d] = curlist[d]
                                  /\ donelist'[d] = donelist[d]
      PROVE  GoneInv'
  BY <1>0, <1>m DEF GoneInv
<1>2. ASSUME NEW c \in CPU, NEW f \in Callback, call_rcu(c, f) PROVE GoneInv'
  <2>1. EnqueueEffect(c, f) /\ c \in online /\ UNCHANGED <<online, hp, work>>
    BY <1>2, EnqueueStep DEF call_rcu, RcuHead, cpus
  <2> QED
    BY <2>1, <1>m DEF EnqueueEffect
<1>3. ASSUME NEW c \in CPU, Advance(c) PROVE GoneInv'
  <2>1. AdvanceEffect(c)
    BY <1>3, AdvanceStep
  <2> QED
    BY <2>1, <1>m DEF AdvanceEffect
<1>4. ASSUME NEW c \in CPU, TakeNext(c) PROVE GoneInv'
  <2>1. TakeNextEffect(c)
    BY <1>4, TakeNextStep
  <2> QED
    BY <2>1, <1>m DEF TakeNextEffect
<1>5. ASSUME NEW c \in CPU, rcu_do_batch(c) PROVE GoneInv'
  <2>1. DoBatchEffect(c)
    BY <1>5, DoBatchStep
  <2> QED
    BY <2>1, <1>m DEF DoBatchEffect
<1>6. ASSUME NEW c \in CPU, rcu_barrier_func(c) PROVE GoneInv'
  <2>1. work.barrier /\ work' = work
    BY <1>6, <1>0 DEF rcu_barrier_func, BarrierOK, cpus
  <2> QED
    BY <2>1 DEF GoneInv
<1>7. CASE OfflineMove
  <2>1. /\ hp.this \in CPU /\ hp.cpu \in CPU \ online /\ hp.this \in online /\ hp.this # hp.cpu
        /\ UNCHANGED <<online, work>>
    BY <1>7, OfflineMoveLists, <1>t
  <2> SUFFICES ASSUME ~work.barrier, NEW c \in CPU \ online
               PROVE  /\ c # hp'.cpu \/ hp'.stage \in {"nxtlist", "donelist"} => curlist'[c] = <<>>
                      /\ c # hp'.cpu \/ hp'.stage = "donelist" => nxtlist'[c] = <<>>
                      /\ c # hp'.cpu => donelist'[c] = <<>>
    BY <2>1 DEF GoneInv
  <2>2. /\ c # hp.cpu \/ hp.stage \in {"nxtlist", "donelist"} => curlist[c] = <<>>
        /\ c # hp.cpu \/ hp.stage = "donelist" => nxtlist[c] = <<>>
        /\ c # hp.cpu => donelist[c] = <<>>
    BY <1>0 DEF GoneInv
  <2> PICK s : s = nxtlist'[hp.this]
    OBVIOUS
  <2>3. \/ /\ hp.stage = "curlist" /\ hp'.stage = "nxtlist" /\ hp'.cpu = hp.cpu
           /\ nxtlist'[c] = nxtlist[c]
           /\ curlist' = [curlist EXCEPT ![hp.cpu] = <<>>] /\ donelist' = donelist
        \/ /\ hp.stage = "nxtlist" /\ hp'.stage = "donelist" /\ hp'.cpu = hp.cpu
           /\ nxtlist'[c] = IF c = hp.cpu THEN <<>> ELSE nxtlist[c]
           /\ curlist' = curlist /\ donelist' = donelist
        \/ /\ hp.stage = "donelist" /\ hp'.stage = "none" /\ hp'.cpu = NoCPU
           /\ nxtlist'[c] = nxtlist[c]
           /\ curlist' = curlist /\ donelist' = [donelist EXCEPT ![hp.cpu] = <<>>]
    <3>1. c # hp.this
      BY <2>1
    <3> QED
      BY <1>7, OfflineMoveLists, <2>1, <3>1, <1>t
  <2> QED
    BY <2>2, <2>3, <2>1, <1>t
<1>8. ASSUME NEW c \in CPU, CpuUp(c) PROVE GoneInv'
  <2>1. \A list \in [CPU -> Seq(RcuHead)] : \A d \in CPU : Cut(list, c)[d] # <<>> => list[d] # <<>>
    BY CutLists
  <2>2. /\ nxtlist' = Cut(nxtlist, c) /\ curlist' = Cut(curlist, c) /\ donelist' = Cut(donelist, c)
        /\ hp' = hp /\ work' = work /\ online' = online \cup {c}
    BY <1>8 DEF CpuUp
  <2> QED
    BY <2>1, <2>2, <1>0, <1>t DEF GoneInv
<1>9. ASSUME NEW c \in CPU, CpuDie(c) PROVE GoneInv'
  <2>1. /\ UNCHANGED <<nxtlist, curlist, donelist, work>> /\ hp.cpu = NoCPU
        /\ online' = online \ {c} /\ hp'.cpu = c /\ hp'.stage = "dying"
    BY <1>9, <1>0 DEF CpuDie, lists, OfflineInv
  <2> QED
    BY <2>1, <1>0, <1>t DEF GoneInv
<1>10. CASE OfflineQuiet
  <2>1. /\ UNCHANGED <<nxtlist, curlist, donelist, work, online>>
        /\ hp'.cpu = hp.cpu /\ hp'.stage = "curlist"
    BY <1>10, <1>t DEF OfflineQuiet, lists
  <2> QED
    BY <2>1, <1>0, <1>t DEF GoneInv
<1> QED
  <2>1. ASSUME NEW c \in CPU, Tasklet(c)
        PROVE  \/ UNCHANGED <<curlist, donelist, nxtlist, online, hp, work>>
               \/ Advance(c) \/ TakeNext(c) \/ rcu_do_batch(c)
    BY <2>1 DEF Tasklet, NumberBatch, ReadPending, SetPending, StartBatch, IncrCur,
       CheckQuiescent, NoteBatch, ReportQuiet, lists, cpus
  <2>2. ASSUME NEW c \in CPU,
               \/ (\E x \in work.reads : rcu_read_lock(c, x))
               \/ (\E x \in work.reads : rcu_read_unlock(c, x)) \/ ContextSwitch(c)
               \/ rcu_check_callbacks(c)
        PROVE  UNCHANGED <<curlist, donelist, nxtlist, online, hp, work>>
    BY <2>2 DEF rcu_read_lock, rcu_read_unlock, ContextSwitch, rcu_check_callbacks, lists, cpus
  <2>3. ASSUME Barrier
        PROVE  \/ UNCHANGED <<curlist, donelist, nxtlist, online, hp, work>>
               \/ \E c \in CPU : rcu_barrier_func(c)
    BY <2>3 DEF Barrier, rcu_barrier, BarrierWait, BarrierReturn, lists, cpus
  <2> QED
    BY <2>1, <2>2, <2>3, <1>1, <1>2, <1>3, <1>4, <1>5, <1>6, <1>7, <1>8, <1>9, <1>10
       DEF Next, Hotplug

\* What rcu_do_batch() invokes.
BatchSize(c) == Min2(blimit[c], Len(donelist[c]))
Batched(c) == ToSet(SubSeq(donelist[c], 1, BatchSize(c)))

\* rcu_do_batch() splits donelist and takes the first part off.
LEMMA DoBatchSplit ==
  ASSUME IInv, NEW c \in CPU, rcu_do_batch(c), Once(donelist[c])
  PROVE  \E b :
           /\ b = Batched(c)
           /\ ToSet(donelist[c]) = b \cup ToSet(donelist'[c]) /\ b \cap ToSet(donelist'[c]) = {}
           /\ Once(donelist'[c])
           /\ invoked' = invoked \cup (b \cap Callback) /\ called' = called
           /\ \A d \in CPU \ {c} : donelist'[d] = donelist[d]
           /\ UNCHANGED <<nxtlist, curlist, work>>
<1>t. /\ donelist \in [CPU -> Seq(RcuHead)] /\ blimit \in [CPU -> {Limit, INT_MAX}]
      /\ Limit \in Nat
  BY RcuAssumption DEF IInv, ControlOK, TypeOK
<1> DEFINE l == donelist[c]
           k == Min2(blimit[c], Len(l))
<1>0. l \in Seq(RcuHead) /\ Len(l) \in Nat
  BY <1>t
<1>1. k \in 0..Len(l)
  BY <1>t, <1>0 DEF Min2, INT_MAX
<1>2. /\ donelist' = [donelist EXCEPT ![c] = SubSeq(l, k + 1, Len(l))]
      /\ invoked' = invoked \cup (ToSet(SubSeq(l, 1, k)) \cap Callback) /\ called' = called
      /\ UNCHANGED <<nxtlist, curlist, work>>
  BY <1>t DEF rcu_do_batch, cpus
<1>p. PICK n \in 0..Len(l) : n = k
  BY <1>1
<1>q. PICK b, r : b = SubSeq(l, 1, n) /\ r = SubSeq(l, n + 1, Len(l))
  OBVIOUS
<1>3. donelist' = [donelist EXCEPT ![c] = r] /\ invoked' = invoked \cup (ToSet(b) \cap Callback)
  BY <1>2, <1>p, <1>q
<1>4. Once(r) /\ ToSet(b) \cap ToSet(r) = {} /\ ToSet(l) = ToSet(b) \cup ToSet(r)
  <2> HIDE DEF l, k
  <2>1. Once(l)
    BY DEF l
  <2> QED
    BY <2>1, <1>0, <1>q, OnceSplit DEF Apart
<1>5. /\ donelist'[c] = r /\ \A d \in CPU \ {c} : donelist'[d] = donelist[d]
  BY <1>3, <1>t
<1>6. ToSet(b) = Batched(c)
  BY <1>p, <1>q DEF Batched, BatchSize
<1> HIDE DEF k
<1> QED
  BY <1>2, <1>3, <1>4, <1>5, <1>6

\* The workload of a run never changes.
LEMMA WorkFixed ==
  ASSUME Next
  PROVE  work' = work
<1>1. ASSUME NEW c \in CPU, Tasklet(c) PROVE work' = work
  <2>1. CASE Advance(c) \/ TakeNext(c) \/ NumberBatch(c) \/ ReadPending(c)
    BY <2>1 DEF Advance, TakeNext, NumberBatch, ReadPending, cpus
  <2>2. CASE SetPending(c) \/ StartBatch(c) \/ IncrCur(c) \/ CheckQuiescent(c)
    BY <2>2 DEF SetPending, StartBatch, IncrCur, CheckQuiescent, cpus
  <2>3. CASE NoteBatch(c) \/ ReportQuiet(c) \/ rcu_do_batch(c)
    BY <2>3 DEF NoteBatch, ReportQuiet, rcu_do_batch, cpus
  <2> QED
    BY <1>1, <2>1, <2>2, <2>3 DEF Tasklet
<1>2. CASE Barrier
  BY <1>2 DEF Barrier, BarrierReturn, rcu_barrier, rcu_barrier_func, BarrierWait, cpus
<1>3. CASE Hotplug
  BY <1>3 DEF Hotplug, OfflineQuiet, OfflineMove, CpuDie, CpuUp, cpus
<1>4. ASSUME NEW c \in CPU, ContextSwitch(c) \/ rcu_check_callbacks(c) PROVE work' = work
  BY <1>4 DEF ContextSwitch, rcu_check_callbacks, cpus
<1>5. ASSUME NEW c \in CPU, NEW x \in work.reads, rcu_read_lock(c, x) \/ rcu_read_unlock(c, x)
      PROVE  work' = work
  BY <1>5 DEF rcu_read_lock, rcu_read_unlock, cpus
<1>6. ASSUME NEW c \in CPU, NEW f \in Callback, call_rcu(c, f) PROVE work' = work
  BY <1>6 DEF call_rcu, cpus
<1> QED
  BY <1>1, <1>2, <1>3, <1>4, <1>5, <1>6 DEF Next

\* No callback is lost or doubled.
LEMMA OnceStep ==
  ASSUME IInv, Next
  PROVE  OnceInv'
<1>0. OnceInv /\ HeadInv /\ BarHeadInv /\ BarrierOK /\ GoneInv /\ OfflineInv
  BY DEF IInv
<1>t. /\ nxtlist \in [CPU -> Seq(RcuHead)] /\ curlist \in [CPU -> Seq(RcuHead)]
      /\ donelist \in [CPU -> Seq(RcuHead)] /\ Callback \cap CPU = {} /\ online \subseteq CPU
      /\ invoked \subseteq called /\ called \subseteq Callback
      /\ work.downs \in Nat /\ NoCPU \notin CPU
  BY RcuAssumption DEF IInv, ControlOK, TypeOK
<1>w. work' = work
  BY WorkFixed
<1> SUFFICES ASSUME Calm PROVE OnceInv'
  BY <1>w DEF OnceInv, Calm
<1>i. /\ \A c \in CPU : OnceOn(c)
      /\ \A c, d \in CPU : c # d => Heads(c) \cap Heads(d) = {}
      /\ \A f \in Callback : f \in called \ invoked <=> \E c \in CPU : f \in Heads(c)
  BY <1>0 DEF OnceInv
\* Nothing that the invariant is about changes.
<1>1. CASE UNCHANGED <<called, invoked, curlist, donelist, nxtlist>>
  BY <1>1, <1>i DEF OnceInv, OnceOn, Heads
\* Heads move between the lists of a CPU.
<1>m. ASSUME NEW c \in CPU, UNCHANGED <<called, invoked>>, OnceOn(c)', Heads(c)' = Heads(c),
             \A d \in CPU \ {c} : /\ nxtlist'[d] = nxtlist[d] /\ curlist'[d] = curlist[d]
                                  /\ donelist'[d] = donelist[d]
      PROVE  OnceInv'
  <2>1. \A d \in CPU \ {c} : OnceOn(d)'
    BY <1>m, <1>i DEF OnceOn
  <2>2. \A d \in CPU : Heads(d)' = Heads(d)
    BY <1>m DEF Heads
  <2> QED
    BY <2>1, <2>2, <1>i, <1>m DEF OnceInv
\* A head h that is on no list is queued on c.
<1>e. ASSUME NEW c \in CPU, NEW h \in RcuHead, Enqueue(c, h), \A d \in CPU : h \notin Heads(d)
      PROVE  /\ \A d \in CPU : OnceOn(d)'
             /\ \A d, e \in CPU : d # e => Heads(d)' \cap Heads(e)' = {}
             /\ Heads(c)' = Heads(c) \cup {h} /\ \A d \in CPU \ {c} : Heads(d)' = Heads(d)
  <2>1. EnqueueEffect(c, h)
    BY <1>e, EnqueueStep
  <2>2. nxtlist'[c] = Append(nxtlist[c], h)
    BY <1>e, <1>t DEF Enqueue
  <2>3. h \notin ToSet(nxtlist[c]) /\ h \notin ToSet(curlist[c]) /\ h \notin ToSet(donelist[c])
    BY <1>e DEF Heads
  <2>4. Once(nxtlist'[c])
    BY <2>2, <2>3, <1>i, <1>t, OnceAppend DEF OnceOn
  <2> HIDE <2>2
  <2>5. OnceOn(c)'
    BY <2>1, <2>3, <2>4, <1>i DEF OnceOn, Apart, EnqueueEffect
  <2>6. \A d \in CPU \ {c} : OnceOn(d)'
    BY <2>1, <1>i DEF OnceOn, EnqueueEffect
  <2>7. Heads(c)' = Heads(c) \cup {h} /\ \A d \in CPU \ {c} : Heads(d)' = Heads(d)
    BY <2>1 DEF Heads, EnqueueEffect
  <2>8. \A d, e \in CPU : d # e => Heads(d)' \cap Heads(e)' = {}
    BY <2>7, <1>i, <1>e
  <2> QED
    BY <2>5, <2>6, <2>7, <2>8
<1>2. ASSUME NEW c \in CPU, NEW f \in Callback, call_rcu(c, f) PROVE OnceInv'
  <2>1. f \notin called /\ called' = called \cup {f} /\ invoked' = invoked /\ Enqueue(c, f)
    BY <1>2 DEF call_rcu
  <2>2. \A d \in CPU : f \notin Heads(d)
    BY <2>1, <1>0, <1>t DEF HeadInv, Heads
  <2>3. /\ \A d \in CPU : OnceOn(d)'
        /\ \A d, e \in CPU : d # e => Heads(d)' \cap Heads(e)' = {}
        /\ Heads(c)' = Heads(c) \cup {f} /\ \A d \in CPU \ {c} : Heads(d)' = Heads(d)
    BY <2>1, <2>2, <1>e DEF RcuHead
  <2>4. \A g \in Callback : g \in called' \ invoked' <=> \E d \in CPU : g \in Heads(d)'
    <3> TAKE g \in Callback
    <3>1. CASE g = f
      BY <3>1, <2>1, <2>3, <1>t
    <3>2. CASE g # f
      <4>1. \A d \in CPU : g \in Heads(d)' <=> g \in Heads(d)
        BY <3>2, <2>3
      <4>2. g \in called' \ invoked' <=> g \in called \ invoked
        BY <3>2, <2>1
      <4> QED
        BY <4>1, <4>2, <1>i
    <3> QED
      BY <3>1, <3>2
  <2> QED
    BY <2>3, <2>4 DEF OnceInv
<1>3. ASSUME NEW c \in CPU, Advance(c) PROVE OnceInv'
  <2>1. AdvanceEffect(c)
    BY <1>3, AdvanceStep
  <2>2. /\ ToSet(donelist[c] \o curlist[c]) = ToSet(donelist[c]) \cup ToSet(curlist[c])
        /\ Once(donelist[c] \o curlist[c])
    BY <1>t, <1>i, ToSetConcat, OnceConcat DEF OnceOn, Apart
  <2>3. OnceOn(c)'
    BY <2>1, <2>2, <1>i, OnceEmpty, ToSetEmpty DEF AdvanceEffect, OnceOn, Apart
  <2>4. Heads(c)' = Heads(c)
    BY <2>1, <2>2, ToSetEmpty DEF AdvanceEffect, Heads
  <2> QED
    BY <2>1, <2>3, <2>4, <1>m DEF AdvanceEffect
<1>4. ASSUME NEW c \in CPU, TakeNext(c) PROVE OnceInv'
  <2>1. TakeNextEffect(c)
    BY <1>4, TakeNextStep
  <2>3. OnceOn(c)'
    BY <2>1, <1>i, OnceEmpty DEF TakeNextEffect, OnceOn, Apart
  <2>4. Heads(c)' = Heads(c)
    BY <2>1, ToSetEmpty DEF TakeNextEffect, Heads
  <2> QED
    BY <2>1, <2>3, <2>4, <1>m DEF TakeNextEffect
<1>5. ASSUME NEW c \in CPU, rcu_do_batch(c) PROVE OnceInv'
  <2>1. PICK b :
           /\ ToSet(donelist[c]) = b \cup ToSet(donelist'[c]) /\ b \cap ToSet(donelist'[c]) = {}
           /\ Once(donelist'[c])
           /\ invoked' = invoked \cup (b \cap Callback) /\ called' = called
           /\ \A d \in CPU \ {c} : donelist'[d] = donelist[d]
           /\ UNCHANGED <<nxtlist, curlist, work>>
    BY <1>5, <1>i, DoBatchSplit DEF OnceOn
  <2>2. OnceOn(c)'
    BY <2>1, <1>i DEF OnceOn, Apart
  <2>3. \A d \in CPU \ {c} : OnceOn(d)'
    BY <2>1, <1>i DEF OnceOn
  <2>4. /\ Heads(c) = Heads(c)' \cup b /\ Heads(c)' \cap b = {}
        /\ \A d \in CPU \ {c} : Heads(d)' = Heads(d)
    <3>1. b \cap ToSet(nxtlist[c]) = {} /\ b \cap ToSet(curlist[c]) = {}
      BY <2>1, <1>i DEF OnceOn, Apart
    <3> QED
      BY <2>1, <3>1 DEF Heads
  <2>5. \A d, e \in CPU : d # e => Heads(d)' \cap Heads(e)' = {}
    BY <2>4, <1>i
  <2>6. \A f \in Callback : f \in called' \ invoked' <=> \E d \in CPU : f \in Heads(d)'
    <3> TAKE f \in Callback
    <3>1. CASE f \in b
      <4>1. f \in invoked' /\ f \in Heads(c) /\ f \notin Heads(c)'
        BY <3>1, <2>1, <2>4
      <4>2. \A d \in CPU \ {c} : f \notin Heads(d)'
        BY <4>1, <2>4, <1>i
      <4> QED
        BY <4>1, <4>2
    <3>2. CASE f \notin b
      <4>1. f \in called' \ invoked' <=> f \in called \ invoked
        BY <3>2, <2>1
      <4>2. \A d \in CPU : f \in Heads(d)' <=> f \in Heads(d)
        BY <3>2, <2>4
      <4> QED
        BY <4>1, <4>2, <1>i
    <3> QED
      BY <3>1, <3>2
  <2> QED
    BY <2>2, <2>3, <2>5, <2>6 DEF OnceInv
<1>6. ASSUME NEW c \in CPU, rcu_barrier_func(c) PROVE OnceInv'
  <2>1. c \in bar.todo /\ called' = called /\ invoked' = invoked /\ Enqueue(c, c)
    BY <1>6 DEF rcu_barrier_func, ghost
  <2>2. \A d \in CPU : c \notin Heads(d)
    BY <2>1, <1>0 DEF BarHeadInv
  <2>3. /\ \A d \in CPU : OnceOn(d)'
        /\ \A d, e \in CPU : d # e => Heads(d)' \cap Heads(e)' = {}
        /\ Heads(c)' = Heads(c) \cup {c} /\ \A d \in CPU \ {c} : Heads(d)' = Heads(d)
    BY <2>1, <2>2, <1>e DEF RcuHead
  <2>4. \A g \in Callback : g \in called' \ invoked' <=> \E d \in CPU : g \in Heads(d)'
    <3> TAKE g \in Callback
    <3>1. g # c
      BY <1>t
    <3>2. g \in Heads(c)' <=> g \in Heads(c)
      BY <2>3, <3>1
    <3>3. \A d \in CPU : g \in Heads(d)' <=> g \in Heads(d)
      <4> TAKE d \in CPU
      <4>1. CASE d = c
        BY <4>1, <3>2
      <4>2. CASE d # c
        BY <4>2, <2>3
      <4> QED
        BY <4>1, <4>2
    <3> QED
      BY <3>3, <2>1, <1>i
  <2> QED
    BY <2>3, <2>4 DEF OnceInv
<1>7. CASE OfflineMove
  <2>0. PICK p, t : p = hp.cpu /\ t = hp.this
    OBVIOUS
  <2>1. p \in CPU /\ t \in CPU /\ p # t /\ UNCHANGED <<called, invoked>>
    BY <2>0, <1>7, <1>t, OfflineMoveLists
  <2>2. ASSUME NEW list, list \in {nxtlist, curlist, donelist}
        PROVE  /\ ToSet(nxtlist[t] \o list[p]) = ToSet(nxtlist[t]) \cup ToSet(list[p])
               /\ Once(nxtlist[t] \o list[p])
    <3>1. nxtlist[t] \in Seq(RcuHead) /\ list[p] \in Seq(RcuHead)
      BY <2>1, <2>2, <1>t
    <3>2. Once(nxtlist[t]) /\ Once(list[p])
      BY <2>1, <2>2, <1>i DEF OnceOn
    <3>3. Apart(nxtlist[t], list[p])
      <4>1. ToSet(nxtlist[t]) \subseteq Heads(t) /\ ToSet(list[p]) \subseteq Heads(p)
        BY <2>2 DEF Heads
      <4>2. Heads(t) \cap Heads(p) = {}
        BY <2>1, <1>i
      <4> QED
        BY <4>1, <4>2 DEF Apart
    <3> QED
      BY <3>1, <3>2, <3>3, ToSetConcat, OnceConcat
  <2>3. PICK m, s :
          /\ s = nxtlist'[t] /\ ToSet(s) = ToSet(nxtlist[t]) \cup m /\ Once(s)
          /\ curlist'[t] = curlist[t] /\ donelist'[t] = donelist[t]
          /\ \/ /\ m = ToSet(curlist[p]) /\ curlist'[p] = <<>>
                /\ nxtlist'[p] = nxtlist[p] /\ donelist'[p] = donelist[p]
             \/ /\ m = ToSet(nxtlist[p]) /\ nxtlist'[p] = <<>>
                /\ curlist'[p] = curlist[p] /\ donelist'[p] = donelist[p]
             \/ /\ m = ToSet(donelist[p]) /\ donelist'[p] = <<>>
                /\ nxtlist'[p] = nxtlist[p] /\ curlist'[p] = curlist[p]
          /\ \A d \in CPU \ {p, t} : /\ nxtlist'[d] = nxtlist[d] /\ curlist'[d] = curlist[d]
                                     /\ donelist'[d] = donelist[d]
    <3>1. CASE hp.stage = "curlist"
      <4>1. PICK s : s = nxtlist[t] \o curlist[p]
        OBVIOUS
      <4>2. /\ nxtlist' = [nxtlist EXCEPT ![t] = s]
            /\ curlist' = [curlist EXCEPT ![p] = <<>>] /\ donelist' = donelist
        BY <4>1, <3>1, <2>0, <1>7, <1>t, <2>1, OfflineMoveLists
      <4>3. ToSet(s) = ToSet(nxtlist[t]) \cup ToSet(curlist[p]) /\ Once(s)
        BY <4>1, <2>2
      <4> QED
        BY <4>2, <4>3, <2>1, <1>t
    <3>2. CASE hp.stage = "nxtlist"
      <4>1. PICK s : s = nxtlist[t] \o nxtlist[p]
        OBVIOUS
      <4>2. /\ nxtlist' = [nxtlist EXCEPT ![t] = s, ![p] = <<>>]
            /\ curlist' = curlist /\ donelist' = donelist
        BY <4>1, <3>2, <2>0, <1>7, <1>t, <2>1, OfflineMoveLists
      <4>3. ToSet(s) = ToSet(nxtlist[t]) \cup ToSet(nxtlist[p]) /\ Once(s)
        BY <4>1, <2>2
      <4> QED
        BY <4>2, <4>3, <2>1, <1>t
    <3>3. CASE hp.stage = "donelist"
      <4>1. PICK s : s = nxtlist[t] \o donelist[p]
        OBVIOUS
      <4>2. /\ nxtlist' = [nxtlist EXCEPT ![t] = s]
            /\ curlist' = curlist /\ donelist' = [donelist EXCEPT ![p] = <<>>]
        BY <4>1, <3>3, <2>0, <1>7, <1>t, <2>1, OfflineMoveLists
      <4>3. ToSet(s) = ToSet(nxtlist[t]) \cup ToSet(donelist[p]) /\ Once(s)
        BY <4>1, <2>2
      <4> QED
        BY <4>2, <4>3, <2>1, <1>t
    <3> QED
      BY <3>1, <3>2, <3>3, <1>7 DEF OfflineMove
  <2>4. /\ Heads(t)' = Heads(t) \cup m /\ m \subseteq Heads(p) /\ Heads(p)' \cap m = {}
        /\ Heads(p) = Heads(p)' \cup m /\ \A d \in CPU \ {p, t} : Heads(d)' = Heads(d)
    BY <2>3, <2>1, <1>i, ToSetEmpty DEF Heads, OnceOn, Apart
  <2>5. OnceOn(t)'
    <3>1. m \cap ToSet(curlist[t]) = {} /\ m \cap ToSet(donelist[t]) = {}
      <4>1. Heads(t) \cap Heads(p) = {}
        BY <2>1, <1>i
      <4>2. ToSet(curlist[t]) \subseteq Heads(t) /\ ToSet(donelist[t]) \subseteq Heads(t)
        BY DEF Heads
      <4> QED
        BY <4>1, <4>2, <2>4
    <3> QED
      BY <3>1, <2>3, <2>1, <1>i DEF OnceOn, Apart
  <2>6. OnceOn(p)'
    BY <2>3, <2>1, <1>i, OnceEmpty, ToSetEmpty DEF OnceOn, Apart
  <2>7. \A d \in CPU \ {p, t} : OnceOn(d)'
    BY <2>3, <1>i DEF OnceOn
  <2>8. \A d, e \in CPU : d # e => Heads(d)' \cap Heads(e)' = {}
    <3> SUFFICES ASSUME NEW d \in CPU, NEW e \in CPU, d # e, NEW h \in Heads(d)', h \in Heads(e)'
                 PROVE  FALSE
      OBVIOUS
    <3>1. Heads(d) \cap Heads(p) = {} \/ d = p
      BY <1>i, <2>1
    <3>2. Heads(e) \cap Heads(p) = {} \/ e = p
      BY <1>i, <2>1
    <3>3. Heads(d) \cap Heads(e) = {} /\ Heads(t) \cap Heads(p) = {}
      BY <1>i, <2>1
    <3> QED
      BY <3>1, <3>2, <3>3, <2>4
  <2>9. \A f : (\E d \in CPU : f \in Heads(d)') <=> (\E d \in CPU : f \in Heads(d))
    BY <2>4, <2>1
  <2> QED
    BY <2>1, <2>5, <2>6, <2>7, <2>8, <2>9, <1>i DEF OnceInv
<1>8. ASSUME NEW c \in CPU, CpuUp(c) PROVE OnceInv'
  <2>1. /\ nxtlist' = Cut(nxtlist, c) /\ curlist' = Cut(curlist, c) /\ donelist' = Cut(donelist, c)
        /\ hp.stage = "none" /\ c \notin online /\ UNCHANGED <<called, invoked>>
    BY <1>8 DEF CpuUp, ghost
  <2>2. work.downs # 0 /\ hp.cpu = NoCPU
    BY <2>1, <1>0 DEF OfflineInv
  <2>3. ~work.barrier
    BY <2>2 DEF Calm
  <2>4. nxtlist[c] = <<>> /\ curlist[c] = <<>> /\ donelist[c] = <<>>
    BY <2>1, <2>2, <2>3, <1>0, <1>t DEF GoneInv
  <2>5. \A d \in CPU : c \notin Heads(d)
    BY <2>3, <1>0 DEF BarrierOK, BarHeadInv
  <2>6. \A d \in CPU : c \notin ToSet(nxtlist[d]) /\ c \notin ToSet(curlist[d]) /\ c \notin ToSet(donelist[d])
    BY <2>5 DEF Heads
  <2>7. UNCHANGED <<nxtlist, curlist, donelist>>
    BY <2>1, <2>4, <2>6, <1>t, CutNothing
  <2> QED
    BY <2>1, <2>7, <1>1
<1> QED
  <2>1. ASSUME NEW c \in CPU, Tasklet(c)
        PROVE  \/ UNCHANGED <<called, invoked, curlist, donelist, nxtlist>>
               \/ Advance(c) \/ TakeNext(c) \/ rcu_do_batch(c)
    BY <2>1 DEF Tasklet, NumberBatch, ReadPending, SetPending, StartBatch, IncrCur,
       CheckQuiescent, NoteBatch, ReportQuiet, lists, ghost
  <2>2. ASSUME NEW c \in CPU,
               \/ (\E x \in work.reads : rcu_read_lock(c, x))
               \/ (\E x \in work.reads : rcu_read_unlock(c, x)) \/ ContextSwitch(c)
               \/ rcu_check_callbacks(c)
        PROVE  UNCHANGED <<called, invoked, curlist, donelist, nxtlist>>
    BY <2>2 DEF rcu_read_lock, rcu_read_unlock, ContextSwitch, rcu_check_callbacks, lists, ghost
  <2>3. ASSUME Barrier \/ Hotplug
        PROVE  \/ UNCHANGED <<called, invoked, curlist, donelist, nxtlist>>
               \/ \E c \in CPU : rcu_barrier_func(c) \/ CpuUp(c)
               \/ OfflineMove
    BY <2>3 DEF Barrier, Hotplug, rcu_barrier, BarrierWait, BarrierReturn, CpuDie, OfflineQuiet,
       lists, ghost
  <2> QED
    BY <2>1, <2>2, <2>3, <1>1, <1>2, <1>3, <1>4, <1>5, <1>6, <1>7, <1>8 DEF Next

\* Without hotplug only these steps happen, on CPUs that are all online.
LEMMA NoHotplug ==
  ASSUME IInv, work.downs = 0
  PROVE  ~Hotplug /\ online = CPU
<1>1. OfflineInv /\ downs \in Nat
  BY DEF IInv, ControlOK
<1> QED
  BY <1>1 DEF OfflineInv, Hotplug, CpuDie, CpuUp, OfflineQuiet, OfflineMove

\* While rcu_barrier_func() runs everywhere, the grace periods of the heads it
\* has queued do not end.
LEMMA PinStep ==
  ASSUME IInv, Next
  PROVE  PinInv'
<1>0. PinInv /\ BarHeadInv /\ BarrierOK /\ BatchInv /\ QuietInv /\ LockInv
  BY DEF IInv
<1>t. /\ pc \in [CPU -> TaskletPc] /\ ret \in [CPU -> {"check", "invoke", "idle"}]
      /\ cur \in Int /\ completed \in Int /\ cpumask \subseteq CPU
      /\ quiescbatch \in [CPU -> Int] /\ passed_quiesc \in [CPU -> BOOLEAN]
      /\ batch \in [CPU -> Int] /\ online \subseteq CPU /\ active \in [CPU -> SUBSET Context]
      /\ Callback \cap CPU = {}
      /\ nxtlist \in [CPU -> Seq(RcuHead)] /\ curlist \in [CPU -> Seq(RcuHead)]
      /\ donelist \in [CPU -> Seq(RcuHead)]
  BY RcuAssumption DEF IInv, ControlOK, TypeOK
<1>w. work' = work
  BY WorkFixed
<1> SUFFICES ASSUME work.downs = 0, bar'.stage = "ipi" PROVE PinInv'
  BY <1>w DEF PinInv
<1>n. ~Hotplug /\ online = CPU
  BY NoHotplug
\* The caller turns preemption off before anything is queued.
<1>b. ASSUME NEW c \in CPU, rcu_barrier(c) PROVE PinInv'
  <2>1. /\ bar.stage = "off" /\ bar'.cpu = c /\ active'[c] = {"task"}
        /\ UNCHANGED <<nxtlist, curlist, donelist>>
    BY <1>b, <1>t DEF rcu_barrier, PreemptOff, lists
  <2>2. \A d \in CPU : Heads(d) \cap CPU = {}
    BY <2>1, <1>0 DEF BarHeadInv
  <2>3. \A d \in CPU : ToSet(donelist[d]) \cap CPU = {} /\ ToSet(curlist[d]) \cap CPU = {}
    BY <2>2 DEF Heads
  <2> QED
    BY <2>1, <2>3 DEF PinInv
<1> SUFFICES ASSUME ~(\E c \in CPU : rcu_barrier(c)) PROVE PinInv'
  BY <1>b
<1>s. bar.stage = "ipi" /\ bar'.cpu = bar.cpu
  <2>1. CASE UNCHANGED bar
    BY <2>1
  <2>2. CASE BarrierReturn \/ \E c \in CPU : BarrierWait(c)
    BY <2>2, <1>0 DEF BarrierReturn, BarrierWait, BarrierOK
  <2>3. CASE \E c \in CPU : rcu_barrier_func(c) \/ rcu_do_batch(c)
    BY <2>3, <1>0 DEF rcu_barrier_func, rcu_do_batch, BarrierOK
  <2> QED
    BY <2>1, <2>2, <2>3, <1>n DEF Next, Tasklet, Barrier, rcu_read_lock, rcu_read_unlock,
       call_rcu, ContextSwitch, rcu_check_callbacks, Advance, TakeNext, NumberBatch, ReadPending,
       SetPending, StartBatch, IncrCur, CheckQuiescent, NoteBatch, ReportQuiet, barrier
<1>p. PICK p \in CPU : p = bar.cpu /\ "task" \in active[p]
  BY <1>s, <1>0 DEF PinInv
<1>i. \A d \in CPU : /\ ToSet(donelist[d]) \cap CPU = {}
                     /\ pc[d] # "number" /\ ToSet(curlist[d]) \cap CPU # {} => Outlives(batch[d], p)
  BY <1>s, <1>p, <1>0 DEF PinInv
<1>a. "task" \in active'[p]
  <2>1. ASSUME NEW c \in CPU, NEW x \in work.reads, rcu_read_unlock(c, x) PROVE "task" \in active'[p]
    <3>1. ~(x = "task" /\ c = p) /\ active' = [active EXCEPT ![c] = @ \ {x}]
      BY <2>1, <1>s, <1>p DEF rcu_read_unlock, Pinned, Finish
    <3> QED
      BY <3>1, <1>p, <1>t
  <2>2. ASSUME NEW c \in CPU, NEW x \in work.reads, rcu_read_lock(c, x) PROVE "task" \in active'[p]
    BY <2>2, <1>p, <1>t DEF rcu_read_lock
  <2>3. ASSUME NEW c \in CPU, BarrierWait(c) PROVE "task" \in active'[p]
    BY <2>3, <1>0 DEF BarrierWait, BarrierOK
  <2>4. CASE UNCHANGED active
    BY <2>4, <1>p
  <2> QED
    BY <2>1, <2>2, <2>3, <2>4, <1>n DEF Next, Tasklet, Barrier, call_rcu, ContextSwitch,
       rcu_check_callbacks, Advance, TakeNext, NumberBatch, ReadPending, SetPending, StartBatch,
       IncrCur, CheckQuiescent, NoteBatch, ReportQuiet, rcu_do_batch, BarrierReturn,
       rcu_barrier_func
<1> DEFINE Kept == \A d \in CPU :
                     /\ ToSet(donelist'[d]) \cap CPU = {}
                     /\ pc'[d] # "number" /\ ToSet(curlist'[d]) \cap CPU # {} =>
                          OutlivesNext(batch'[d], p)
<1> SUFFICES Kept
  BY <1>a, <1>p, <1>s DEF PinInv, Outlives, OutlivesNext
\* The lists stay, and so do the grace period and the CPUs that it waits for.
<1>1. CASE UNCHANGED <<batch, completed, cpumask, cur, curlist, donelist, passed_quiesc, pc, quiescbatch>>
  BY <1>1, <1>i DEF Outlives, OutlivesNext
<1>4. ASSUME NEW c \in CPU, ContextSwitch(c) \/ rcu_check_callbacks(c) PROVE Kept
  <2>1. /\ UNCHANGED <<batch, completed, cpumask, cur, curlist, donelist, pc, quiescbatch>>
        /\ passed_quiesc'[p] = passed_quiesc[p]
    BY <1>4, <1>t, <1>p DEF ContextSwitch, rcu_check_callbacks, rcp, lists
  <2> QED
    BY <2>1, <1>i DEF Outlives, OutlivesNext
<1>6. ASSUME NEW c \in CPU, Advance(c) PROVE Kept
  <2>1. AdvanceEffect(c)
    BY <1>6, AdvanceStep
  <2>2. ToSet(donelist[c] \o curlist[c]) = ToSet(donelist[c]) \cup ToSet(curlist[c])
    BY <1>t, ToSetConcat
  <2>3. pc[c] # "number" /\ UNCHANGED <<batch, cur, completed, cpumask, quiescbatch, passed_quiesc>>
    BY <2>1 DEF AdvanceEffect
  <2>4. curlist'[c] # curlist[c] => ToSet(curlist[c]) \cap CPU = {}
    <3>1. curlist'[c] # curlist[c] => batch[c] <= completed
      BY <2>1 DEF AdvanceEffect
    <3>2. ToSet(curlist[c]) \cap CPU # {} => completed < batch[c]
      BY <2>3, <1>i DEF Outlives
    <3>3. batch[c] \in Int /\ completed \in Int
      BY <1>t
    <3> QED
      BY <3>1, <3>2, <3>3
  <2>5. ToSet(donelist'[c]) \cap CPU = {} /\ (ToSet(curlist'[c]) \cap CPU # {} => ToSet(curlist[c]) \cap CPU # {})
    BY <2>1, <2>2, <2>4, <1>i, ToSetEmpty DEF AdvanceEffect
  <2> QED
    BY <2>1, <2>3, <2>5, <1>i DEF AdvanceEffect, Outlives, OutlivesNext
<1>7. ASSUME NEW c \in CPU, TakeNext(c) PROVE Kept
  <2>1. TakeNextEffect(c)
    BY <1>7, TakeNextStep
  <2> QED
    BY <2>1, <1>i DEF TakeNextEffect, Outlives, OutlivesNext
<1>8. ASSUME NEW c \in CPU, NumberBatch(c) PROVE Kept
  <2>1. NumberBatchEffect(c) /\ donelist' = donelist
    BY <1>8, NumberBatchStep DEF NumberBatch
  <2>2. OutlivesNext(batch'[c], p)
    BY <2>1, <1>0, <1>t DEF NumberBatchEffect, OutlivesNext, BatchInv
  <2>3. ASSUME NEW d \in CPU \ {c}, pc'[d] # "number", ToSet(curlist'[d]) \cap CPU # {}
        PROVE  OutlivesNext(batch'[d], p)
    BY <2>1, <2>3, <1>i DEF NumberBatchEffect, Outlives, OutlivesNext
  <2> QED
    BY <2>1, <2>2, <2>3, <1>i
\* Only pc changes, to another place than "number".
<1>9. ASSUME NEW c \in CPU, ReadPending(c) \/ SetPending(c) \/ StartBatch(c) PROVE Kept
  <2>1. /\ UNCHANGED <<batch, completed, cpumask, cur, curlist, donelist, passed_quiesc, quiescbatch>>
        /\ pc[c] # "number" /\ \A d \in CPU \ {c} : pc'[d] = pc[d]
    BY <1>9, <1>t DEF ReadPending, SetPending, StartBatch, At, Goto, rcp, qs, lists
  <2> QED
    BY <2>1, <1>i DEF Outlives, OutlivesNext
<1>12. ASSUME NEW c \in CPU, IncrCur(c) PROVE Kept
  <2>1. IncrCurEffect(c) /\ donelist' = donelist
    BY <1>12, IncrCurStep DEF IncrCur, lists
  <2>2. ASSUME NEW d \in CPU, pc'[d] # "number", ToSet(curlist'[d]) \cap CPU # {}
        PROVE  OutlivesNext(batch'[d], p)
    <3>1. Outlives(batch[d], p) /\ batch'[d] = batch[d] /\ batch[d] \in Int
      BY <2>1, <2>2, <1>i, <1>t DEF IncrCurEffect
    <3>2. cur' = cur + 1 /\ completed' = completed /\ completed = cur /\ p \in cpumask'
          /\ quiescbatch' = quiescbatch /\ quiescbatch[p] \in Int /\ quiescbatch[p] <= cur
      BY <2>1, <1>n, <1>0, <1>t DEF IncrCurEffect, BatchInv
    <3>3. completed < batch[d]
      BY <3>1 DEF Outlives
    <3>t. cur \in Int
      BY <1>t
    <3>4. completed' < batch'[d] /\ cur' <= batch'[d]
      BY <3>1, <3>2, <3>3, <3>t
    <3>5. quiescbatch'[p] # cur'
      BY <3>2, <3>t
    <3> QED
      BY <3>2, <3>4, <3>5 DEF OutlivesNext
  <2> QED
    BY <2>1, <2>2, <1>i
<1>13. ASSUME NEW c \in CPU, CheckQuiescent(c) PROVE Kept
  <2>1. CheckQuiescentEffect(c) /\ donelist' = donelist
    BY <1>13, CheckQuiescentStep DEF CheckQuiescent, lists
  <2> QED
    BY <2>1, <1>i, <1>0, <1>t DEF CheckQuiescentEffect, Outlives, OutlivesNext
<1>14. ASSUME NEW c \in CPU, NoteBatch(c) PROVE Kept
  <2>1. NoteBatchEffect(c) /\ donelist' = donelist
    BY <1>14, NoteBatchStep DEF NoteBatch, lists
  <2> QED
    BY <2>1, <1>i, <1>0, <1>t DEF NoteBatchEffect, Outlives, OutlivesNext, QuietInv
<1>15. ASSUME NEW c \in CPU, ReportQuiet(c) PROVE Kept
  <2>1. ReportQuietEffect(c) /\ donelist' = donelist
    BY <1>15, ReportQuietStep DEF ReportQuiet, lists
  <2>2. ASSUME NEW d \in CPU, pc'[d] # "number", ToSet(curlist'[d]) \cap CPU # {}
        PROVE  OutlivesNext(batch'[d], p)
    <3>1. Outlives(batch[d], p) /\ batch'[d] = batch[d] /\ batch[d] \in Int
      BY <2>1, <2>2, <1>i, <1>t DEF ReportQuietEffect
    <3>2. CASE batch[d] = cur
      <4>1. p \in cpumask /\ ~(quiescbatch[p] = cur /\ passed_quiesc[p])
        BY <3>1, <3>2 DEF Outlives
      <4>2. quiescbatch[c] = cur => c # p
        BY <4>1, <2>1, <1>0 DEF ReportQuietEffect, QuietInv
      <4>3. completed' = completed /\ p \in cpumask'
        BY <4>1, <4>2, <2>1 DEF ReportQuietEffect
      <4> QED
        BY <4>1, <4>3, <3>1, <2>1 DEF ReportQuietEffect, Outlives, OutlivesNext
    <3>3. CASE batch[d] # cur
      <4>1. cur < batch[d] /\ completed < batch[d]
        BY <3>1, <3>3, <1>t DEF Outlives
      <4>2. cur' = cur /\ (completed' = completed \/ completed' = cur)
        BY <2>1 DEF ReportQuietEffect
      <4>t. cur \in Int /\ completed \in Int
        BY <1>t
      <4>3. completed' < batch'[d] /\ cur' <= batch'[d] /\ cur' # batch'[d]
        BY <4>1, <4>2, <4>t, <3>1
      <4> QED
        BY <4>3 DEF OutlivesNext
    <3> QED
      BY <3>2, <3>3
  <2> QED
    BY <2>1, <2>2, <1>i
<1>16. ASSUME NEW c \in CPU, rcu_do_batch(c) PROVE Kept
  <2>1. DoBatchEffect(c)
    BY <1>16, DoBatchStep
  <2> QED
    BY <2>1, <1>i DEF DoBatchEffect, Outlives, OutlivesNext
<1> QED
  <2>1. ASSUME NEW c \in CPU,
               \/ (\E x \in work.reads : rcu_read_lock(c, x) \/ rcu_read_unlock(c, x))
               \/ (\E f \in Callback : call_rcu(c, f))
        PROVE  UNCHANGED <<batch, completed, cpumask, cur, curlist, donelist, passed_quiesc, pc, quiescbatch>>
    BY <2>1 DEF rcu_read_lock, rcu_read_unlock, call_rcu, Enqueue, rcp, qs, lists
  <2>2. ASSUME Barrier
        PROVE  UNCHANGED <<batch, completed, cpumask, cur, curlist, donelist, passed_quiesc, pc, quiescbatch>>
    BY <2>2 DEF Barrier, rcu_barrier, rcu_barrier_func, BarrierWait, BarrierReturn, Enqueue, rcp,
       qs, lists
  <2> HIDE DEF Kept
  <2> QED
    BY <2>1, <2>2, <1>n, <1>1, <1>4, <1>6, <1>7, <1>8, <1>9, <1>12, <1>13, <1>14, <1>15, <1>16
       DEF Next, Tasklet

\* A CPU's lists, in the order in which their heads are invoked.
LEMMA QueueHeads ==
  ASSUME IInv, NEW c \in CPU
  PROVE  Queue(c) \in Seq(RcuHead) /\ ToSet(Queue(c)) = Heads(c)
<1>t. /\ nxtlist[c] \in Seq(RcuHead) /\ curlist[c] \in Seq(RcuHead) /\ donelist[c] \in Seq(RcuHead)
  BY DEF IInv, ControlOK, TypeOK
<1>1. /\ donelist[c] \o curlist[c] \in Seq(RcuHead)
      /\ ToSet(donelist[c] \o curlist[c]) = ToSet(donelist[c]) \cup ToSet(curlist[c])
  BY <1>t, ToSetConcat
<1>2. /\ Queue(c) \in Seq(RcuHead)
      /\ ToSet(Queue(c)) = ToSet(donelist[c] \o curlist[c]) \cup ToSet(nxtlist[c])
  <2>1. PICK a \in Seq(RcuHead) : a = donelist[c] \o curlist[c]
    BY <1>1
  <2>2. a \o nxtlist[c] \in Seq(RcuHead) /\ ToSet(a \o nxtlist[c]) = ToSet(a) \cup ToSet(nxtlist[c])
    BY <1>t, ToSetConcat
  <2> QED
    BY <2>1, <2>2, Zenon DEF Queue
<1> QED
  BY <1>1, <1>2 DEF Heads

LEMMA QueueMove ==
  ASSUME IInv, NEW c \in CPU, Advance(c) \/ TakeNext(c)
  PROVE  \A d \in CPU : Queue(d)' = Queue(d) /\ Heads(d)' = Heads(d)
<1>t. /\ nxtlist[c] \in Seq(RcuHead) /\ curlist[c] \in Seq(RcuHead) /\ donelist[c] \in Seq(RcuHead)
  BY DEF IInv, ControlOK, TypeOK
<1>1. /\ donelist[c] \o curlist[c] \in Seq(RcuHead) /\ donelist[c] \o nxtlist[c] \in Seq(RcuHead)
      /\ ToSet(donelist[c] \o curlist[c]) = ToSet(donelist[c]) \cup ToSet(curlist[c])
  BY <1>t, ToSetConcat
<1>2. /\ (donelist[c] \o curlist[c]) \o <<>> = donelist[c] \o curlist[c]
      /\ (donelist[c] \o nxtlist[c]) \o <<>> = donelist[c] \o nxtlist[c]
      /\ donelist[c] \o <<>> = donelist[c]
  BY <1>1, <1>t, ConcatEmptySeq
<1>3. CASE Advance(c)
  <2>1. AdvanceEffect(c)
    BY <1>3, AdvanceStep
  <2>2. CASE curlist'[c] = <<>> /\ donelist'[c] = donelist[c] \o curlist[c]
    <3>1. Queue(c)' = Queue(c)
      BY <2>1, <2>2, <1>2, Zenon DEF Queue, AdvanceEffect
    <3>2. Heads(c)' = Heads(c)
      BY <2>1, <2>2, <1>1, ToSetEmpty DEF Heads, AdvanceEffect
    <3> QED
      BY <3>1, <3>2, <2>1 DEF AdvanceEffect, Queue, Heads
  <2>3. CASE curlist'[c] = curlist[c] /\ donelist'[c] = donelist[c]
    BY <2>1, <2>3 DEF AdvanceEffect, Queue, Heads
  <2> QED
    BY <2>1, <2>2, <2>3 DEF AdvanceEffect
<1>4. CASE TakeNext(c)
  <2>1. TakeNextEffect(c)
    BY <1>4, TakeNextStep
  <2>2. CASE curlist[c] = <<>> /\ curlist'[c] = nxtlist[c] /\ nxtlist'[c] = <<>>
    <3>1. Queue(c)' = Queue(c)
      BY <2>1, <2>2, <1>2, Zenon DEF Queue, TakeNextEffect
    <3>2. Heads(c)' = Heads(c)
      BY <2>1, <2>2, ToSetEmpty DEF Heads, TakeNextEffect
    <3> QED
      BY <3>1, <3>2, <2>1 DEF TakeNextEffect, Queue, Heads
  <2>3. CASE curlist'[c] = curlist[c] /\ nxtlist'[c] = nxtlist[c]
    BY <2>1, <2>3 DEF TakeNextEffect, Queue, Heads
  <2> QED
    BY <2>1, <2>2, <2>3 DEF TakeNextEffect
<1> QED
  BY <1>3, <1>4

LEMMA QueueEnqueue ==
  ASSUME IInv, NEW c \in CPU, NEW h \in RcuHead, Enqueue(c, h)
  PROVE  /\ Queue(c)' = Append(Queue(c), h) /\ Heads(c)' = Heads(c) \cup {h}
         /\ \A d \in CPU \ {c} : Queue(d)' = Queue(d) /\ Heads(d)' = Heads(d)
<1>t. /\ nxtlist[c] \in Seq(RcuHead) /\ curlist[c] \in Seq(RcuHead) /\ donelist[c] \in Seq(RcuHead)
      /\ nxtlist \in [CPU -> Seq(RcuHead)]
  BY DEF IInv, ControlOK, TypeOK
<1>p. PICK a \in Seq(RcuHead), n \in Seq(RcuHead) : a = donelist[c] \o curlist[c] /\ n = nxtlist[c]
  BY <1>t, ToSetConcat
<1>1. a \o Append(n, h) = Append(a \o n, h)
  <2>1. Append(n, h) = n \o <<h>> /\ <<h>> \in Seq(RcuHead) /\ a \o n \in Seq(RcuHead)
    BY AppendIsConcat, ToSetConcat
  <2>2. (a \o n) \o <<h>> = a \o (n \o <<h>>)
    BY <2>1, ConcatAssociative
  <2>3. Append(a \o n, h) = (a \o n) \o <<h>>
    BY <2>1, AppendIsConcat
  <2> QED
    BY <2>1, <2>2, <2>3, Zenon
<1>2. /\ nxtlist'[c] = Append(n, h) /\ UNCHANGED <<curlist, donelist>>
      /\ \A d \in CPU \ {c} : nxtlist'[d] = nxtlist[d]
  BY <1>t, <1>p DEF Enqueue
<1>3. ToSet(nxtlist'[c]) = ToSet(nxtlist[c]) \cup {h}
  BY EnqueueStep DEF EnqueueEffect
<1>4. Queue(c)' = Append(Queue(c), h)
  BY <1>1, <1>2, <1>p, Zenon DEF Queue
<1> HIDE <1>p, <1>1
<1> QED
  BY <1>2, <1>3, <1>4 DEF Queue, Heads

LEMMA QueueBatch ==
  ASSUME IInv, NEW c \in CPU, rcu_do_batch(c)
  PROVE  /\ \E s \in Seq(RcuHead) : ToSet(s) = Batched(c) /\ Queue(c) = s \o Queue(c)'
         /\ Queue(c)' \in Seq(RcuHead)
         /\ \A d \in CPU \ {c} : Queue(d)' = Queue(d) /\ Heads(d)' = Heads(d)
<1>t. /\ nxtlist[c] \in Seq(RcuHead) /\ curlist[c] \in Seq(RcuHead) /\ donelist[c] \in Seq(RcuHead)
      /\ donelist \in [CPU -> Seq(RcuHead)]
      /\ blimit \in [CPU -> {Limit, INT_MAX}] /\ Limit \in Nat
  BY RcuAssumption DEF IInv, ControlOK, TypeOK
<1>o. PICK l \in Seq(RcuHead) : l = donelist[c]
  BY <1>t
<1>p. PICK n \in 0..Len(l) : l = donelist[c] /\ n = BatchSize(c)
  <2>1. Len(l) \in Nat /\ blimit[c] \in {Limit, 1000}
    BY <1>t DEF INT_MAX
  <2>2. BatchSize(c) = IF blimit[c] < Len(l) THEN blimit[c] ELSE Len(l)
    BY <1>o DEF BatchSize, Min2
  <2>3. BatchSize(c) \in 0..Len(l)
    BY <2>1, <2>2, <1>t
  <2> QED
    BY <2>3, <1>o
<1>q. PICK b, r : b = SubSeq(l, 1, n) /\ r = SubSeq(l, n + 1, Len(l))
  OBVIOUS
<1>1. /\ donelist' = [donelist EXCEPT ![c] = r] /\ UNCHANGED <<nxtlist, curlist>>
      /\ ToSet(b) = Batched(c)
  BY <1>t, <1>p, <1>q DEF rcu_do_batch, Batched, BatchSize
<1>2. b \in Seq(RcuHead) /\ r \in Seq(RcuHead) /\ l = b \o r
  <2>1. n + 1 \in 1..Len(l) + 1 /\ Len(l) \in 0..Len(l) /\ 1 \in 1..Len(l) + 1 /\ n \in 1 - 1..Len(l)
        /\ Len(l) \in n..Len(l)
    OBVIOUS
  <2>2. SubSeq(l, 1, n) \o SubSeq(l, n + 1, Len(l)) = SubSeq(l, 1, Len(l))
    BY <2>1, ConcatAdjacentSubSeq
  <2>3. SubSeq(l, 1, Len(l)) = l
    BY SubSeqFull
  <2>4. SubSeq(l, 1, n) \in Seq(RcuHead) /\ SubSeq(l, n + 1, Len(l)) \in Seq(RcuHead)
    BY <2>1, ToSetSubSeq
  <2> QED
    BY <2>2, <2>3, <2>4, <1>q, Zenon
<1>3. donelist'[c] = r /\ \A d \in CPU \ {c} : donelist'[d] = donelist[d]
  BY <1>1, <1>t
<1>r. PICK u \in Seq(RcuHead), v \in Seq(RcuHead) : u = curlist[c] /\ v = nxtlist[c]
  BY <1>t
<1>4. ((b \o r) \o u) \o v = b \o ((r \o u) \o v) /\ (r \o u) \o v \in Seq(RcuHead)
  <2>1. r \o u \in Seq(RcuHead)
    BY <1>2, ToSetConcat
  <2>2. (b \o r) \o u = b \o (r \o u)
    BY <1>2, ConcatAssociative
  <2>3. (b \o (r \o u)) \o v = b \o ((r \o u) \o v)
    <3>1. PICK w \in Seq(RcuHead) : w = r \o u
      BY <2>1
    <3>2. (b \o w) \o v = b \o (w \o v)
      BY <1>2, ConcatAssociative, SMTT(30)
    <3> QED
      BY <3>1, <3>2, Zenon
  <2>4. (r \o u) \o v \in Seq(RcuHead)
    BY <2>1, ToSetConcat
  <2> QED
    BY <2>2, <2>3, <2>4, Zenon
<1>5. Queue(c) = b \o Queue(c)' /\ Queue(c)' \in Seq(RcuHead)
  <2>1. Queue(c) = ((b \o r) \o u) \o v
    BY <1>2, <1>p, <1>r, Zenon DEF Queue
  <2>2. Queue(c)' = (r \o u) \o v
    BY <1>1, <1>3, <1>r, Zenon DEF Queue
  <2> QED
    BY <2>1, <2>2, <1>4, Zenon
<1> HIDE <1>p, <1>q, <1>4
<1>6. \A d \in CPU \ {c} : Queue(d)' = Queue(d) /\ Heads(d)' = Heads(d)
  BY <1>1, <1>3 DEF Queue, Heads
<1> QED
  BY <1>1, <1>2, <1>5, <1>6, Zenon

\* rcu_barrier() returns when the heads it queued, and what was before them,
\* have been invoked.
LEMMA CompleteStep ==
  ASSUME IInv, Next
  PROVE  CompleteInv'
<1>0. CompleteInv /\ PinInv /\ BarHeadInv /\ BarrierOK /\ OnceInv /\ HeadInv
  BY DEF IInv
<1>t. Callback \cap CPU = {} /\ IsFiniteSet(CPU) /\ called \subseteq Callback
  BY RcuAssumption DEF IInv, ControlOK, TypeOK
<1>w. work' = work
  BY WorkFixed
<1> SUFFICES ASSUME work.downs = 0 PROVE CompleteInv'
  BY <1>w DEF CompleteInv
<1>n. ~Hotplug /\ online = CPU
  BY NoHotplug
<1>i. /\ \A c, d \in CPU : c \in Heads(d) => c = d
      /\ bar.stage # "off" => barcount = Cardinality(BarHeads)
      /\ bar.stage \in {"wait", "returned"} => bar.todo = {}
      /\ bar.stage = "returned" => bar.done
      /\ bar.done => bar.stage \in {"wait", "returned"} /\ BarHeads = {}
      /\ \A f \in barwait : \E c \in CPU : f \in Heads(c) /\ (c \in bar.todo \/ Before(Queue(c), f, c))
  BY <1>0 DEF CompleteInv
<1>q. \A c \in CPU : Queue(c) \in Seq(RcuHead) /\ ToSet(Queue(c)) = Heads(c)
  BY QueueHeads
<1>f. IsFiniteSet(BarHeads) /\ Cardinality(BarHeads) \in Nat
  <2>1. BarHeads \in SUBSET CPU
    BY DEF BarHeads
  <2> QED
    BY <2>1, <1>t, FS_Subset, FS_CardinalityType
\* The queues stay as they are.
<1>m. ASSUME \A d \in CPU : Queue(d)' = Queue(d) /\ Heads(d)' = Heads(d),
             UNCHANGED <<bar, barcount, barwait>>
      PROVE  CompleteInv'
  <2>1. BarHeads' = BarHeads
    BY <1>m DEF BarHeads
  <2> QED
    BY <2>1, <1>m, <1>i DEF CompleteInv
<1>1. CASE UNCHANGED <<bar, barcount, barwait, nxtlist, curlist, donelist>>
  <2>1. \A d \in CPU : Queue(d)' = Queue(d) /\ Heads(d)' = Heads(d)
    BY <1>1 DEF Queue, Heads
  <2> QED
    BY <2>1, <1>1, <1>m
<1>2. ASSUME NEW c \in CPU, Advance(c) \/ TakeNext(c) PROVE CompleteInv'
  <2>1. UNCHANGED <<bar, barcount, barwait>>
    BY <1>2 DEF Advance, TakeNext, barrier, ghost
  <2> QED
    BY <2>1, <1>2, <1>m, QueueMove
<1>3. ASSUME NEW c \in CPU, NEW f \in Callback, call_rcu(c, f) PROVE CompleteInv'
  <2>1. Enqueue(c, f) /\ UNCHANGED <<bar, barcount, barwait>>
    BY <1>3 DEF call_rcu, barrier
  <2>2. /\ Queue(c)' = Append(Queue(c), f) /\ Heads(c)' = Heads(c) \cup {f}
        /\ \A d \in CPU \ {c} : Queue(d)' = Queue(d) /\ Heads(d)' = Heads(d)
    BY <2>1, QueueEnqueue DEF RcuHead
  <2>3. \A d, e \in CPU : d \in Heads(e)' <=> d \in Heads(e)
    BY <2>2, <1>t
  <2>4. BarHeads' = BarHeads
    BY <2>3 DEF BarHeads
  <2>5. \A g : \A d \in CPU : Before(Queue(d), g, d) => Before(Queue(d)', g, d)
    <3> TAKE g
    <3>1. Before(Queue(c), g, c) => Before(Queue(c)', g, c)
      <4>1. PICK q \in Seq(RcuHead) : q = Queue(c)
        BY <1>q
      <4>2. f \in RcuHead
        BY DEF RcuHead
      <4>3. Before(q, g, c) => Before(Append(q, f), g, c)
        BY <4>2, BeforeAppend
      <4> QED
        BY <4>1, <4>3, <2>2, Zenon
    <3> QED
      BY <3>1, <2>2
  <2>6. \A d \in CPU : Heads(d) \subseteq Heads(d)'
    BY <2>2
  <2>7. \A g \in barwait : \E d \in CPU : g \in Heads(d)' /\ (d \in bar.todo \/ Before(Queue(d)', g, d))
    BY <2>5, <2>6, <1>i
  <2> QED
    BY <2>1, <2>3, <2>4, <2>7, <1>i DEF CompleteInv
<1>4. ASSUME NEW c \in CPU, rcu_barrier_func(c) PROVE CompleteInv'
  <2>1. /\ Enqueue(c, c) /\ bar.stage = "ipi" /\ c \in bar.todo /\ barcount' = barcount + 1
        /\ bar'.stage = bar.stage /\ bar'.todo = bar.todo \ {c} /\ bar'.done = bar.done
        /\ barwait' = barwait
    BY <1>4, <1>0 DEF rcu_barrier_func, ghost, BarrierOK
  <2>2. /\ Queue(c)' = Append(Queue(c), c) /\ Heads(c)' = Heads(c) \cup {c}
        /\ \A d \in CPU \ {c} : Queue(d)' = Queue(d) /\ Heads(d)' = Heads(d)
    BY <2>1, QueueEnqueue DEF RcuHead
  <2>3. \A d, e \in CPU : d \in Heads(e)' => d = e
    BY <2>2, <1>i
  <2>4. c \notin BarHeads
    BY <2>1, <1>0 DEF BarHeadInv, BarHeads
  <2>5. BarHeads' = BarHeads \cup {c}
    BY <2>2 DEF BarHeads
  <2>6. Cardinality(BarHeads') = Cardinality(BarHeads) + 1
    BY <2>4, <2>5, <1>f, FS_AddElement
  <2>7. ASSUME NEW g \in barwait
        PROVE  \E d \in CPU : g \in Heads(d)' /\ (d \in bar.todo \ {c} \/ Before(Queue(d)', g, d))
    <3>1. PICK d \in CPU : g \in Heads(d) /\ (d \in bar.todo \/ Before(Queue(d), g, d))
      BY <1>i
    <3>2. CASE d = c
      <4>1. g \in ToSet(Queue(c)) /\ Queue(c) \in Seq(RcuHead) /\ c \in RcuHead
        BY <3>1, <3>2, <1>q DEF RcuHead
      <4>2. Before(Append(Queue(c), c), g, c)
        BY <4>1, BeforeAppend
      <4> QED
        BY <4>2, <3>1, <3>2, <2>2
    <3>3. CASE d # c
      BY <3>1, <3>3, <2>2
    <3> QED
      BY <3>2, <3>3
  <2>8. ~bar.done
    BY <2>1, <1>i
  <2> QED
    BY <2>1, <2>3, <2>6, <2>7, <2>8, <1>i DEF CompleteInv
<1>5. ASSUME NEW c \in CPU, rcu_do_batch(c) PROVE CompleteInv'
  <2>0. OnceOn(c) /\ work.downs \in Nat
    BY <1>0 DEF OnceInv, Calm
  <2>1. PICK b :
           /\ b = Batched(c)
           /\ ToSet(donelist[c]) = b \cup ToSet(donelist'[c]) /\ b \cap ToSet(donelist'[c]) = {}
           /\ \A d \in CPU \ {c} : donelist'[d] = donelist[d]
           /\ UNCHANGED <<nxtlist, curlist>>
    BY <1>5, <2>0, DoBatchSplit DEF OnceOn
  <2>2. Heads(c) = Heads(c)' \cup b /\ Heads(c)' \cap b = {}
    <3>1. b \cap ToSet(nxtlist[c]) = {} /\ b \cap ToSet(curlist[c]) = {}
      BY <2>1, <2>0 DEF OnceOn, Apart
    <3> QED
      BY <2>1, <3>1 DEF Heads
  <2>3. /\ bar'.stage = bar.stage /\ bar'.todo = bar.todo
        /\ bar'.done <=> bar.done \/ (b \cap CPU # {} /\ barcount' = 0)
        /\ barcount' = barcount - Cardinality(b \cap CPU) /\ barwait' = barwait \ b
    BY <1>5, <2>1, <1>0 DEF rcu_do_batch, Batched, BatchSize, BarrierOK
  <2>4. /\ \E s \in Seq(RcuHead) : ToSet(s) = b /\ Queue(c) = s \o Queue(c)'
        /\ Queue(c)' \in Seq(RcuHead)
        /\ \A d \in CPU \ {c} : Queue(d)' = Queue(d) /\ Heads(d)' = Heads(d)
    BY <1>5, <2>1, QueueBatch
  <2>5. b \cap CPU \subseteq {c} /\ BarHeads' = BarHeads \ (b \cap CPU) /\ b \cap CPU \subseteq BarHeads
    <3>1. b \cap CPU \subseteq {c}
      BY <2>2, <1>i
    <3> QED
      BY <3>1, <2>2, <2>4 DEF BarHeads
  <2>6. b \cap CPU # {} => bar.stage \in {"wait", "returned"}
    <3> SUFFICES ASSUME b \cap CPU # {} PROVE bar.stage \in {"wait", "returned"}
      OBVIOUS
    <3>1. bar.stage # "off"
      BY <2>2, <1>0 DEF BarHeadInv
    <3>2. bar.stage # "ipi"
      BY <2>1, <1>0 DEF PinInv
    <3> QED
      BY <3>1, <3>2, <1>0 DEF BarrierOK
  <2>7. bar.stage # "off" => barcount' = Cardinality(BarHeads')
    <3>1. CASE b \cap CPU = {}
      <4>1. Cardinality(b \cap CPU) = 0 /\ BarHeads' = BarHeads
        BY <3>1, <2>5, FS_EmptySet
      <4> QED
        BY <4>1, <2>3, <1>i, <1>f
    <3>2. CASE b \cap CPU # {}
      <4>1. b \cap CPU = {c} /\ c \in BarHeads
        BY <3>2, <2>5
      <4>2. Cardinality(b \cap CPU) = 1 /\ Cardinality(BarHeads') = Cardinality(BarHeads) - 1
        BY <4>1, <2>5, <1>f, FS_RemoveElement, FS_Singleton
      <4> QED
        BY <4>2, <2>3, <1>i
    <3> QED
      BY <3>1, <3>2
  <2>8. bar'.done => bar.stage \in {"wait", "returned"} /\ BarHeads' = {}
    <3>1. CASE bar.done
      BY <3>1, <2>5, <1>i
    <3>2. CASE b \cap CPU # {} /\ barcount' = 0
      <4>1. Cardinality(BarHeads') = 0 /\ IsFiniteSet(BarHeads')
        <5>1. IsFiniteSet(BarHeads \ (b \cap CPU))
          BY <1>f, FS_Subset
        <5> QED
          BY <5>1, <3>2, <2>5, <2>6, <2>7
      <4> QED
        BY <4>1, <3>2, <2>6, FS_EmptySet
    <3> QED
      BY <3>1, <3>2, <2>3
  <2>9. ASSUME NEW g \in barwait \ b
        PROVE  \E d \in CPU : g \in Heads(d)' /\ (d \in bar.todo \/ Before(Queue(d)', g, d))
    <3>1. PICK d \in CPU : g \in Heads(d) /\ (d \in bar.todo \/ Before(Queue(d), g, d))
      BY <1>i
    <3>2. CASE d = c
      <4>1. g \in Heads(c)'
        BY <3>1, <3>2, <2>2
      <4>2. PICK s \in Seq(RcuHead) : ToSet(s) = b /\ Queue(c) = s \o Queue(c)'
        BY <2>4
      <4>3. Before(Queue(c), g, c) => Before(Queue(c)', g, c)
        <5> SUFFICES ASSUME Before(Queue(c), g, c) PROVE Before(Queue(c)', g, c)
          OBVIOUS
        <5>1. PICK r \in Seq(RcuHead) : r = Queue(c)'
          BY <2>4
        <5>2. Before(s \o r, g, c) /\ g \notin ToSet(s)
          BY <5>1, <4>2
        <5>3. Before(r, g, c)
          BY <5>2, BeforeRest
        <5> QED
          BY <5>1, <5>3
      <4> QED
        BY <4>1, <4>3, <3>1, <3>2
    <3>3. CASE d # c
      BY <3>1, <3>3, <2>4
    <3> QED
      BY <3>2, <3>3
  <2>10. \A d, e \in CPU : d \in Heads(e)' => d = e
    BY <2>2, <2>4, <1>i
  <2>11. bar.stage = "returned" => bar'.done
    BY <2>3, <1>i
  <2> QED
    BY <2>3, <2>7, <2>8, <2>9, <2>10, <2>11, <1>i DEF CompleteInv
<1>6. ASSUME NEW c \in CPU, rcu_barrier(c) PROVE CompleteInv'
  <2>1. /\ bar.stage = "off" /\ bar'.stage = "ipi" /\ bar'.todo = CPU /\ bar'.done = FALSE
        /\ barcount' = 0 /\ UNCHANGED <<nxtlist, curlist, donelist>>
        /\ barwait' = {f \in Callback : Queued(f)}
    BY <1>6, <1>n DEF rcu_barrier, lists
  <2>2. \A d \in CPU : Heads(d)' = Heads(d)
    BY <2>1 DEF Heads
  <2>3. \A d, e \in CPU : d \notin Heads(e)'
    BY <2>1, <2>2, <1>0 DEF BarHeadInv
  <2>4. BarHeads' = {}
    BY <2>3 DEF BarHeads
  <2>5. \A g \in barwait' : \E d \in CPU : g \in Heads(d)'
    BY <2>1, <2>2 DEF Queued, Heads
  <2> QED
    BY <2>1, <2>3, <2>4, <2>5, FS_EmptySet DEF CompleteInv
<1>7. CASE BarrierReturn \/ \E c \in CPU : BarrierWait(c)
  <2>1. /\ bar.stage # "off" /\ bar'.stage \in {"wait", "returned"} /\ bar'.todo = bar.todo
        /\ bar'.done = bar.done /\ bar.todo = {} /\ (bar'.stage = "returned" => bar.done)
        /\ UNCHANGED <<barcount, barwait, nxtlist, curlist, donelist>>
    BY <1>7, <1>0, <1>i DEF BarrierReturn, BarrierWait, lists, ghost, BarrierOK
  <2>2. \A d \in CPU : Queue(d)' = Queue(d) /\ Heads(d)' = Heads(d)
    BY <2>1 DEF Queue, Heads
  <2>3. BarHeads' = BarHeads
    BY <2>2 DEF BarHeads
  <2> QED
    BY <2>1, <2>2, <2>3, <1>i DEF CompleteInv
<1> QED
  <2>1. ASSUME NEW c \in CPU, Tasklet(c)
        PROVE  \/ UNCHANGED <<bar, barcount, barwait, nxtlist, curlist, donelist>>
               \/ Advance(c) \/ TakeNext(c) \/ rcu_do_batch(c)
    BY <2>1 DEF Tasklet, NumberBatch, ReadPending, SetPending, StartBatch, IncrCur,
       CheckQuiescent, NoteBatch, ReportQuiet, lists, ghost, barrier
  <2>2. ASSUME NEW c \in CPU,
               \/ (\E x \in work.reads : rcu_read_lock(c, x))
               \/ (\E x \in work.reads : rcu_read_unlock(c, x)) \/ ContextSwitch(c)
               \/ rcu_check_callbacks(c)
        PROVE  UNCHANGED <<bar, barcount, barwait, nxtlist, curlist, donelist>>
    BY <2>2 DEF rcu_read_lock, rcu_read_unlock, ContextSwitch, rcu_check_callbacks, lists, ghost,
       barrier
  <2> QED
    BY <2>1, <2>2, <1>n, <1>1, <1>2, <1>3, <1>4, <1>5, <1>6, <1>7 DEF Next, Barrier

-----------------------------------------------------------------------------
(* The theorems *)

LEMMA InitIInv == Init => IInv
<1> SUFFICES ASSUME Init PROVE IInv
  OBVIOUS
<1>1. ListsOK /\ PcOK /\ BatchOK /\ QuietOK /\ CountOK /\ ReaderOK /\ HotplugOK
  <2>1. <<>> \in Seq(RcuHead)
    OBVIOUS
  <2>2. ListsOK
    BY <2>1 DEF Init, ListsOK
  <2>3. PcOK
    BY DEF Init, PcOK, TaskletPc
  <2>4. BatchOK
    <3>1. next_pending \in BOOLEAN
      BY Zenon DEF Init
    <3>2. cur \in Int /\ completed \in Int /\ cpumask \subseteq CPU
      BY DEF Init
    <3>3. quiescbatch \in [CPU -> Int] /\ batch \in [CPU -> Int]
      BY DEF Init
    <3> QED
      BY <3>1, <3>2, <3>3 DEF BatchOK
  <2>5. QuietOK /\ CountOK /\ ReaderOK /\ HotplugOK
    BY DEF Init, QuietOK, CountOK, ReaderOK, HotplugOK, HpStage
  <2> QED
    BY <2>2, <2>3, <2>4, <2>5
<1>2. OfflineInv /\ LockInv /\ BatchInv /\ QuietInv /\ NoForgottenCpu
  BY DEF Init, OfflineInv, LockInv, BatchInv, QuietInv, NoForgottenCpu
<1>3. StaleInv /\ PendingInv /\ BatchWillStart
  BY DEF Init, StaleInv, PendingInv, BatchWillStart
<1>4. HeadInv /\ ReaderInv /\ DoneInv /\ WaitInv
  BY ToSetEmpty DEF Init, HeadInv, ReaderInv, DoneInv, GracePeriod, WaitInv
<1>5. QlenInv
  BY ToSetEmpty DEF Init, QlenInv
<1>6. BarrierOK /\ BarHeadInv /\ GoneInv
  BY ToSetEmpty DEF Init, BarrierOK, BarHeadInv, Heads, GoneInv
<1>7. OnceInv /\ PinInv
  <2>1. \A c \in CPU : OnceOn(c) /\ Heads(c) = {}
    BY ToSetEmpty, OnceEmpty DEF Init, OnceOn, Heads
  <2> QED
    BY <2>1 DEF Init, OnceInv, PinInv
<1>8. CompleteInv
  <2>1. \A c \in CPU : Heads(c) = {}
    BY ToSetEmpty DEF Init, Heads
  <2> QED
    BY <2>1 DEF Init, CompleteInv, BarHeads
<1> QED
  BY <1>1, <1>2, <1>3, <1>4, <1>5, <1>6, <1>7, <1>8, ControlParts DEF IInv

LEMMA StutterIInv ==
  ASSUME IInv, UNCHANGED vars
  PROVE  IInv'
<1>1. (ListsOK /\ PcOK /\ BatchOK /\ QuietOK /\ CountOK /\ ReaderOK /\ HotplugOK)'
  <2>1. ListsOK /\ PcOK /\ BatchOK /\ QuietOK /\ CountOK /\ ReaderOK /\ HotplugOK
    BY ControlParts DEF IInv
  <2> QED
    BY <2>1 DEF vars, rcp, qs, lists, cpus, ghost, ListsOK, PcOK, BatchOK, QuietOK, CountOK,
       ReaderOK, HotplugOK
<1>2. ControlOK'
  BY <1>1 DEF ControlOK, TypeOK, ListsOK, PcOK, BatchOK, QuietOK, CountOK, ReaderOK,
     HotplugOK
<1>3. (OfflineInv /\ LockInv /\ BatchInv /\ QuietInv /\ NoForgottenCpu)'
  BY DEF IInv, vars, rcp, qs, lists, cpus, OfflineInv, LockInv, BatchInv, QuietInv, NoForgottenCpu
<1>4. (StaleInv /\ PendingInv /\ BatchWillStart)'
  BY DEF IInv, vars, rcp, qs, lists, cpus, StaleInv, PendingInv, BatchWillStart
<1>5. (HeadInv /\ ReaderInv /\ DoneInv /\ QlenInv)'
  BY DEF IInv, vars, lists, cpus, ghost, HeadInv, ReaderInv, AllReaders, DoneInv, GracePeriod,
     QlenInv
<1>6. WaitInv'
  BY DEF IInv, vars, rcp, qs, lists, ghost, WaitInv, Outlives
<1>7. (BarrierOK /\ BarHeadInv /\ GoneInv)'
  BY DEF IInv, vars, lists, cpus, barrier, BarrierOK, BarHeadInv, Heads, GoneInv
<1>8. OnceInv'
  BY DEF IInv, vars, lists, cpus, ghost, OnceInv, Calm, OnceOn, Heads
<1>9. PinInv'
  BY DEF IInv, vars, rcp, qs, lists, cpus, barrier, PinInv, Outlives
<1>10. CompleteInv'
  BY DEF IInv, vars, lists, cpus, ghost, barrier, CompleteInv, Heads, BarHeads, Queue
<1> QED
  BY <1>2, <1>3, <1>4, <1>5, <1>6, <1>7, <1>8, <1>9, <1>10 DEF IInv

\* IInv is an invariant: types, who runs and who holds rcp->lock, how the batch
\* numbers, cpumask and the callback lists fit together.
THEOREM Invariance == Spec => []IInv
<1>1. ASSUME IInv, Next PROVE IInv'
  <2>1. ControlOK'
    <3>1. (ListsOK /\ PcOK /\ BatchOK /\ QuietOK /\ CountOK /\ ReaderOK /\ HotplugOK)'
      BY <1>1, ListStep, PcTypes, BatchTypes, QuietTypes, CountTypes, ReaderTypes, HotplugTypes
    <3> QED
      BY <3>1 DEF ControlOK, TypeOK, ListsOK, PcOK, BatchOK, QuietOK, CountOK, ReaderOK,
         HotplugOK
  <2> QED
    BY <1>1, <2>1, OfflineStep, LockStep, BatchStep, QuietStep, ForgottenStep, StaleStep,
       PendingStep, StartStep, HeadStep, ReaderStep, DoneStep, WaitStep, QlenStep, BarrierTypes,
       BarHeadStep, GoneStep, OnceStep, PinStep, CompleteStep DEF IInv
<1> QED
  BY <1>1, InitIInv, StutterIInv, PTL DEF Spec

\* Every variable has its type.
THEOREM RcuTypes == Spec => []TypeOK
<1>1. IInv => TypeOK
  BY DEF IInv, ControlOK
<1> QED
  BY <1>1, Invariance, PTL

\* The function of a callback is called only after every read-side critical
\* section that was running at its call_rcu() has ended (rcu_do_batch()).
THEOREM RcuGracePeriod == Spec => []GracePeriod
<1>1. IInv => GracePeriod
  BY DEF IInv, DoneInv
<1> QED
  BY <1>1, Invariance, PTL

\* The batch numbers that rcu_batch_before() compares are at most two apart.
THEOREM RcuBatchWindow == Spec => []BatchWindow
<1>1. ASSUME IInv PROVE BatchWindow
  <2>1. /\ cur \in Int /\ completed \in Int /\ batch \in [CPU -> Int] /\ online \subseteq CPU
        /\ BatchInv /\ StaleInv
    BY <1>1 DEF IInv, ControlOK, TypeOK
  <2>2. ASSUME NEW c \in online, curlist[c] # <<>>, pc[c] # "number"
        PROVE  batch[c] - completed \in -1..2
    <3>1. completed <= batch[c] /\ batch[c] <= cur + 1 /\ batch[c] \in Int
      BY <2>1, <2>2 DEF BatchInv, StaleInv
    <3> QED
      BY <3>1, <2>1 DEF BatchInv
  <2> QED
    BY <2>1, <2>2 DEF BatchWindow, BatchInv
<1> QED
  BY <1>1, Invariance, PTL

\* A batch that has its number is started by somebody (rcu_start_batch()).
THEOREM RcuBatchWillStart == Spec => []BatchWillStart
<1>1. IInv => BatchWillStart
  BY DEF IInv
<1> QED
  BY <1>1, Invariance, PTL

\* A grace period never waits for a CPU that has nothing left to report
\* (cpu_quiet(), rcu_offline_cpu()).
THEOREM RcuNoForgottenCpu == Spec => []NoForgottenCpu
<1>1. IInv => NoForgottenCpu
  BY DEF IInv
<1> QED
  BY <1>1, Invariance, PTL

\* rdp->qlen counts the callbacks queued on its CPU while no CPU goes down.
THEOREM RcuQlenExact == Spec => []QlenExact
<1>1. ASSUME IInv PROVE QlenExact
  <2>1. ListsOK /\ QlenInv /\ online \subseteq CPU
    BY <1>1 DEF IInv, ControlOK, TypeOK, ListsOK
  <2>2. SUFFICES ASSUME work.downs = 0, NEW c \in online PROVE qlen[c] = Len(All(c))
    BY DEF QlenExact
  <2>3. nxtlist[c] \in Seq(RcuHead) /\ curlist[c] \in Seq(RcuHead) /\ donelist[c] \in Seq(RcuHead)
    BY <2>1 DEF ListsOK
  <2>4. /\ nxtlist[c] \o curlist[c] \in Seq(RcuHead)
        /\ Len(nxtlist[c] \o curlist[c]) = Len(nxtlist[c]) + Len(curlist[c])
    BY <2>3, ToSetConcat
  <2>5. Len(All(c)) = Len(nxtlist[c] \o curlist[c]) + Len(donelist[c])
    BY <2>3, <2>4, ToSetConcat DEF All
  <2> QED
    BY <2>1, <2>2, <2>4, <2>5 DEF QlenInv
<1> QED
  BY <1>1, Invariance, PTL

\* The three lists of a CPU together hold its heads, each once.
LEMMA AllOnce ==
  ASSUME IInv, NEW c \in CPU, OnceOn(c)
  PROVE  All(c) \in Seq(RcuHead) /\ ToSet(All(c)) = Heads(c) /\ Once(All(c))
<1>t. nxtlist[c] \in Seq(RcuHead) /\ curlist[c] \in Seq(RcuHead) /\ donelist[c] \in Seq(RcuHead)
  BY DEF IInv, ControlOK, TypeOK
<1>1. /\ nxtlist[c] \o curlist[c] \in Seq(RcuHead) /\ Once(nxtlist[c] \o curlist[c])
      /\ ToSet(nxtlist[c] \o curlist[c]) = ToSet(nxtlist[c]) \cup ToSet(curlist[c])
  BY <1>t, ToSetConcat, OnceConcat DEF OnceOn
<1>2. PICK a \in Seq(RcuHead) : a = nxtlist[c] \o curlist[c]
  BY <1>1
<1>3. Once(a) /\ ToSet(a) = ToSet(nxtlist[c]) \cup ToSet(curlist[c])
  BY <1>1, <1>2
<1>4. Apart(a, donelist[c])
  BY <1>3 DEF OnceOn, Apart
<1>5. /\ a \o donelist[c] \in Seq(RcuHead) /\ Once(a \o donelist[c])
      /\ ToSet(a \o donelist[c]) = ToSet(a) \cup ToSet(donelist[c])
  BY <1>3, <1>4, <1>t, ToSetConcat, OnceConcat DEF OnceOn
<1>6. All(c) = a \o donelist[c]
  BY <1>2, Zenon DEF All
<1> HIDE <1>1, <1>2
<1> QED
  BY <1>3, <1>5, <1>6 DEF Heads

\* A callback handed to call_rcu() is on one list, once, until it is invoked, and
\* on none afterwards: across all moves between the lists and the CPUs, unless
\* CPU_UP_PREPARE clears a head that rcu_barrier() has queued.
THEOREM RcuNoneLost == Spec => [](Calm => NoneLost)
<1>1. IInv => (Calm => NoneLost)
  <2> SUFFICES ASSUME IInv, Calm, NEW f \in Callback
               PROVE  LET places == UNION {{c} \X {i \in 1..Len(All(c)) : All(c)[i] = f} : c \in CPU}
                      IN  Cardinality(places) = IF f \in called \ invoked THEN 1 ELSE 0
    BY DEF NoneLost
  <2> DEFINE places == UNION {{c} \X {i \in 1..Len(All(c)) : All(c)[i] = f} : c \in CPU}
  <2>1. /\ \A c \in CPU : OnceOn(c)
        /\ \A c, d \in CPU : c # d => Heads(c) \cap Heads(d) = {}
        /\ f \in called \ invoked <=> \E c \in CPU : f \in Heads(c)
    BY DEF IInv, OnceInv
  <2>2. \A c \in CPU : /\ f \in Heads(c) <=> \E i \in 1..Len(All(c)) : All(c)[i] = f
                       /\ \A i, k \in 1..Len(All(c)) : All(c)[i] = f /\ All(c)[k] = f => i = k
    <3> TAKE c \in CPU
    <3>1. PICK q \in Seq(RcuHead) : q = All(c) /\ ToSet(q) = Heads(c) /\ Once(q)
      BY <2>1, AllOnce
    <3>2. f \in ToSet(q) <=> \E i \in 1..Len(q) : q[i] = f
      BY DEF ToSet
    <3>3. \A i, k \in 1..Len(q) : q[i] = f /\ q[k] = f => i = k
      BY <3>1 DEF Once
    <3> QED
      BY <3>1, <3>2, <3>3, Zenon
  <2>3. CASE f \in called \ invoked
    <3>1. PICK c \in CPU : f \in Heads(c)
      BY <2>1, <2>3
    <3>2. PICK i \in 1..Len(All(c)) : All(c)[i] = f
      BY <2>2, <3>1
    <3>3. {k \in 1..Len(All(c)) : All(c)[k] = f} = {i}
      BY <2>2, <3>2
    <3>4. \A d \in CPU \ {c} : {k \in 1..Len(All(d)) : All(d)[k] = f} = {}
      BY <2>1, <2>2, <3>1
    <3>5. places = {<<c, i>>}
      <4>1. \A d \in CPU : d # c => {d} \X {k \in 1..Len(All(d)) : All(d)[k] = f} = {}
        BY <3>4
      <4>2. {c} \X {k \in 1..Len(All(c)) : All(c)[k] = f} = {<<c, i>>}
        BY <3>3
      <4> QED
        BY <4>1, <4>2
    <3> QED
      BY <3>5, <2>3, FS_Singleton
  <2>4. CASE f \notin called \ invoked
    <3>1. \A d \in CPU : {k \in 1..Len(All(d)) : All(d)[k] = f} = {}
      BY <2>1, <2>2, <2>4
    <3>2. places = {}
      BY <3>1
    <3> QED
      BY <3>2, <2>4, FS_EmptySet
  <2> QED
    BY <2>3, <2>4
<1> QED
  BY <1>1, Invariance, PTL

\* Without hotplug rcu_barrier() does not return before every callback that was
\* queued when it was called has been invoked.
THEOREM RcuBarrierComplete == Spec => [](work.downs = 0 => BarrierComplete)
<1>1. IInv => (work.downs = 0 => BarrierComplete)
  <2> SUFFICES ASSUME IInv, work.downs = 0, bar.stage = "returned", NEW f \in barwait PROVE FALSE
    BY DEF BarrierComplete
  <2>1. BarHeads = {} /\ \E c \in CPU : Before(Queue(c), f, c)
    BY DEF IInv, CompleteInv
  <2>2. PICK c \in CPU : Before(Queue(c), f, c)
    BY <2>1
  <2>3. c \in Heads(c)
    BY <2>2, QueueHeads, BeforeIn
  <2> QED
    BY <2>1, <2>3 DEF BarHeads
<1> QED
  BY <1>1, Invariance, PTL
=============================================================================
