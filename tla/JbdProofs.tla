----------------------------- MODULE JbdProofs -----------------------------
(***************************************************************************)
(* The commit always has the log space it needs, and no block is open for  *)
(* writing home before it has been committed: IInv is inductive and        *)
(* implies LogSpace and WriteAhead, for every set of blocks, every log and *)
(* every number of crashes.                                                *)
(***************************************************************************)
EXTENDS Jbd, FiniteSetTheorems, SequenceTheorems, WellFoundedInduction, TLAPS

-----------------------------------------------------------------------------
(* Buffers *)

LEMMA ZeroTid == 0 \in 0..MaxTid /\ MaxTid \in Nat
BY JbdAssumption

LEMMA CleanFields ==
  ASSUME NEW v
  PROVE  /\ IsBuffer(Clean(v)) /\ Clean(v).tr = 0 /\ Clean(v).nxt = 0 /\ Clean(v).jl = "None"
         /\ ~Clean(v).jd /\ ~Clean(v).d /\ ~Clean(v).lk
BY ZeroTid DEF IsBuffer, Clean, Lists, None

LEMMA FileFields ==
  ASSUME NEW x, IsBuffer(x), NEW t \in 0..MaxTid, NEW l \in Lists, NEW y, y = File(x, t, l)
  PROVE  /\ IsBuffer(y) /\ y.tr = t /\ y.jl = l /\ y.nxt = x.nxt /\ y.data = x.data
         /\ (y.jd <=> x.jd \/ x.d) /\ ~y.d /\ (y.lk <=> x.lk) /\ y.cp = x.cp
BY DEF IsBuffer, File

LEMMA UnfileFields ==
  ASSUME NEW x, IsBuffer(x), NEW y, y = Unfile(x)
  PROVE  /\ IsBuffer(y) /\ y.tr = 0 /\ y.jl = "None" /\ y.nxt = x.nxt /\ y.data = x.data
         /\ ~y.jd /\ (y.d <=> x.d \/ x.jd) /\ (y.lk <=> x.lk) /\ y.cp = x.cp
<1>1. y.tr = 0 /\ y.jl = "None" /\ y.nxt = x.nxt /\ y.data = x.data /\ y.cp = x.cp
  BY DEF IsBuffer, Unfile
<1>2. ~y.jd /\ (y.d <=> x.d \/ x.jd) /\ (y.lk <=> x.lk)
  BY DEF IsBuffer, Unfile
<1>3. /\ y = [data |-> y.data, tr |-> y.tr, nxt |-> y.nxt, jl |-> y.jl, jd |-> y.jd, d |-> y.d,
              fz |-> y.fz, cp |-> y.cp, lk |-> y.lk]
      /\ y.jd \in BOOLEAN /\ y.d \in BOOLEAN /\ y.lk \in BOOLEAN
  BY DEF IsBuffer, Unfile
<1>4. IsBuffer(y)
  BY <1>1, <1>3, ZeroTid DEF IsBuffer, Lists
<1> QED
  BY <1>1, <1>2, <1>4

\* A refiled buffer goes on to its next transaction or is unfiled.
LEMMA RefileFields ==
  ASSUME NEW x, IsBuffer(x), NEW y, y = Refile(x)
  PROVE  /\ IsBuffer(y) /\ y.tr = x.nxt /\ y.nxt = 0 /\ y.data = x.data
         /\ (y.lk <=> x.lk) /\ y.cp = x.cp
         /\ x.nxt = 0 => y.jl = "None" /\ ~y.jd /\ (y.d <=> x.d \/ x.jd)
         /\ x.nxt # 0 => /\ y.jl = (IF x.jd THEN "Metadata" ELSE "Reserved")
                         /\ (y.jd <=> x.jd) /\ (y.d <=> x.d)
<1>1. CASE x.nxt = 0
  BY <1>1, UnfileFields DEF Refile
<1>2. CASE x.nxt # 0
  <2>1. y.tr = x.nxt /\ y.nxt = 0 /\ y.data = x.data /\ y.cp = x.cp
        /\ y.jl = (IF x.jd THEN "Metadata" ELSE "Reserved")
    BY <1>2 DEF IsBuffer, Refile
  <2>2. (y.jd <=> x.jd) /\ (y.d <=> x.d) /\ (y.lk <=> x.lk)
    BY <1>2 DEF IsBuffer, Refile
  <2>3. /\ y = [data |-> y.data, tr |-> y.tr, nxt |-> y.nxt, jl |-> y.jl, jd |-> y.jd, d |-> y.d,
                fz |-> y.fz, cp |-> y.cp, lk |-> y.lk]
        /\ y.jd \in BOOLEAN /\ y.d \in BOOLEAN /\ y.lk \in BOOLEAN
    BY <1>2 DEF IsBuffer, Refile
  <2>4. x.nxt \in 0..MaxTid /\ x.cp \in 0..MaxTid
    BY DEF IsBuffer
  <2>5. IsBuffer(y)
    BY <2>1, <2>3, <2>4, ZeroTid DEF IsBuffer, Lists
  <2> QED
    BY <1>2, <2>1, <2>2, <2>5
<1> QED
  BY <1>1, <1>2

\* The two fields that the commit changes on the way.
WithCp(x, c) == [x EXCEPT !.cp = c]
Thawed(x, c) == [x EXCEPT !.fz = None, !.cp = c]
LEMMA CheckpointFields ==
  ASSUME NEW x, IsBuffer(x), NEW c \in 0..MaxTid, NEW y, y = WithCp(x, c) \/ y = Thawed(x, c)
  PROVE  /\ IsBuffer(y) /\ y.tr = x.tr /\ y.jl = x.jl /\ y.nxt = x.nxt /\ y.data = x.data /\ y.cp = c
         /\ (y.jd <=> x.jd) /\ (y.d <=> x.d) /\ (y.lk <=> x.lk)
BY DEF IsBuffer, WithCp, Thawed

Reassigned(x, y, t) == y = [x EXCEPT !.nxt = t] \/ (\E f : y = [x EXCEPT !.nxt = t, !.fz = f])
LEMMA NextFields ==
  ASSUME NEW x, IsBuffer(x), NEW t \in 0..MaxTid, NEW y, Reassigned(x, y, t)
  PROVE  /\ IsBuffer(y) /\ y.tr = x.tr /\ y.jl = x.jl /\ y.nxt = t /\ y.data = x.data
         /\ (y.jd <=> x.jd) /\ (y.d <=> x.d) /\ (y.lk <=> x.lk) /\ y.cp = x.cp
BY DEF IsBuffer, Reassigned

Dirtied(x, v) == [x EXCEPT !.data = v, !.jd = TRUE]
LEMMA DirtyFields ==
  ASSUME NEW x, IsBuffer(x), NEW v, NEW y, y = Dirtied(x, v)
  PROVE  /\ IsBuffer(y) /\ y.tr = x.tr /\ y.jl = x.jl /\ y.nxt = x.nxt /\ y.data = v
         /\ y.jd /\ (y.d <=> x.d) /\ (y.lk <=> x.lk) /\ y.cp = x.cp
BY DEF IsBuffer, Dirtied

Flagged(x, y) ==
  \/ y = [x EXCEPT !.d = FALSE]
  \/ y = [x EXCEPT !.lk = FALSE]
  \/ y = [x EXCEPT !.cp = 0]
  \/ x.d /\ y = [x EXCEPT !.d = FALSE, !.lk = TRUE]
LEMMA FlagFields ==
  ASSUME NEW x, IsBuffer(x), NEW y, Flagged(x, y)
  PROVE  /\ IsBuffer(y) /\ y.tr = x.tr /\ y.jl = x.jl /\ y.nxt = x.nxt /\ y.data = x.data
         /\ (y.jd <=> x.jd) /\ (y.d => x.d) /\ (y.lk => x.lk \/ x.d)
<1>1. CASE y = [x EXCEPT !.d = FALSE]
  BY <1>1 DEF IsBuffer
<1>2. CASE y = [x EXCEPT !.lk = FALSE]
  BY <1>2 DEF IsBuffer
<1>3. CASE y = [x EXCEPT !.cp = 0]
  BY <1>3, ZeroTid DEF IsBuffer
<1>4. CASE x.d /\ y = [x EXCEPT !.d = FALSE, !.lk = TRUE]
  BY <1>4 DEF IsBuffer
<1> QED
  BY <1>1, <1>2, <1>3, <1>4 DEF Flagged

\* clear_buffer_dirty() and clear_buffer_jbddirty().
LEMMA WipeFields ==
  ASSUME NEW x, IsBuffer(x), NEW z, z = [x EXCEPT !.d = FALSE, !.jd = FALSE]
  PROVE  IsBuffer(z) /\ z.tr = x.tr /\ z.nxt = x.nxt /\ z.data = x.data /\ ~z.jd /\ ~z.d /\ (z.lk <=> x.lk)
<1>1. z.tr = x.tr /\ z.nxt = x.nxt /\ z.data = x.data /\ z.jl = x.jl /\ z.cp = x.cp
  BY DEF IsBuffer
<1>2. ~z.jd /\ ~z.d /\ (z.lk <=> x.lk)
  BY DEF IsBuffer
<1>3. /\ z = [data |-> z.data, tr |-> z.tr, nxt |-> z.nxt, jl |-> z.jl, jd |-> z.jd, d |-> z.d,
              fz |-> z.fz, cp |-> z.cp, lk |-> z.lk]
      /\ z.jd \in BOOLEAN /\ z.d \in BOOLEAN /\ z.lk \in BOOLEAN
  BY DEF IsBuffer
<1>4. IsBuffer(z)
  BY <1>1, <1>3 DEF IsBuffer
<1> QED
  BY <1>1, <1>2, <1>4

\* A forgotten buffer has nothing left to write.
LEMMA ForgetFields ==
  ASSUME NEW x, IsBuffer(x), NEW y, y = Forget(x)
  PROVE  /\ IsBuffer(y) /\ y.nxt = x.nxt /\ y.data = x.data
         /\ ~y.jd /\ ~y.d /\ (y.lk <=> x.lk)
         /\ (y.tr = x.tr /\ y.jl = "Forget") \/ (y.tr = 0 /\ y.jl = "None")
<1> DEFINE z == [x EXCEPT !.d = FALSE, !.jd = FALSE]
<1>1. IsBuffer(z) /\ z.tr = x.tr /\ z.nxt = x.nxt /\ z.data = x.data /\ ~z.jd /\ ~z.d /\ (z.lk <=> x.lk)
  BY WipeFields
<1>2. z.tr \in 0..MaxTid
  BY <1>1 DEF IsBuffer
<1>3. "Forget" \in Lists
  BY DEF Lists
<1>4. y = IF x.cp # 0 THEN File(z, z.tr, "Forget") ELSE Unfile(z)
  BY DEF Forget
<1> HIDE DEF z
<1>5. CASE x.cp # 0
  BY <1>1, <1>2, <1>3, <1>4, <1>5, FileFields
<1>6. CASE x.cp = 0
  BY <1>1, <1>4, <1>6, UnfileFields
<1> QED
  BY <1>5, <1>6

-----------------------------------------------------------------------------
(* Numbers *)

\* The smallest element of a set of naturals is one of them.
LEMMA MinIn ==
  ASSUME NEW I \in SUBSET Nat, I # {}
  PROVE  Min(I) \in I /\ \A i \in I : Min(I) <= i
<1> DEFINE R == {ss \in Nat \X Nat : ss[1] < ss[2]}
<1>1. IsWellFoundedOn(R, Nat)
  BY NatLessThanWellFounded, Zenon DEF OpToRel
<1>2. PICK x \in I : \A y \in I : ~(<<y, x>> \in R)
  BY <1>1, WFMin, Zenon
<1>3. \A y \in I : x =< y
  <2> TAKE y \in I
  <2>1. x \in Nat /\ y \in Nat /\ <<y, x>> \in Nat \X Nat
    OBVIOUS
  <2>2. ~(y < x)
    BY <2>1, <1>2
  <2> QED
    BY <2>1, <2>2
<1> QED
  BY <1>3 DEF Min

\* What is known of a quotient.
LEMMA DivFacts ==
  ASSUME NEW n \in Int, NEW r \in Nat \ {0}
  PROVE  n \div r \in Int /\ r * (n \div r) <= n /\ n < r * (n \div r) + r
OBVIOUS

\* More revocations need no fewer blocks.
LEMMA RevokeBlocksMonotone ==
  ASSUME NEW n \in Nat, NEW k \in Nat, n <= k
  PROVE  RevokeBlocks(n) \in Nat /\ RevokeBlocks(k) \in Nat /\ RevokeBlocks(n) <= RevokeBlocks(k)
<1> DEFINE R == RevokesPerBlock
           p == n + R - 1  q == k + R - 1  a == p \div R  b == q \div R
<1>1. p \in Nat /\ q \in Nat /\ p <= q /\ R \in Nat \ {0}
  BY JbdAssumption
<1>2. a \in Int /\ R * a <= p /\ p < R * a + R
  BY <1>1, DivFacts
<1>3. b \in Int /\ R * b <= q /\ q < R * b + R
  BY <1>1, DivFacts
<1>q. RevokeBlocks(n) = a /\ RevokeBlocks(k) = b
  BY DEF RevokeBlocks
<1> HIDE DEF a, b, p, q, R
<1>4. ASSUME NEW v \in Int, v < 0 PROVE R * v + R <= 0
  <2>1. v + 1 <= 0 /\ R * (v + 1) = R * v + R
    BY <1>1, <1>4
  <2>2. R * (v + 1) <= 0
    BY <1>1, <2>1
  <2> QED
    BY <2>1, <2>2
<1>5. a >= 0 /\ b >= 0
  <2>1. ~(a < 0)
    BY <1>1, <1>2, <1>4
  <2>2. ~(b < 0)
    BY <1>1, <1>3, <1>4
  <2> QED
    BY <1>2, <1>3, <2>1, <2>2
<1>6. a <= b
  <2> SUFFICES ASSUME b < a PROVE FALSE
    BY <1>2, <1>3
  <2>1. b - a \in Int /\ b - a < 0
    BY <1>2, <1>3
  <2>2. R * (b - a) + R <= 0
    BY <2>1, <1>4
  <2>3. R * (b - a) = R * b - R * a
    BY <1>1, <1>2, <1>3
  <2> QED
    BY <1>1, <1>2, <1>3, <2>2, <2>3
<1> QED
  BY <1>2, <1>3, <1>5, <1>6, <1>q

\* No revocations, no block.
LEMMA RevokeBlocksZero == RevokeBlocks(0) = 0
<1> DEFINE R == RevokesPerBlock  a == (R - 1) \div R
<1>1. R - 1 \in Int /\ R \in Nat \ {0}
  BY JbdAssumption
<1>2. a \in Int /\ R * a <= R - 1 /\ R - 1 < R * a + R
  BY <1>1, DivFacts
<1>q. RevokeBlocks(0) = a
  <2>1. 0 + R - 1 = R - 1
    BY <1>1
  <2> QED
    BY <2>1 DEF RevokeBlocks
<1> HIDE DEF a, R
<1>3. a > 0 => R * a >= R
  BY <1>1, <1>2
<1>4. a < 0 => R * a + R <= 0
  <2>1. R * (a + 1) = R * a + R
    BY <1>1, <1>2
  <2>2. a < 0 => R * (a + 1) <= 0
    BY <1>1, <1>2
  <2> QED
    BY <2>1, <2>2
<1>5. R * a \in Int
  BY <1>1, <1>2
<1> QED
  BY <1>1, <1>2, <1>3, <1>4, <1>5, <1>q

LEMMA WrapType ==
  ASSUME NEW p \in Int
  PROVE  Wrap(p) \in Int
BY JbdAssumption DEF Wrap

\* cleanup_journal_tail() never takes free space away.
LEMMA FreedSpace ==
  ASSUME NEW p \in Int
  PROVE  p % LogSize \in Nat
BY JbdAssumption

-----------------------------------------------------------------------------
(* Recovery finds a transaction number *)

\* What do_one_pass() keeps between two blocks, as far as types go.
ScanOK(w) == "seq" \in DOMAIN w /\ w.seq \in Nat

LEMMA ScanStepOK ==
  ASSUME NEW w, ScanOK(w)
  PROVE  ScanOK(ScanStep(w))
<1> DEFINE blk == log[w.pos]
<1>1. CASE w.tags # <<>>
  BY <1>1 DEF ScanOK, ScanStep
<1>2. CASE w.tags = <<>> /\ (w.end \/ ~Belongs(blk, w.seq))
  BY <1>2 DEF ScanOK, ScanStep
<1>3. CASE w.tags = <<>> /\ ~(w.end \/ ~Belongs(blk, w.seq))
  BY <1>3 DEF ScanOK, ScanStep
<1> QED
  BY <1>1, <1>2, <1>3

Scan0 == [pos |-> sb.start, seq |-> sb.seq, tags |-> <<>>, found |-> <<>>, revs |-> {},
          end |-> sb.start = 0]
IsScan(f, N) == f = [n \in 0..N |-> IF n = 0 THEN Scan0 ELSE ScanStep(f[n - 1])]

\* The recursion over the blocks of the log defines a function.
LEMMA ScanExists == \E f : IsScan(f, LogSize)
<1> DEFINE Bad == {n \in Nat : ~\E f : IsScan(f, n)}
<1> SUFFICES Bad = {}
  BY JbdAssumption
<1> SUFFICES ASSUME Bad # {} PROVE FALSE
  OBVIOUS
<1> DEFINE n == Min(Bad)
<1>1. n \in Bad /\ \A i \in Bad : n <= i
  <2> Bad \in SUBSET Nat
    OBVIOUS
  <2> HIDE DEF Bad
  <2> QED
    BY MinIn
<1>2. n \in Nat /\ ~\E f : IsScan(f, n)
  BY <1>1
<1> HIDE DEF n
<1>3. n # 0
  <2> SUFFICES ASSUME n = 0 PROVE FALSE
    OBVIOUS
  <2> DEFINE g == [i \in 0..0 |-> Scan0]
  <2>1. IsScan(g, 0)
    BY DEF IsScan
  <2> QED
    BY <2>1, <1>2
<1>4. n - 1 \in Nat /\ n - 1 \notin Bad
  BY <1>1, <1>2, <1>3
<1>5. PICK f : IsScan(f, n - 1)
  BY <1>4
<1> DEFINE g == [i \in 0..n |-> IF i = n THEN ScanStep(f[n - 1]) ELSE f[i]]
<1>6. ASSUME NEW i \in 0..n
      PROVE  g[i] = IF i = 0 THEN Scan0 ELSE ScanStep(g[i - 1])
  <2>1. CASE i = n
    <3>1. g[n] = ScanStep(f[n - 1]) /\ n - 1 \in 0..n /\ n - 1 # n
      BY <1>2, <1>4
    <3> QED
      BY <2>1, <3>1, <1>3
  <2>2. CASE i # n
    <3>1. i \in 0..(n - 1) /\ (i # 0 => i - 1 \in 0..n /\ i - 1 # n)
      BY <2>2, <1>2
    <3>2. f[i] = IF i = 0 THEN Scan0 ELSE ScanStep(f[i - 1])
      BY <3>1, <1>5 DEF IsScan
    <3> QED
      BY <2>2, <3>1, <3>2
  <2> QED
    BY <2>1, <2>2
<1>7. IsScan(g, n)
  BY <1>6 DEF IsScan
<1> QED
  BY <1>2, <1>7

\* The end of the log that recovery finds is a transaction number.
LEMMA RecoveryEnd ==
  ASSUME sb \in [start : Int, seq : Nat]
  PROVE  Recovery.end \in Nat
<1>1. CASE sb.start = 0
  BY <1>1 DEF Recovery
<1>2. CASE sb.start # 0
  <2> DEFINE scan == CHOOSE f : IsScan(f, LogSize)
  <2>1. IsScan(scan, LogSize)
    BY ScanExists
  <2>2. ScanLog = scan[LogSize]
    BY DEF ScanLog, IsScan, Scan0
  <2> HIDE DEF scan
  <2> DEFINE Bad == {n \in Nat : n <= LogSize /\ ~ScanOK(scan[n])}
  <2>3. Bad = {}
    <3> SUFFICES ASSUME Bad # {} PROVE FALSE
      OBVIOUS
    <3> DEFINE n == Min(Bad)
    <3>1. n \in Bad /\ \A i \in Bad : n <= i
      <4> Bad \in SUBSET Nat
        OBVIOUS
      <4> HIDE DEF Bad
      <4> QED
        BY MinIn
    <3>2. n \in Nat /\ n <= LogSize /\ ~ScanOK(scan[n])
      BY <3>1
    <3> HIDE DEF n
    <3>3. ScanOK(Scan0)
      BY DEF ScanOK, Scan0
    <3>4. n \in 0..LogSize
      BY <3>2, JbdAssumption
    <3>5. scan[n] = IF n = 0 THEN Scan0 ELSE ScanStep(scan[n - 1])
      BY <2>1, <3>4 DEF IsScan
    <3>6. n # 0
      BY <3>2, <3>3, <3>5
    <3>7. n - 1 \in Nat /\ n - 1 <= LogSize /\ n - 1 \notin Bad
      BY <3>1, <3>2, <3>6, JbdAssumption
    <3> QED
      BY <3>2, <3>5, <3>6, <3>7, ScanStepOK
  <2>4. ScanOK(scan[LogSize])
    BY <2>3, JbdAssumption
  <2> QED
    BY <1>2, <2>2, <2>4 DEF Recovery, ScanOK
<1> QED
  BY <1>1, <1>2

-----------------------------------------------------------------------------
(* Steps that leave the lists of the transactions alone *)

\* The list that a buffer is on, and what it holds.
Unmoved(x, y) == y.tr = x.tr /\ y.nxt = x.nxt /\ y.jl = x.jl
Calm(x, y) == y.data = x.data /\ (y.jd <=> x.jd) /\ (y.d => x.d) /\ (y.lk => x.lk \/ x.d)

LEMMA AheadCalm ==
  ASSUME NEW x, IsBuffer(x), NEW y, IsBuffer(y), Unmoved(x, y), Calm(x, y),
         NEW c \in Int, NEW d \in Int, c <= d, Ahead(x, c)
  PROVE  Ahead(y, d)
BY DEF Ahead, Unmoved, Calm, IsBuffer

LEMMA SameSets ==
  ASSUME \A b \in Block : Unmoved(buf[b], buf'[b]),
         j'.running = j.running, j'.committing = j.committing, access' = access, copying' = copying
  PROVE  /\ Unwritten' = Unwritten /\ Claims' = Claims
         /\ On(j.committing, "Metadata")' = On(j.committing, "Metadata")
BY DEF Unwritten, Claims, On, Unmoved

LEMMA Sizes ==
  ASSUME TypeInv
  PROVE  /\ IsFiniteSet(Unwritten) /\ Cardinality(Unwritten) \in Nat
         /\ IsFiniteSet(Claims) /\ Cardinality(Claims) \in Nat /\ Len(desc) \in Nat
         /\ \A m \in Nat : Needs(m) \in Int /\ m * TagsPerBlock \in Nat
         /\ IsFiniteSet(revoke) /\ IsFiniteSet(crevoke)
         /\ RevokeBlocks(Cardinality(crevoke)) \in Nat /\ RevokeBlocks(MaxRevoke) \in Nat
<1>1. IsFiniteSet(Unwritten) /\ IsFiniteSet(Claims)
  <2>1. Unwritten \subseteq Block /\ Claims \subseteq Block
    BY DEF TypeInv, Unwritten, Claims, On
  <2> QED
    BY <2>1, JbdAssumption, FS_Subset
<1>2. Cardinality(Unwritten) \in Nat /\ Cardinality(Claims) \in Nat
  BY <1>1, FS_CardinalityType
<1>3. Len(desc) \in Nat
  BY LenProperties DEF TypeInv
<1>5. IsFiniteSet(revoke) /\ IsFiniteSet(crevoke)
  BY JbdAssumption, FS_Subset DEF TypeInv
<1>6. RevokeBlocks(Cardinality(crevoke)) \in Nat /\ RevokeBlocks(MaxRevoke) \in Nat
  <2>1. Cardinality(crevoke) \in Nat /\ MaxRevoke \in Nat
    BY <1>5, FS_CardinalityType, JbdAssumption
  <2> QED
    BY <2>1, RevokeBlocksMonotone
<1>4. ASSUME NEW m \in Nat PROVE Needs(m) \in Int /\ m * TagsPerBlock \in Nat
  BY <1>2, <1>6, JbdAssumption DEF Needs
<1> QED
  BY <1>1, <1>2, <1>3, <1>4, <1>5, <1>6

\* A smaller set of revocations is still within its bound.
LEMMA FewerRevoked ==
  ASSUME TypeInv, SizeInv, revoke' \subseteq revoke
  PROVE  revoke' \subseteq Block /\ Cardinality(revoke') <= MaxRevoke
<1>1. IsFiniteSet(revoke)
  BY Sizes
<1>2. IsFiniteSet(revoke') /\ Cardinality(revoke') <= Cardinality(revoke)
  BY <1>1, FS_Subset
<1>3. Cardinality(revoke) \in Nat /\ Cardinality(revoke') \in Nat /\ MaxRevoke \in Nat
  BY <1>1, <1>2, FS_CardinalityType, JbdAssumption
<1>4. Cardinality(revoke) <= MaxRevoke
  BY DEF SizeInv
<1> QED
  BY <1>2, <1>3, <1>4 DEF TypeInv

\* The revocations of the committing transaction fit into the blocks reckoned with.
LEMMA RevokesFit ==
  ASSUME TypeInv, SizeInv
  PROVE  /\ RevokeBlocks(Cardinality(crevoke)) \in Nat /\ RevokeBlocks(MaxRevoke) \in Nat
         /\ RevokeBlocks(Cardinality(crevoke)) <= RevokeBlocks(MaxRevoke)
<1>1. Cardinality(crevoke) \in Nat /\ MaxRevoke \in Nat
  BY Sizes, FS_CardinalityType, JbdAssumption
<1>2. Cardinality(crevoke) <= MaxRevoke
  BY DEF SizeInv
<1> QED
  BY <1>1, <1>2, RevokeBlocksMonotone

\* Writes home, checkpointing and the log's tail.
LEMMA Steady ==
  ASSUME IInv, JournalType', BufferType',
         \A b \in Block : Unmoved(buf[b], buf'[b]) /\ Calm(buf[b], buf'[b]),
         j'.running = j.running, j'.committing = j.committing, j'.nextTid = j.nextTid,
         j'.free >= j.free,
         Orderly => \A b \in Opening : ~buf'[b].lk,
         UNCHANGED <<access, stage, desc, copying, revoke, crevoke, mode, use, freedBy, stable>>
  PROVE  /\ ControlInv' /\ DescInv' /\ ListInv' /\ SizeInv'
         /\ (Ample => SpaceInv)'
         /\ (Orderly => AheadInv)'
<1>0. TypeInv /\ JournalType /\ BufferType /\ ControlInv /\ DescInv /\ ListInv /\ SizeInv
  BY DEF IInv, TypeInv
<1>1. /\ Unwritten' = Unwritten /\ Claims' = Claims
      /\ On(j.committing, "Metadata")' = On(j.committing, "Metadata")
  BY SameSets
<1>2. ControlInv'
  BY <1>0 DEF ControlInv
<1>3. DescInv'
  BY <1>0, <1>1 DEF DescInv
<1>4. ListInv'
  <2> SUFFICES ASSUME NEW b \in Block
               PROVE  /\ Filed(buf'[b], j'.running, j'.committing, CommitLists')
                      /\ b \in access' => buf'[b].tr = 0 \/ j'.running \in {buf'[b].tr, buf'[b].nxt}
                      /\ use'[b] = FREE =>
                           b \notin access' /\ buf'[b].nxt = 0 /\ buf'[b].tr <= freedBy'[b]
    BY DEF ListInv
  <2>1. CommitLists' = CommitLists
    BY DEF CommitLists
  <2>2. Unmoved(buf[b], buf'[b])
    OBVIOUS
  <2> QED
    BY <1>0, <2>1, <2>2 DEF ListInv, Unmoved, Filed
<1>5. SizeInv'
  BY <1>0, <1>1 DEF SizeInv
<1>6. ASSUME Ample PROVE SpaceInv'
  <2>1. SpaceInv
    BY <1>6 DEF IInv
  <2>2. (Writing' <=> Writing) /\ \A m \in Nat : Needs(m)' = Needs(m) /\ (Suffices(m)' <=> Suffices(m))
    BY <1>1 DEF Writing, Needs, Suffices
  <2>3. j.free \in Int /\ j'.free \in Int /\ MaxTransaction \in Nat /\ \A m \in Nat : Needs(m) \in Int
    BY <1>0, Sizes, JbdAssumption DEF JournalType
  <2>4. RevokeBlocks(MaxRevoke) \in Nat
    BY <1>0, Sizes
  <2> QED
    BY <2>1, <2>2, <2>3, <2>4 DEF SpaceInv
<1>7. ASSUME Orderly PROVE AheadInv'
  <2>o. Opening' = Opening
    BY DEF Opening, Unmoved, IInv, TypeInv
  <2> SUFFICES ASSUME NEW b \in Block PROVE Ahead(buf'[b], Committed')
    BY <1>7, <2>o DEF AheadInv
  <2>1. Committed' = Committed /\ Committed \in Int
    BY <1>0 DEF Committed, TypeInv, JournalType
  <2>2. Ahead(buf[b], Committed)
    BY <1>7 DEF IInv, AheadInv
  <2>3. IsBuffer(buf[b]) /\ IsBuffer(buf'[b])
    BY <1>0 DEF BufferType
  <2> QED
    BY <2>1, <2>2, <2>3, AheadCalm
<1> QED
  BY <1>2, <1>3, <1>4, <1>5, <1>6, <1>7 DEF Ample, Orderly

\* One buffer's flags change, or several buffers'.
LEMMA SteadyBuffers ==
  ASSUME IInv, DOMAIN buf' = Block,
         \A b \in Block : \/ buf'[b] = buf[b]
                          \/ buf'[b] = [buf[b] EXCEPT !.d = FALSE]
                          \/ buf'[b] = [buf[b] EXCEPT !.lk = FALSE]
                          \/ buf'[b] = [buf[b] EXCEPT !.cp = 0]
                          \/ buf'[b] = Submit(buf[b]) /\ (Orderly => b \notin Opening),
         UNCHANGED <<sb, sbio, j, access, start, stage, desc, copying, revoke, crevoke, mode, use, freedBy, stable>>
  PROVE  IInv'
<1>0. TypeInv /\ JournalType /\ BufferType
  BY DEF IInv, TypeInv
<1>1. ASSUME NEW b \in Block
      PROVE  IsBuffer(buf'[b]) /\ Unmoved(buf[b], buf'[b]) /\ Calm(buf[b], buf'[b])
  <2>1. IsBuffer(buf[b])
    BY <1>0 DEF BufferType
  <2>2. buf[b].d \in BOOLEAN
    BY <2>1 DEF IsBuffer
  <2>3. \/ buf'[b] = buf[b]
        \/ buf'[b] = [buf[b] EXCEPT !.d = FALSE]
        \/ buf'[b] = [buf[b] EXCEPT !.lk = FALSE]
        \/ buf'[b] = [buf[b] EXCEPT !.cp = 0]
        \/ buf[b].d /\ buf'[b] = [buf[b] EXCEPT !.d = FALSE, !.lk = TRUE] /\ (Orderly => b \notin Opening)
    BY <2>2 DEF Submit
  <2>4. CASE buf'[b] = buf[b]
    BY <2>1, <2>4 DEF Unmoved, Calm
  <2>5. CASE buf'[b] # buf[b]
    <3>1. Flagged(buf[b], buf'[b])
      BY <2>3, <2>5 DEF Flagged
    <3> QED
      BY <2>1, <3>1, FlagFields DEF Unmoved, Calm
  <2> QED
    BY <2>4, <2>5
<1>2. JournalType' /\ BufferType' /\ TypeInv'
  BY <1>0, <1>1 DEF JournalType, BufferType, TypeInv
<1>3. j'.free >= j.free
  BY <1>0 DEF JournalType
<1>5. ASSUME Orderly, NEW b \in Opening PROVE ~buf'[b].lk
  <2>1. b \in Block /\ ~buf[b].lk /\ IsBuffer(buf[b])
    BY <1>0, <1>5 DEF IInv, AheadInv, Opening, TypeInv, BufferType
  <2> QED
    BY <1>5, <2>1 DEF IsBuffer
<1>4. /\ ControlInv' /\ DescInv' /\ ListInv' /\ SizeInv'
      /\ (Ample => SpaceInv)'
      /\ (Orderly => AheadInv)'
  BY <1>1, <1>2, <1>3, <1>5, Steady
<1> QED
  BY <1>2, <1>4 DEF IInv

LEMMA WritebackInv ==
  ASSUME IInv, NEW b \in Block, Writeback(b)
  PROVE  IInv'
<1>1. DOMAIN buf = Block
  BY DEF IInv, TypeInv, BufferType
<1>2. buf' = [buf EXCEPT ![b] = Submit(@)]
  BY DEF Writeback
<1>3. Orderly => b \notin Opening
  BY DEF Writeback, Orderly
<1>4. DOMAIN buf' = Block /\ \A c \in Block : buf'[c] = buf[c] \/ (buf'[c] = Submit(buf[c]) /\ (Orderly => c \notin Opening))
  BY <1>1, <1>2, <1>3
<1> QED
  BY <1>4, SteadyBuffers DEF Writeback, disk, commit, fs, machine

LEMMA WriteDoneInv ==
  ASSUME IInv, NEW b \in Block, WriteDone(b)
  PROVE  IInv'
<1>1. DOMAIN buf = Block
  BY DEF IInv, TypeInv, BufferType
<1>2. buf' = [buf EXCEPT ![b].lk = FALSE]
  BY DEF WriteDone
<1>3. DOMAIN buf' = Block /\ \A c \in Block : buf'[c] = buf[c] \/ buf'[c] = [buf[c] EXCEPT !.lk = FALSE]
  BY <1>1, <1>2
<1> QED
  BY <1>3, SteadyBuffers DEF WriteDone, disk, commit, fs, machine

LEMMA WriteDataInv ==
  ASSUME IInv, NEW b \in Block, WriteData(b)
  PROVE  IInv'
<1>1. DOMAIN buf' = Block /\ \A c \in Block : buf'[c] = buf[c]
  BY DEF IInv, TypeInv, BufferType, WriteData
<1> QED
  BY <1>1, SteadyBuffers DEF WriteData, disk, commit, fs, machine

LEMMA ProcessInv ==
  ASSUME IInv, NEW b \in Block, __process_buffer(b)
  PROVE  IInv'
<1>1. DOMAIN buf = Block
  BY DEF IInv, TypeInv, BufferType
<1>2. buf' = buf \/ buf' = [buf EXCEPT ![b].cp = 0]
  BY DEF __process_buffer
<1>3. DOMAIN buf' = Block /\ \A c \in Block : buf'[c] = buf[c] \/ buf'[c] = [buf[c] EXCEPT !.cp = 0]
  BY <1>1, <1>2
<1> QED
  BY <1>3, SteadyBuffers DEF __process_buffer, disk, commit, fs, machine

LEMMA FlushBatchInv ==
  ASSUME IInv, __flush_batch
  PROVE  IInv'
<1>1. DOMAIN buf' = Block /\ \A c \in Block : buf'[c] = buf[c] \/ (buf'[c] = Submit(buf[c]) /\ (Orderly => c \notin Opening))
  BY DEF __flush_batch, Orderly
<1> QED
  BY <1>1, SteadyBuffers DEF __flush_batch, disk, commit, fs, machine

LEMMA WaitInv ==
  ASSUME IInv, NEW b \in Block, __wait_cp_io(b)
  PROVE  IInv'
<1>1. DOMAIN buf = Block
  BY DEF IInv, TypeInv, BufferType
<1>2. buf' = [buf EXCEPT ![b].cp = 0]
  BY DEF __wait_cp_io
<1>3. DOMAIN buf' = Block /\ \A c \in Block : buf'[c] = buf[c] \/ buf'[c] = [buf[c] EXCEPT !.cp = 0]
  BY <1>1, <1>2
<1> QED
  BY <1>3, SteadyBuffers DEF __wait_cp_io, disk, commit, fs, machine

LEMMA RecoveryCrashInv ==
  ASSUME IInv, RecoveryCrash
  PROVE  IInv'
<1>1. DOMAIN buf' = Block /\ \A c \in Block : buf'[c] = buf[c]
  BY DEF IInv, TypeInv, BufferType, RecoveryCrash
<1> QED
  BY <1>1, SteadyBuffers DEF RecoveryCrash, disk, commit, fs, machine

\* The log's tail and the superblock.
LEMMA SteadyLog ==
  ASSUME IInv, JournalType', sb' \in [start : Int, seq : Nat], sbio' \in [start : Int, seq : Nat],
         j'.running = j.running, j'.committing = j.committing, j'.nextTid = j.nextTid,
         j'.free >= j.free,
         UNCHANGED <<buf, access, start, stage, desc, copying, revoke, crevoke, mode, use, freedBy, stable>>
  PROVE  IInv'
<1>0. TypeInv /\ BufferType
  BY DEF IInv, TypeInv
<1>1. BufferType' /\ TypeInv'
  BY <1>0 DEF BufferType, TypeInv
<1>2. \A b \in Block : Unmoved(buf[b], buf'[b]) /\ Calm(buf[b], buf'[b])
  BY DEF Unmoved, Calm
<1>4. Orderly => \A b \in Opening : ~buf'[b].lk
  BY <1>0 DEF IInv, AheadInv, Opening, TypeInv
<1>3. /\ ControlInv' /\ DescInv' /\ ListInv' /\ SizeInv'
      /\ (Ample => SpaceInv)'
      /\ (Orderly => AheadInv)'
  BY <1>1, <1>2, <1>4, Steady
<1> QED
  BY <1>1, <1>3 DEF IInv

LEMMA CleanupTailInv ==
  ASSUME IInv, cleanup_journal_tail
  PROVE  IInv'
<1>0. TypeInv /\ JournalType /\ BufferType
  BY DEF IInv, TypeInv
<1>1. Checkpoints \subseteq 0..MaxTid
  BY <1>0 DEF Checkpoints, BufferType, IsBuffer
<1>2. Tid \in Nat
  BY <1>0 DEF Tid, JournalType
<1>3. OldestTid \in Nat /\ (Checkpoints # {} \/ j.committing # 0 => OldestTid \in 0..MaxTid)
  <2>1. CASE Checkpoints # {}
    <3>1. Checkpoints \in SUBSET Nat
      BY <1>1
    <3>2. Min(Checkpoints) \in Checkpoints
      BY <2>1, <3>1, MinIn
    <3>3. OldestTid = Min(Checkpoints)
      BY <2>1 DEF OldestTid
    <3>4. OldestTid \in 0..MaxTid
      BY <1>1, <3>2, <3>3
    <3>5. 0..MaxTid \subseteq Nat
      BY ZeroTid
    <3> QED
      BY <3>4, <3>5
  <2>2. CASE Checkpoints = {}
    BY <1>0, <1>2, <2>2 DEF OldestTid, JournalType
  <2> QED
    BY <2>1, <2>2
<1>4. OldestBlock \in Int
  BY <1>0, <1>3 DEF OldestBlock, TypeInv, JournalType
<1>5. (OldestBlock - j.tail) % LogSize \in Nat
  BY <1>0, <1>4, FreedSpace DEF JournalType
<1>6. j' = [j EXCEPT !.free = @ + ((OldestBlock - j.tail) % LogSize),
                     !.tailSeq = OldestTid, !.tail = OldestBlock]
  BY DEF cleanup_journal_tail
<1>7. /\ JournalType' /\ j'.free >= j.free
      /\ j'.running = j.running /\ j'.committing = j.committing /\ j'.nextTid = j.nextTid
  <2> DEFINE f == (OldestBlock - j.tail) % LogSize
  <2>1. j' = [j EXCEPT !.free = @ + f, !.tailSeq = OldestTid, !.tail = OldestBlock] /\ f \in Nat
    BY <1>5, <1>6
  <2>2. OldestTid \in Nat
    BY <1>3
  <2> HIDE DEF f
  <2>3. j.free + f \in Int /\ j.free + f >= j.free
    BY <1>0, <2>1 DEF JournalType
  <2>4. j' = [head |-> j.head, free |-> j.free + f, tail |-> OldestBlock, tailSeq |-> OldestTid,
              nextTid |-> j.nextTid, running |-> j.running, committing |-> j.committing,
              flushed |-> j.flushed]
    BY <1>0, <2>1 DEF JournalType
  <2> QED
    BY <1>0, <2>2, <1>4, <2>3, <2>4 DEF JournalType
<1>8. sb' \in [start : Int, seq : Nat] /\ sbio' \in [start : Int, seq : Nat]
  BY <1>0, <1>3, <1>4 DEF cleanup_journal_tail, TypeInv, NoSb, disk
<1> QED
  BY <1>7, <1>8, SteadyLog DEF cleanup_journal_tail, disk, commit, fs, machine

LEMMA SuperblockInv ==
  ASSUME IInv, SuperblockDone \/ journal_flush
  PROVE  IInv'
<1>0. TypeInv /\ JournalType
  BY DEF IInv, TypeInv
<1>1. /\ JournalType' /\ j'.free >= j.free
      /\ j'.running = j.running /\ j'.committing = j.committing /\ j'.nextTid = j.nextTid
  <2>1. PICK v \in BOOLEAN : j' = [j EXCEPT !.flushed = v]
    BY DEF SuperblockDone, journal_flush
  <2> QED
    BY <1>0, <2>1 DEF JournalType
<1>2. sb' \in [start : Int, seq : Nat] /\ sbio' \in [start : Int, seq : Nat]
  BY <1>0 DEF SuperblockDone, journal_flush, TypeInv, JournalType, NoSb
<1> QED
  BY <1>1, <1>2, SteadyLog DEF SuperblockDone, journal_flush, commit, fs, machine

-----------------------------------------------------------------------------
(* Handles *)

\* Eight tags in a descriptor are enough for an eighth of the blocks.
LEMMA EighthSuffices ==
  ASSUME NEW n \in Nat, TagsPerBlock >= 8
  PROVE  n \div 8 + 1 \in Nat /\ n <= (n \div 8 + 1) * TagsPerBlock
<1>1. n \div 8 \in Nat /\ n <= (n \div 8 + 1) * 8
  OBVIOUS
<1> DEFINE q == n \div 8 + 1
<1>2. q \in Nat /\ n <= q * 8
  BY <1>1
<1> HIDE DEF q
<1>3. q * 8 <= q * TagsPerBlock
  BY <1>2, JbdAssumption
<1>4. q * TagsPerBlock \in Nat
  BY <1>2, JbdAssumption
<1>5. n <= q * TagsPerBlock
  BY <1>2, <1>3, <1>4
<1> QED
  BY <1>2, <1>5 DEF q

\* What __log_space_left() holds back is enough for the control blocks of two
\* transactions of n and of c buffers.
LEMMA SpareBlocks ==
  ASSUME Ample, JournalType, NEW n \in Nat \ {0}, NEW c \in Nat, __log_space_left >= n + c
  PROVE  \E k, m \in Nat : /\ n <= k * TagsPerBlock /\ c <= m * TagsPerBlock
                           /\ j.free >= n + c + k + m + 3 + 2 * RevokeBlocks(MaxRevoke)
<1> DEFINE R == RevokeBlocks(MaxRevoke)
           k == n \div 8 + 1  m == c \div 8 + 1  left == j.free - Reserved
<1>1. /\ k \in Nat /\ n <= k * TagsPerBlock
      /\ m \in Nat /\ c <= m * TagsPerBlock
  BY EighthSuffices DEF Ample
<1>r. R \in Nat
  BY RevokeBlocksMonotone, JbdAssumption
<1>2. left \in Int /\ j.free = left + Reserved /\ Reserved >= 5 + 2 * R /\ Reserved \in Nat
  BY JbdAssumption DEF JournalType, Ample
<1> HIDE DEF R
<1>3. left > 0 /\ left - (left \div 8) >= n + c
  BY <1>2 DEF __log_space_left
<1> HIDE DEF left
<1>4. left >= n + c + (n \div 8) + (c \div 8)
  <2>1. left \div 8 \in Nat /\ left \div 8 >= (n \div 8) + (c \div 8)
    BY <1>2, <1>3
  <2> QED
    BY <1>2, <1>3, <2>1
<1>5. j.free >= n + c + k + m + 3 + 2 * R
  BY <1>2, <1>4, <1>r
<1> HIDE DEF k, m
<1> QED
  BY <1>1, <1>5 DEF R

\* What start_this_handle() does to the journal.
LEMMA Started ==
  ASSUME TypeInv, ControlInv, NEW b \in Block, StartHandle(b)
  PROVE  /\ JournalType' /\ Tid \in 1..MaxTid
         /\ j'.running = Tid /\ j'.committing = j.committing /\ j'.free = j.free
         /\ j'.nextTid >= j.nextTid /\ Tid < j'.nextTid
         /\ j.committing < Tid /\ stable < Tid
         /\ j.running # 0 => Tid = j.running
         /\ stage # "locked" /\ mode = "up"
<1>0. JournalType /\ stable \in Int
  BY DEF TypeInv
<1>1. /\ mode = "up" /\ stage # "locked" /\ Tid <= MaxTid
      /\ j' = [j EXCEPT !.running = Tid, !.nextTid = IF j.running = 0 THEN @ + 1 ELSE @]
  BY DEF StartHandle
<1>2. /\ j.running \in 0..MaxTid /\ j.committing \in 0..MaxTid /\ j.nextTid \in Nat /\ MaxTid \in Nat
  BY <1>0, ZeroTid DEF JournalType
<1>3. /\ j.running # 0 => j.running < j.nextTid /\ j.committing < j.running /\ stable < j.running
      /\ j.committing # 0 => j.committing < j.nextTid
      /\ stable < j.nextTid /\ 0 < j.nextTid
  BY <1>1 DEF ControlInv
<1>4. /\ Tid \in 1..MaxTid /\ j.committing < Tid /\ stable < Tid
      /\ j.running # 0 => Tid = j.running
      /\ j.running = 0 => Tid = j.nextTid
  BY <1>0, <1>1, <1>2, <1>3 DEF Tid
<1>5. /\ JournalType'
      /\ j'.running = Tid /\ j'.committing = j.committing /\ j'.free = j.free
      /\ j'.nextTid = IF j.running = 0 THEN j.nextTid + 1 ELSE j.nextTid
  <2> DEFINE t == Tid  n == IF j.running = 0 THEN j.nextTid + 1 ELSE j.nextTid
  <2>1. t \in 0..MaxTid /\ n \in Nat
    BY <1>2, <1>4
  <2>2. j' = [j EXCEPT !.running = t, !.nextTid = n]
    BY <1>1
  <2> HIDE DEF t, n
  <2>3. j' = [head |-> j.head, free |-> j.free, tail |-> j.tail, tailSeq |-> j.tailSeq,
              nextTid |-> n, running |-> t, committing |-> j.committing, flushed |-> j.flushed]
    BY <1>0, <2>2 DEF JournalType
  <2>4. JournalType'
    BY <1>0, <2>1, <2>3 DEF JournalType
  <2> QED
    BY <2>3, <2>4 DEF t, n
<1> QED
  BY <1>1, <1>2, <1>3, <1>4, <1>5

\* A handle for block b: the other blocks stay where they are, and the log has
\* the space for all that the running transaction may become.
LEMMA HandleInv ==
  ASSUME IInv, NEW b \in Block, StartHandle(b),
         DOMAIN buf' = Block, IsBuffer(buf'[b]),
         \A c \in Block : c # b => buf'[c] = buf[c] /\ use'[c] = use[c] /\ freedBy'[c] = freedBy[c],
         \/ buf'[b].tr = buf[b].tr /\ buf'[b].jl = buf[b].jl
         \/ {buf[b].tr, buf'[b].tr} \subseteq {0, Tid},
         Filed(buf'[b], Tid, j.committing, CommitLists),
         b \in access' => buf'[b].tr = 0 \/ Tid \in {buf'[b].tr, buf'[b].nxt},
         use'[b] = FREE => b \notin access' /\ buf'[b].nxt = 0 /\ buf'[b].tr <= freedBy'[b],
         Orderly => Ahead(buf'[b], Committed) /\ (b \in access' /\ buf'[b].tr = 0 => ~buf'[b].lk),
         revoke' \subseteq Block, Cardinality(revoke') <= MaxRevoke,
         access' \subseteq access \cup {b}, DOMAIN use' = Block, freedBy' \in [Block -> Nat],
         UNCHANGED <<sb, sbio, start, stage, desc, copying, crevoke, mode, stable>>
  PROVE  IInv'
<1>0. /\ TypeInv /\ ControlInv /\ DescInv /\ ListInv /\ SizeInv /\ JournalType /\ BufferType
      /\ access \subseteq Block
  BY DEF IInv, TypeInv
<1>s. /\ JournalType' /\ Tid \in 1..MaxTid
      /\ j'.running = Tid /\ j'.committing = j.committing /\ j'.free = j.free
      /\ j'.nextTid >= j.nextTid /\ Tid < j'.nextTid
      /\ j.committing < Tid /\ stable < Tid
      /\ j.running # 0 => Tid = j.running
      /\ stage # "locked" /\ mode = "up"
  BY <1>0, Started
<1>t. /\ j.running \in 0..MaxTid /\ j.committing \in 0..MaxTid /\ j.nextTid \in Nat
      /\ j'.nextTid \in Nat /\ stable \in Int /\ j.free \in Int /\ MaxTid \in Nat
  BY <1>0, <1>s, ZeroTid DEF JournalType, TypeInv
<1>l. \A c \in Block : /\ Filed(buf[c], j.running, j.committing, CommitLists)
                       /\ c \in access => buf[c].tr = 0 \/ j.running \in {buf[c].tr, buf[c].nxt}
                       /\ use[c] = FREE => c \notin access /\ buf[c].nxt = 0 /\ buf[c].tr <= freedBy[c]
  BY <1>0 DEF ListInv
<1>1. TypeInv'
  <2>1. BufferType'
    <3> SUFFICES ASSUME NEW c \in Block PROVE IsBuffer(buf'[c])
      BY DEF BufferType
    <3>1. IsBuffer(buf[c])
      BY <1>0 DEF BufferType
    <3> QED
      BY <3>1
  <2>2. access' \subseteq Block
    BY <1>0
  <2> QED
    BY <1>0, <1>s, <2>1, <2>2 DEF TypeInv
<1>2. ControlInv'
  BY <1>0, <1>s, <1>t DEF ControlInv
<1>3. Unwritten' = Unwritten /\ On(j.committing, "Metadata")' = On(j.committing, "Metadata")
  <2> SUFFICES ASSUME NEW c \in Block
               PROVE  /\ buf'[c].tr = j.committing /\ buf'[c].jl = "Metadata" <=>
                           buf[c].tr = j.committing /\ buf[c].jl = "Metadata"
    BY <1>s DEF Unwritten, On
  <2>1. CASE c # b
    BY <2>1
  <2>2. CASE c = b
    <3>1. Filed(buf[b], j.running, j.committing, CommitLists)
      BY <1>l
    <3>2. /\ buf[b].tr = 0 => buf[b].jl # "Metadata"
          /\ buf'[b].tr = 0 => buf'[b].jl # "Metadata"
      BY <3>1 DEF Filed
    <3> QED
      BY <2>2, <3>2, <1>s, <1>t
  <2> QED
    BY <2>1, <2>2
<1>4. DescInv'
  BY <1>0, <1>3 DEF DescInv
<1>5. ListInv'
  <2> SUFFICES ASSUME NEW c \in Block
               PROVE  /\ Filed(buf'[c], j'.running, j'.committing, CommitLists')
                      /\ c \in access' => buf'[c].tr = 0 \/ j'.running \in {buf'[c].tr, buf'[c].nxt}
                      /\ use'[c] = FREE =>
                           c \notin access' /\ buf'[c].nxt = 0 /\ buf'[c].tr <= freedBy'[c]
    BY DEF ListInv
  <2>1. CommitLists' = CommitLists
    BY DEF CommitLists
  <2>2. CASE c = b
    BY <2>1, <2>2, <1>s
  <2>3. CASE c # b
    <3>1. /\ buf'[c] = buf[c] /\ use'[c] = use[c] /\ freedBy'[c] = freedBy[c]
          /\ c \in access' => c \in access
      BY <2>3
    <3>2. /\ Filed(buf[c], j.running, j.committing, CommitLists)
          /\ c \in access => buf[c].tr = 0 \/ j.running \in {buf[c].tr, buf[c].nxt}
          /\ use[c] = FREE => c \notin access /\ buf[c].nxt = 0 /\ buf[c].tr <= freedBy[c]
      BY <1>l
    <3>3. CASE j.running # 0
      BY <2>1, <3>1, <3>2, <3>3, <1>s
    <3>4. CASE j.running = 0
      <4>1. access = {}
        BY <1>0, <3>4 DEF ControlInv
      <4>2. Filed(buf[c], Tid, j.committing, CommitLists)
        BY <3>2, <3>4, <1>s, <1>t DEF Filed
      <4> QED
        BY <2>1, <3>1, <3>2, <4>1, <4>2, <1>s
    <3> QED
      BY <3>3, <3>4
  <2> QED
    BY <2>2, <2>3
<1>6. SizeInv'
  <2> DEFINE C == {c \in Block : buf[c].nxt = Tid} \cup On(Tid, "Metadata") \cup access \cup {b}
  <2>1. Cardinality(C) <= MaxTransaction
    BY DEF StartHandle
  <2>2. Claims' \subseteq C
    <3> SUFFICES ASSUME NEW c \in Claims', c # b PROVE c \in C
      OBVIOUS
    <3>1. c \in Block /\ (buf'[c].nxt = Tid \/ (buf'[c].tr = Tid /\ buf'[c].jl = "Metadata") \/ c \in access')
      BY <1>0, <1>s DEF Claims, On
    <3> QED
      BY <3>1 DEF On
  <2>3. IsFiniteSet(C)
    <3>1. C \subseteq Block
      BY <1>0 DEF On
    <3> QED
      BY <3>1, JbdAssumption, FS_Subset
  <2>4. Cardinality(Claims') <= Cardinality(C) /\ Cardinality(Claims') \in Nat /\ Cardinality(C) \in Nat
    <3> HIDE DEF C
    <3>1. IsFiniteSet(Claims') /\ Cardinality(Claims') <= Cardinality(C)
      BY <2>2, <2>3, FS_Subset
    <3> QED
      BY <2>3, <3>1, FS_CardinalityType
  <2>5. Cardinality(Claims)' <= MaxTransaction
    <3> HIDE DEF C
    <3> QED
      BY <2>1, <2>4, JbdAssumption
  <2>6. j'.committing # 0 => Cardinality(Unwritten') <= MaxTransaction
    BY <1>0, <1>3, <1>s DEF SizeInv
  <2> QED
    BY <1>0, <2>5, <2>6 DEF SizeInv
<1>7. ASSUME Ample PROVE SpaceInv'
  <2>1. SpaceInv
    BY <1>7 DEF IInv
  <2>2. /\ (Writing' <=> Writing)
        /\ \A m \in Nat : Needs(m)' = Needs(m) /\ (Suffices(m)' <=> Suffices(m))
    BY <1>3 DEF Writing, Needs, Suffices
  <2>3. CASE j.running # 0
    BY <2>1, <2>2, <2>3, <1>s DEF SpaceInv
  <2>4. CASE j.running = 0
    <3> DEFINE u == Cardinality(Unwritten)  l == Len(desc)
    <3>1. u \in Nat /\ l \in Nat /\ \A m \in Nat : Needs(m) \in Int /\ m * TagsPerBlock \in Nat
      BY <1>0, Sizes
    <3>2. /\ __log_space_left >= MaxTransaction + (IF j.committing = 0 THEN 0 ELSE u)
          /\ MaxTransaction \in Nat \ {0} /\ TagsPerBlock \in Nat \ {0}
      BY JbdAssumption DEF StartHandle, jbd_space_needed, Credits, Unwritten
    <3>3. Writing => j.committing # 0
      BY <1>0 DEF Writing, ControlInv
    <3> DEFINE c == IF j.committing = 0 THEN 0 ELSE u
    <3>4. c \in Nat /\ (Writing => c = u)
      BY <3>1, <3>3
    <3> HIDE DEF c
    <3>5. __log_space_left >= MaxTransaction + c
      BY <3>2 DEF c
    <3>6. PICK k, m \in Nat : /\ MaxTransaction <= k * TagsPerBlock /\ c <= m * TagsPerBlock
                              /\ j.free >= MaxTransaction + c + k + m + 3 + 2 * RevokeBlocks(MaxRevoke)
      BY <1>0, <1>7, <3>2, <3>4, <3>5, SpareBlocks
    <3> DEFINE d == IF desc = <<>> THEN m ELSE m + 1
               r == RevokeBlocks(Cardinality(crevoke))  R == RevokeBlocks(MaxRevoke)
    <3>r. r \in Nat /\ R \in Nat /\ r <= R
      BY <1>0, RevokesFit
    <3>7. d \in Nat
      OBVIOUS
    <3>8. Writing => Suffices(d) /\ Needs(d) <= c + m + R + 1
      <4> SUFFICES ASSUME Writing PROVE Suffices(d) /\ Needs(d) <= c + m + R + 1
        OBVIOUS
      <4>1. CASE desc = <<>>
        <5>1. l = 0
          BY <4>1
        <5>2. d = m
          BY <4>1
        <5>3. Needs(m) = u + m + r + 1
          BY <4>1 DEF Needs
        <5>4. u = c /\ u \in Nat
          BY <3>1, <3>4
        <5>6. Needs(m) <= u + m + R + 1
          <6> HIDE DEF u, r, R
          <6> QED
            BY <3>r, <5>3, <5>4
        <5>5. Suffices(m)
          BY <3>1, <3>4, <3>6, <5>1 DEF Suffices
        <5> QED
          BY <5>2, <5>4, <5>5, <5>6
      <4>2. CASE desc # <<>>
        <5>1. l <= TagsPerBlock
          BY <1>0, <3>1, <3>2 DEF DescInv
        <5>2. (m + 1) * TagsPerBlock = m * TagsPerBlock + TagsPerBlock
          BY <3>2
        <5>3. u + l <= (m + 1) * TagsPerBlock
          BY <3>1, <3>2, <3>4, <3>6, <5>1, <5>2
        <5>4. d = m + 1
          BY <4>2
        <5>5. Needs(m + 1) = u + (m + 1 - 1) + r + 1
          BY <4>2 DEF Needs
        <5>8. u = c /\ u \in Nat
          BY <3>1, <3>4
        <5>6. Needs(m + 1) <= u + m + R + 1
          <6> HIDE DEF u, r, R
          <6> QED
            BY <3>r, <5>5, <5>8
        <5>7. Suffices(m + 1)
          BY <5>3 DEF Suffices
        <5> QED
          BY <5>4, <5>6, <5>7, <5>8
      <4> QED
        BY <4>1, <4>2
    <3>9. j.free > (IF Writing THEN Needs(d) ELSE 0) + MaxTransaction + k + RevokeBlocks(MaxRevoke) + 1
      <4> HIDE DEF d, r, R
      <4>1. Needs(d) \in Int
        BY <3>1, <3>7
      <4>2. /\ j.free >= MaxTransaction + c + k + m + 3 + 2 * R
            /\ Writing => Needs(d) <= c + m + R + 1
        BY <3>6, <3>8 DEF R
      <4>3. j.free > (IF Writing THEN Needs(d) ELSE 0) + MaxTransaction + k + R + 1
        BY <4>1, <4>2, <3>2, <3>4, <3>r, <1>t
      <4> QED
        BY <4>3 DEF R
    <3> HIDE DEF d
    <3>10. Writing' => \E n \in Nat : Suffices(n)' /\ j'.free > Needs(n)'
      BY <2>1, <2>2, <1>s DEF SpaceInv
    <3>11. \E kk, mm \in Nat : /\ MaxTransaction <= kk * TagsPerBlock
                               /\ Writing' => Suffices(mm)'
                               /\ j'.free > (IF Writing' THEN Needs(mm)' ELSE 0) + MaxTransaction + kk + RevokeBlocks(MaxRevoke) + 1
      BY <2>2, <3>6, <3>7, <3>8, <3>9, <1>s
    <3> QED
      BY <3>10, <3>11 DEF SpaceInv
  <2> QED
    BY <2>3, <2>4
<1>8. ASSUME Orderly PROVE AheadInv'
  <2> SUFFICES ASSUME NEW c \in Block
               PROVE  Ahead(buf'[c], Committed') /\ (c \in access' /\ buf'[c].tr = 0 => ~buf'[c].lk)
    BY DEF AheadInv, Opening
  <2>1. Committed' = Committed
    BY <1>s DEF Committed
  <2>2. Ahead(buf[c], Committed) /\ (c \in access /\ buf[c].tr = 0 => ~buf[c].lk)
    BY <1>8 DEF IInv, AheadInv, Opening
  <2> QED
    BY <1>8, <2>1, <2>2
<1> QED
  BY <1>1, <1>2, <1>4, <1>5, <1>6, <1>7, <1>8 DEF IInv, Ample, Orderly

\* In terms of the transaction that the handle joins.
LEMMA FiledTid ==
  ASSUME IInv, NEW b \in Block, StartHandle(b), NEW c \in Block
  PROVE  /\ Filed(buf[c], Tid, j.committing, CommitLists)
         /\ IsBuffer(buf[c]) /\ Tid \in 1..MaxTid /\ j.committing < Tid /\ j.committing \in 0..MaxTid
         /\ Committed \in Int /\ Committed < Tid
         /\ Orderly => Ahead(buf[c], Committed)
         /\ "Reserved" \notin CommitLists
<1>0. TypeInv /\ ControlInv /\ ListInv /\ JournalType /\ BufferType
  BY DEF IInv, TypeInv
<1>1. /\ Tid \in 1..MaxTid /\ j.committing < Tid /\ stable < Tid
      /\ j.running # 0 => Tid = j.running
  BY <1>0, Started
<1>2. Filed(buf[c], j.running, j.committing, CommitLists) /\ IsBuffer(buf[c])
  BY <1>0 DEF ListInv, BufferType
<1>3. j.running \in 0..MaxTid /\ j.committing \in 0..MaxTid /\ stable \in Int /\ MaxTid \in Nat
  BY <1>0, ZeroTid DEF JournalType, TypeInv
<1>4. Filed(buf[c], Tid, j.committing, CommitLists)
  <2>1. CASE j.running # 0
    BY <1>1, <1>2, <2>1
  <2>2. CASE j.running = 0
    BY <1>1, <1>2, <1>3, <2>2 DEF Filed
  <2> QED
    BY <2>1, <2>2
<1>5. Committed \in Int /\ Committed < Tid
  BY <1>1, <1>3 DEF Committed
<1>6. Orderly => Ahead(buf[c], Committed)
  BY DEF IInv, AheadInv
<1>7. "Reserved" \notin CommitLists
  BY DEF CommitLists
<1> QED
  BY <1>1, <1>2, <1>3, <1>4, <1>5, <1>6, <1>7

\* A committed buffer is filed for a handle; one of the committing transaction
\* is claimed by the next.
LEMMA AheadFile ==
  ASSUME NEW x, IsBuffer(x), x.tr = 0, x.nxt = 0, ~x.lk, NEW c \in Int, NEW t \in 1..MaxTid, c < t,
         NEW y, IsBuffer(y), y.tr = t, y.nxt = x.nxt, y.data = x.data,
         (y.jd <=> x.jd \/ x.d), ~y.d, (y.lk <=> x.lk), Ahead(x, c)
  PROVE  Ahead(y, c)
<1>1. MaxTid \in Nat /\ t \in Nat \ {0}
  BY ZeroTid
<1>2. ~x.jd /\ (x.d => x.data \in Int /\ x.data <= c)
  BY DEF Ahead
<1> QED
  BY <1>1, <1>2 DEF Ahead

LEMMA AheadNext ==
  ASSUME NEW x, IsBuffer(x), x.tr # 0, x.nxt = 0, NEW c \in Int, NEW t \in 1..MaxTid, x.tr < t,
         NEW y, IsBuffer(y), y.tr = x.tr, y.jl = x.jl, y.nxt = t, y.data = x.data,
         (y.jd <=> x.jd), (y.d <=> x.d), (y.lk <=> x.lk), Ahead(x, c)
  PROVE  Ahead(y, c)
<1>1. MaxTid \in Nat /\ t \in Nat \ {0} /\ x.tr \in Nat
  BY ZeroTid DEF IsBuffer
<1> QED
  BY <1>1 DEF Ahead

LEMMA GetWriteInv ==
  ASSUME IInv, NEW b \in Block, journal_get_write_access(b)
  PROVE  IInv'
<1> DEFINE x == buf[b]  y == buf'[b]
<1>0. /\ use[b] >= 0 /\ ~x.lk /\ StartHandle(b)
      /\ access' = access \cup {b} /\ UNCHANGED <<use, freedBy, crevoke, copying>>
      /\ revoke' \subseteq revoke
      /\ UNCHANGED <<sb, sbio, start, stage, desc, mode, stable>>
  BY DEF journal_get_write_access, disk, commit, machine, fs
<1>1. /\ Filed(x, Tid, j.committing, CommitLists) /\ IsBuffer(x)
      /\ Tid \in 1..MaxTid /\ j.committing < Tid /\ j.committing \in 0..MaxTid
      /\ Committed \in Int /\ Committed < Tid
      /\ Orderly => Ahead(x, Committed)
      /\ "Reserved" \notin CommitLists
  BY <1>0, FiledTid
<1>2. DOMAIN buf = Block /\ DOMAIN use = Block /\ freedBy \in [Block -> Nat]
  BY DEF IInv, TypeInv, BufferType
<1>3. \/ (Tid \in {x.tr, x.nxt} \/ x.tr = 0) /\ buf' = buf
      \/ x.tr # 0 /\ Tid \notin {x.tr, x.nxt} /\ buf' = [buf EXCEPT ![b] = Freeze(x)]
  BY DEF journal_get_write_access
<1>4. DOMAIN buf' = Block /\ \A c \in Block : c # b => buf'[c] = buf[c]
  BY <1>2, <1>3
<1>5. use'[b] # FREE
  BY <1>0 DEF FREE
<1>6. /\ IsBuffer(y) /\ Filed(y, Tid, j.committing, CommitLists) /\ (y.tr = 0 \/ Tid \in {y.tr, y.nxt})
      /\ y.tr = x.tr /\ y.jl = x.jl /\ ~y.lk
      /\ Orderly => Ahead(y, Committed)
  <2>1. CASE (Tid \in {x.tr, x.nxt} \/ x.tr = 0) /\ buf' = buf
    BY <1>0, <1>1, <2>1
  <2>3. CASE x.tr # 0 /\ Tid \notin {x.tr, x.nxt} /\ buf' = [buf EXCEPT ![b] = Freeze(x)]
    <3>1. y = Freeze(x) /\ Tid \in 0..MaxTid
      BY <1>1, <1>2, <2>3
    <3>2. Reassigned(x, y, Tid)
      BY <3>1 DEF Freeze, Reassigned
    <3>3. /\ IsBuffer(y) /\ y.tr = x.tr /\ y.jl = x.jl /\ y.nxt = Tid /\ y.data = x.data
          /\ (y.jd <=> x.jd) /\ (y.d <=> x.d) /\ (y.lk <=> x.lk)
      BY <1>1, <3>1, <3>2, NextFields
    <3>4. x.nxt = 0 /\ x.tr = j.committing
      BY <1>1, <2>3 DEF Filed
    <3>5. Filed(y, Tid, j.committing, CommitLists)
      BY <1>1, <2>3, <3>3, <3>4 DEF Filed
    <3>6. Orderly => Ahead(y, Committed)
      BY <1>1, <2>3, <3>3, <3>4, AheadNext
    <3> QED
      BY <1>0, <3>3, <3>5, <3>6
  <2> QED
    BY <1>3, <2>1, <2>3
<1>8. revoke' \subseteq Block /\ Cardinality(revoke') <= MaxRevoke
  BY <1>0, FewerRevoked DEF IInv
<1> HIDE DEF x, y
<1>7. /\ IsBuffer(buf'[b]) /\ Filed(buf'[b], Tid, j.committing, CommitLists)
      /\ buf'[b].tr = 0 \/ Tid \in {buf'[b].tr, buf'[b].nxt}
      /\ buf'[b].tr = buf[b].tr /\ buf'[b].jl = buf[b].jl /\ ~buf'[b].lk
      /\ Orderly => Ahead(buf'[b], Committed)
  BY <1>6 DEF x, y
<1> QED
  BY <1>0, <1>2, <1>4, <1>5, <1>7, <1>8, HandleInv

\* A block that may be used again is in no transaction, or in the committing one.
LEMMA ReuseFacts ==
  ASSUME IInv, NEW b \in Block, StartHandle(b), MayReuse(b)
  PROVE  b \notin access /\ buf[b].nxt = 0 /\ buf[b].tr \in {0, j.committing}
<1>0. TypeInv /\ ControlInv /\ ListInv
  BY DEF IInv
<1>1. Filed(buf[b], Tid, j.committing, CommitLists) /\ Tid \in 1..MaxTid /\ j.committing < Tid /\ IsBuffer(buf[b])
  BY FiledTid
<1>2. stable < Tid
  BY <1>0, Started
<1>3. b \notin access /\ buf[b].nxt = 0 /\ buf[b].tr <= freedBy[b]
  BY <1>0 DEF ListInv, MayReuse
<1>4. freedBy[b] \in Nat /\ stable \in Int /\ buf[b].tr \in 0..MaxTid /\ MaxTid \in Nat /\ j.committing \in 0..MaxTid
  BY <1>0, <1>1, ZeroTid DEF TypeInv, IsBuffer, JournalType
<1>5. freedBy[b] < Tid
  BY <1>1, <1>2, <1>4 DEF MayReuse
<1>6. buf[b].tr # Tid
  BY <1>1, <1>3, <1>4, <1>5
<1> QED
  BY <1>1, <1>3, <1>6 DEF Filed

LEMMA GetCreateInv ==
  ASSUME IInv, NEW b \in Block, journal_get_create_access(b)
  PROVE  IInv'
<1> DEFINE x == buf[b]  y == buf'[b]
<1>0. /\ MayReuse(b) /\ ~x.lk /\ StartHandle(b)
      /\ buf' = [buf EXCEPT ![b] = IF x.tr = 0 THEN File(x, Tid, "Reserved") ELSE [x EXCEPT !.nxt = Tid]]
      /\ use' = [use EXCEPT ![b] = FRESH]
      /\ access' = access \cup {b} /\ revoke' \subseteq revoke /\ UNCHANGED <<freedBy, crevoke, copying>>
      /\ UNCHANGED <<sb, sbio, start, stage, desc, mode, stable>>
  BY DEF journal_get_create_access, disk, commit, machine
<1>1. /\ Filed(x, Tid, j.committing, CommitLists) /\ IsBuffer(x)
      /\ Tid \in 1..MaxTid /\ j.committing < Tid /\ j.committing \in 0..MaxTid
      /\ Committed \in Int /\ Committed < Tid
      /\ Orderly => Ahead(x, Committed)
      /\ "Reserved" \notin CommitLists
  BY <1>0, FiledTid
<1>2. DOMAIN buf = Block /\ DOMAIN use = Block /\ freedBy \in [Block -> Nat]
  BY DEF IInv, TypeInv, BufferType
<1>3. x.nxt = 0 /\ x.tr \in {0, j.committing}
  BY <1>0, ReuseFacts
<1>4. DOMAIN buf' = Block /\ \A c \in Block : c # b => buf'[c] = buf[c]
  BY <1>0, <1>2
<1>5. /\ DOMAIN use' = Block /\ \A c \in Block : c # b => use'[c] = use[c]
      /\ use'[b] # FREE
  BY <1>0, <1>2 DEF FREE, FRESH
<1>6. /\ IsBuffer(y) /\ Filed(y, Tid, j.committing, CommitLists) /\ Tid \in {y.tr, y.nxt} /\ y.tr # 0
      /\ (y.tr = x.tr /\ y.jl = x.jl) \/ {x.tr, y.tr} \subseteq {0, Tid}
      /\ Orderly => Ahead(y, Committed)
  <2>2. CASE x.tr = 0
    <3>1. y = File(x, Tid, "Reserved") /\ Tid \in 0..MaxTid /\ "Reserved" \in Lists
      BY <1>0, <1>1, <1>2, <2>2 DEF Lists
    <3>2. /\ IsBuffer(y) /\ y.tr = Tid /\ y.jl = "Reserved" /\ y.nxt = x.nxt /\ y.data = x.data
          /\ (y.jd <=> x.jd \/ x.d) /\ ~y.d /\ (y.lk <=> x.lk)
      BY <1>1, <3>1, FileFields
    <3>4. Filed(y, Tid, j.committing, CommitLists)
      BY <1>1, <3>2, <1>3 DEF Filed
    <3>5. Orderly => Ahead(y, Committed)
      BY <1>0, <1>1, <2>2, <3>2, <1>3, AheadFile
    <3> QED
      BY <1>1, <2>2, <3>2, <3>4, <3>5
  <2>3. CASE x.tr # 0
    <3>1. Reassigned(x, y, Tid) /\ Tid \in 0..MaxTid
      BY <1>0, <1>1, <1>2, <2>3 DEF Reassigned
    <3>3. /\ IsBuffer(y) /\ y.tr = x.tr /\ y.jl = x.jl /\ y.nxt = Tid /\ y.data = x.data
          /\ (y.jd <=> x.jd) /\ (y.d <=> x.d) /\ (y.lk <=> x.lk)
      BY <1>1, <3>1, NextFields
    <3>4. x.tr = j.committing
      BY <1>3, <2>3
    <3>5. Filed(y, Tid, j.committing, CommitLists)
      BY <1>1, <2>3, <3>3, <3>4 DEF Filed
    <3>6. Orderly => Ahead(y, Committed)
      BY <1>1, <1>3, <2>3, <3>3, <3>4, AheadNext
    <3> QED
      BY <2>3, <3>3, <3>5, <3>6
  <2> QED
    BY <2>2, <2>3
<1>7. revoke' \subseteq Block /\ Cardinality(revoke') <= MaxRevoke
  BY <1>0, FewerRevoked DEF IInv
<1> QED
  BY <1>7, <1>0, <1>2, <1>4, <1>5, <1>6, HandleInv

LEMMA RevokeInv ==
  ASSUME IInv, NEW b \in Block, journal_revoke(b)
  PROVE  IInv'
<1> DEFINE x == buf[b]  y == buf'[b]
<1>0. /\ b \notin access /\ StartHandle(b)
      /\ use' = [use EXCEPT ![b] = FREE] /\ freedBy' = [freedBy EXCEPT ![b] = Tid]
      /\ revoke' = revoke \cup {b} /\ Cardinality(revoke') <= MaxRevoke
      /\ UNCHANGED <<access, crevoke, copying>>
      /\ UNCHANGED <<sb, sbio, start, stage, desc, mode, stable>>
  BY DEF journal_revoke, disk, commit, machine
<1>1. /\ Filed(x, Tid, j.committing, CommitLists) /\ IsBuffer(x)
      /\ Tid \in 1..MaxTid /\ j.committing < Tid /\ j.committing \in 0..MaxTid
      /\ Committed \in Int /\ Committed < Tid
      /\ Orderly => Ahead(x, Committed)
      /\ "Reserved" \notin CommitLists
  BY <1>0, FiledTid
<1>2. DOMAIN buf = Block /\ DOMAIN use = Block /\ freedBy \in [Block -> Nat]
  BY DEF IInv, TypeInv, BufferType
<1>3. \/ x.tr = Tid /\ buf' = [buf EXCEPT ![b] = Forget(x)]
      \/ x.tr # Tid /\ ("forget" \in Races \/ x.nxt = 0) /\ buf' = [buf EXCEPT ![b].nxt = 0]
  BY DEF journal_revoke
<1>4. DOMAIN buf' = Block /\ \A c \in Block : c # b => buf'[c] = buf[c]
  BY <1>2, <1>3
<1>5. /\ DOMAIN use' = Block /\ freedBy' \in [Block -> Nat]
      /\ \A c \in Block : c # b => use'[c] = use[c] /\ freedBy'[c] = freedBy[c]
      /\ freedBy'[b] = Tid
  BY <1>0, <1>1, <1>2, ZeroTid
<1>6. /\ IsBuffer(y) /\ Filed(y, Tid, j.committing, CommitLists) /\ y.nxt = 0 /\ y.tr <= Tid
      /\ (y.tr = x.tr /\ y.jl = x.jl) \/ {x.tr, y.tr} \subseteq {0, Tid}
      /\ Orderly => Ahead(y, Committed)
  <2>1. CASE x.tr = Tid /\ buf' = [buf EXCEPT ![b] = Forget(x)]
    <3>1. y = Forget(x)
      BY <1>2, <2>1
    <3>2. /\ IsBuffer(y) /\ y.nxt = x.nxt /\ y.data = x.data
          /\ ~y.jd /\ ~y.d /\ (y.lk <=> x.lk)
          /\ (y.tr = x.tr /\ y.jl = "Forget") \/ (y.tr = 0 /\ y.jl = "None")
      BY <1>1, <3>1, ForgetFields
    <3>3. x.nxt = 0
      BY <1>1, <2>1 DEF Filed
    <3>4. Filed(y, Tid, j.committing, CommitLists)
      BY <1>1, <2>1, <3>2, <3>3 DEF Filed
    <3>5. Orderly => Ahead(y, Committed)
      BY <1>1, <2>1, <3>2 DEF Ahead
    <3>6. y.tr <= Tid
      BY <1>1, <2>1, <3>2
    <3> QED
      BY <2>1, <3>2, <3>3, <3>4, <3>5, <3>6
  <2>2. CASE x.tr # Tid /\ ("forget" \in Races \/ x.nxt = 0) /\ buf' = [buf EXCEPT ![b].nxt = 0]
    <3>1. Reassigned(x, y, 0)
      BY <1>2, <2>2 DEF Reassigned
    <3>2. /\ IsBuffer(y) /\ y.tr = x.tr /\ y.jl = x.jl /\ y.nxt = 0 /\ y.data = x.data
          /\ (y.jd <=> x.jd) /\ (y.d <=> x.d) /\ (y.lk <=> x.lk)
      BY <1>1, <3>1, NextFields, ZeroTid
    <3>3. Filed(y, Tid, j.committing, CommitLists)
      BY <1>1, <3>2 DEF Filed
    <3>6. Orderly => x.nxt = 0
      BY <2>2 DEF Orderly
    <3>4. Orderly => Ahead(y, Committed)
      BY <1>1, <3>2, <3>6 DEF Ahead
    <3>5. y.tr <= Tid
      <4>1. x.tr \in {0, j.committing}
        BY <1>1, <2>2 DEF Filed
      <4> QED
        BY <4>1, <3>2, <1>1
    <3> QED
      BY <3>2, <3>3, <3>4, <3>5
  <2> QED
    BY <1>3, <2>1, <2>2
<1>7. revoke' \subseteq Block
  BY <1>0 DEF IInv, TypeInv
<1> QED
  BY <1>7, <1>0, <1>2, <1>4, <1>5, <1>6, HandleInv

LEMMA ReuseAsDataInv ==
  ASSUME IInv, NEW b \in Block, ReuseAsData(b)
  PROVE  IInv'
<1> DEFINE x == buf[b]  y == buf'[b]
<1>0. /\ MayReuse(b) /\ StartHandle(b)
      /\ buf' = [buf EXCEPT ![b].d = FALSE]
      /\ use' = [use EXCEPT ![b] = DATA] /\ UNCHANGED <<freedBy, access, revoke, crevoke, copying>>
      /\ UNCHANGED <<sb, sbio, start, stage, desc, mode, stable>>
  BY DEF ReuseAsData, disk, commit, machine
<1>1. /\ Filed(x, Tid, j.committing, CommitLists) /\ IsBuffer(x)
      /\ Tid \in 1..MaxTid /\ j.committing < Tid /\ j.committing \in 0..MaxTid
      /\ Committed \in Int /\ Committed < Tid
      /\ Orderly => Ahead(x, Committed)
      /\ "Reserved" \notin CommitLists
  BY <1>0, FiledTid
<1>2. DOMAIN buf = Block /\ DOMAIN use = Block /\ freedBy \in [Block -> Nat]
  BY DEF IInv, TypeInv, BufferType
<1>3. b \notin access'
  BY <1>0, ReuseFacts
<1>4. DOMAIN buf' = Block /\ \A c \in Block : c # b => buf'[c] = buf[c]
  BY <1>0, <1>2
<1>5. /\ DOMAIN use' = Block /\ \A c \in Block : c # b => use'[c] = use[c]
      /\ use'[b] # FREE
  BY <1>0, <1>2 DEF FREE, DATA
<1>6. /\ IsBuffer(y) /\ Filed(y, Tid, j.committing, CommitLists) /\ y.tr = x.tr /\ y.jl = x.jl
      /\ Orderly => Ahead(y, Committed)
  <2>1. Flagged(x, y)
    BY <1>0, <1>2 DEF Flagged
  <2>2. /\ IsBuffer(y) /\ y.tr = x.tr /\ y.jl = x.jl /\ y.nxt = x.nxt /\ y.data = x.data
        /\ (y.jd <=> x.jd) /\ (y.d => x.d) /\ (y.lk => x.lk \/ x.d)
    BY <1>1, <2>1, FlagFields
  <2>3. Filed(y, Tid, j.committing, CommitLists)
    BY <1>1, <2>2 DEF Filed
  <2>4. Unmoved(x, y) /\ Calm(x, y)
    BY <2>2 DEF Unmoved, Calm
  <2>5. Orderly => Ahead(y, Committed)
    BY <1>1, <2>2, <2>4, AheadCalm
  <2> QED
    BY <2>2, <2>3, <2>5
<1>7. revoke' \subseteq Block /\ Cardinality(revoke') <= MaxRevoke
  BY <1>0, FewerRevoked DEF IInv
<1> QED
  BY <1>7, <1>0, <1>2, <1>3, <1>4, <1>5, <1>6, HandleInv

-----------------------------------------------------------------------------
(* Steps that move buffers between the lists *)

\* What is claimed of the log does not grow.
LEMMA Shrinks ==
  ASSUME IInv, TypeInv', ListInv', Orderly => AheadInv',
         j.running # 0 => Claims' \subseteq Claims, Unwritten' = Unwritten, access' \subseteq access,
         On(j.committing, "Metadata")' = On(j.committing, "Metadata"), revoke' \subseteq revoke,
         UNCHANGED <<j, stage, desc, copying, crevoke, mode, stable>>
  PROVE  IInv'
<1>0. TypeInv /\ ControlInv /\ DescInv /\ SizeInv /\ JournalType
  BY DEF IInv, TypeInv
<1>1. ControlInv'
  BY <1>0 DEF ControlInv
<1>2. DescInv'
  BY <1>0 DEF DescInv
<1>3. SizeInv'
  <2>1. IsFiniteSet(Claims) /\ Cardinality(Claims) \in Nat
    BY <1>0, Sizes
  <2>4. ASSUME j.running # 0 PROVE Cardinality(Claims') <= MaxTransaction
    <3>1. Cardinality(Claims') <= Cardinality(Claims) /\ IsFiniteSet(Claims')
      BY <2>1, <2>4, FS_Subset
    <3>2. Cardinality(Claims') \in Nat
      BY <3>1, FS_CardinalityType
    <3> QED
      BY <1>0, <2>1, <2>4, <3>1, <3>2, JbdAssumption DEF SizeInv
  <2>5. Cardinality(revoke') <= MaxRevoke
    BY <1>0, FewerRevoked
  <2> QED
    BY <1>0, <2>4, <2>5 DEF SizeInv
<1>4. ASSUME Ample PROVE SpaceInv'
  <2>1. SpaceInv
    BY <1>4 DEF IInv
  <2>2. (Writing' <=> Writing) /\ \A m \in Nat : Needs(m)' = Needs(m) /\ (Suffices(m)' <=> Suffices(m))
    BY DEF Writing, Needs, Suffices
  <2> QED
    BY <2>1, <2>2 DEF SpaceInv
<1> QED
  BY <1>1, <1>2, <1>3, <1>4 DEF IInv, Ample

LEMMA ReleaseInv ==
  ASSUME IInv, NEW b \in Block, journal_release_buffer(b)
  PROVE  IInv'
<1>0. TypeInv /\ ListInv
  BY DEF IInv
<1>1. access' = access \ {b} /\ UNCHANGED <<j, buf, sb, sbio, start, stage, desc, copying, revoke, crevoke, mode, stable, use, freedBy>>
  BY DEF journal_release_buffer, disk, commit, machine, fs
<1>2. TypeInv'
  BY <1>0, <1>1 DEF TypeInv, JournalType, BufferType
<1>3. CommitLists' = CommitLists
  BY <1>1 DEF CommitLists
<1>4. ListInv'
  BY <1>0, <1>1, <1>3 DEF ListInv
<1>5. Orderly => AheadInv'
  <2>1. Committed' = Committed
    BY <1>1 DEF Committed
  <2> QED
    BY <1>1, <2>1 DEF IInv, AheadInv, Opening
<1>6. /\ Claims' \subseteq Claims /\ Unwritten' = Unwritten
      /\ On(j.committing, "Metadata")' = On(j.committing, "Metadata")
  BY <1>1 DEF Claims, Unwritten, On
<1> QED
  BY <1>1, <1>2, <1>4, <1>5, <1>6, Shrinks

LEMMA DirtyInv ==
  ASSUME IInv, NEW b \in Block, journal_dirty_metadata(b)
  PROVE  IInv'
<1> DEFINE x == buf[b]  y == buf'[b]  z == [x EXCEPT !.data = j.running, !.jd = TRUE]  T == j.running
<1>0. /\ TypeInv /\ ControlInv /\ ListInv /\ JournalType /\ BufferType
      /\ access \subseteq Block /\ DOMAIN buf = Block /\ DOMAIN use = Block
  BY DEF IInv, TypeInv, BufferType
<1>1. /\ b \in access /\ x.tr # 0
      /\ buf' = [buf EXCEPT ![b] = IF z.tr = T THEN File(z, T, "Metadata") ELSE z]
      /\ access' = access \ {b} /\ use' = [use EXCEPT ![b] = 0]
      /\ UNCHANGED <<j, sb, sbio, start, stage, desc, copying, revoke, crevoke, mode, stable, freedBy>>
  BY DEF journal_dirty_metadata, disk, commit, machine, Opening
<1>2. /\ IsBuffer(x) /\ Filed(x, T, j.committing, CommitLists) /\ T \in {x.tr, x.nxt}
  BY <1>0, <1>1 DEF BufferType, ListInv
<1>3. T # 0 /\ T \in 0..MaxTid /\ j.committing < T /\ j.committing \in 0..MaxTid /\ MaxTid \in Nat
  BY <1>0, <1>1, ZeroTid DEF ControlInv, JournalType
<1>4. /\ IsBuffer(z) /\ z.tr = x.tr /\ z.jl = x.jl /\ z.nxt = x.nxt /\ z.data = T
      /\ z.jd /\ (z.d <=> x.d) /\ (z.lk <=> x.lk)
  <2>1. z = Dirtied(x, T)
    BY DEF Dirtied
  <2> HIDE DEF x, z, T
  <2> QED
    BY <1>2, <2>1, DirtyFields
<1> HIDE DEF z
<1>5. /\ IsBuffer(y) /\ y.tr = x.tr /\ y.nxt = x.nxt /\ y.data = T /\ y.jd /\ (y.lk <=> x.lk) /\ (y.d => x.d)
      /\ x.tr = T => y.jl = "Metadata"
      /\ x.tr # T => y.jl = x.jl
  <2>1. CASE z.tr = T
    <3>1. y = File(z, T, "Metadata") /\ "Metadata" \in Lists
      BY <1>0, <1>1, <2>1 DEF Lists
    <3> QED
      BY <1>3, <1>4, <2>1, <3>1, FileFields
  <2>2. CASE z.tr # T
    <3>1. y = z
      BY <1>0, <1>1, <2>2
    <3> QED
      BY <1>4, <2>2, <3>1
  <2> QED
    BY <2>1, <2>2
<1>6. DOMAIN buf' = Block /\ \A c \in Block : c # b => buf'[c] = buf[c] /\ use'[c] = use[c]
  BY <1>0, <1>1
<1>7. use'[b] = 0 /\ DOMAIN use' = Block
  BY <1>0, <1>1
<1>8. CommitLists' = CommitLists /\ "Reserved" \notin CommitLists
  BY <1>1 DEF CommitLists
<1> HIDE DEF x, y
<1>9. TypeInv'
  <2>1. BufferType'
    <3> SUFFICES ASSUME NEW c \in Block PROVE IsBuffer(buf'[c])
      BY <1>6 DEF BufferType
    <3>1. IsBuffer(buf[c])
      BY <1>0 DEF BufferType
    <3> QED
      BY <3>1, <1>5, <1>6 DEF y
  <2> QED
    BY <1>0, <1>1, <1>7, <2>1 DEF TypeInv, JournalType
<1>10. ListInv'
  <2> SUFFICES ASSUME NEW c \in Block
               PROVE  /\ Filed(buf'[c], T, j.committing, CommitLists)
                      /\ c \in access' => buf'[c].tr = 0 \/ T \in {buf'[c].tr, buf'[c].nxt}
                      /\ use'[c] = FREE =>
                           c \notin access' /\ buf'[c].nxt = 0 /\ buf'[c].tr <= freedBy'[c]
    BY <1>1, <1>8 DEF ListInv
  <2>1. CASE c # b
    BY <1>0, <1>1, <1>6, <2>1 DEF ListInv
  <2>2. CASE c = b
    <3>1. Filed(y, T, j.committing, CommitLists)
      BY <1>2, <1>3, <1>5 DEF Filed
    <3>2. use'[b] # FREE /\ b \notin access'
      BY <1>1, <1>7 DEF FREE
    <3> QED
      BY <2>2, <3>1, <3>2 DEF y
  <2> QED
    BY <2>1, <2>2
<1>11. Orderly => AheadInv'
  <2> SUFFICES ASSUME Orderly, NEW c \in Block
               PROVE  Ahead(buf'[c], Committed) /\ (c \in access' /\ buf'[c].tr = 0 => ~buf'[c].lk)
    BY <1>1 DEF AheadInv, Committed, Opening
  <2>1. Ahead(buf[c], Committed) /\ (c \in access /\ buf[c].tr = 0 => ~buf[c].lk)
    BY DEF IInv, AheadInv, Opening
  <2>2. CASE c # b
    BY <1>1, <1>6, <2>1, <2>2
  <2>3. CASE c = b
    <3>1. Ahead(x, Committed)
      BY <2>1, <2>3 DEF x
    <3>2. x.tr # 0
      BY <1>2, <1>3 DEF Filed
    <3>3. y.jl # "Reserved"
      BY <1>2, <1>5, <1>8, <3>2 DEF Filed
    <3>4. ~y.d /\ ~y.lk
      BY <1>5, <3>1, <3>2 DEF Ahead
    <3>5. T = IF y.nxt # 0 THEN y.nxt ELSE y.tr
      BY <1>2, <1>3, <1>5 DEF Filed
    <3>6. Ahead(y, Committed)
      BY <1>3, <1>5, <3>2, <3>3, <3>4, <3>5 DEF Ahead
    <3> QED
      BY <2>3, <3>4, <3>6 DEF y
  <2> QED
    BY <2>2, <2>3
<1>12. Claims' \subseteq Claims
  <2> SUFFICES ASSUME NEW c \in Claims' PROVE c \in Claims
    OBVIOUS
  <2>1. c \in Block /\ (buf'[c].nxt = T \/ (buf'[c].tr = T /\ buf'[c].jl = "Metadata") \/ c \in access')
    BY <1>0, <1>1 DEF Claims, On
  <2>2. CASE c = b
    BY <1>1, <2>2 DEF Claims
  <2>3. CASE c # b
    BY <1>1, <1>6, <2>1, <2>3 DEF Claims, On
  <2> QED
    BY <2>2, <2>3
<1>13. Unwritten' = Unwritten /\ On(j.committing, "Metadata")' = On(j.committing, "Metadata")
  <2> SUFFICES ASSUME NEW c \in Block
               PROVE  /\ buf'[c].tr = j.committing /\ buf'[c].jl = "Metadata" <=>
                           buf[c].tr = j.committing /\ buf[c].jl = "Metadata"
    BY <1>1 DEF Unwritten, On
  <2>1. CASE c = b
    <3>1. y.tr = j.committing /\ y.jl = "Metadata" <=> x.tr = j.committing /\ x.jl = "Metadata"
      BY <1>3, <1>5
    <3> QED
      BY <2>1, <3>1 DEF x, y
  <2>2. CASE c # b
    BY <1>6, <2>2
  <2> QED
    BY <2>1, <2>2
<1> QED
  BY <1>1, <1>9, <1>10, <1>11, <1>12, <1>13, Shrinks

\* The buffer that do_get_write_access() files at last: not locked, since nobody
\* may have submitted it, and what it still has to write has been committed.
LEMMA FileReservedInv ==
  ASSUME IInv, NEW b \in Block, FileReserved(b)
  PROVE  IInv'
<1> DEFINE x == buf[b]  y == buf'[b]  T == j.running
<1>0. /\ TypeInv /\ ControlInv /\ ListInv /\ JournalType /\ BufferType
      /\ access \subseteq Block /\ DOMAIN buf = Block
  BY DEF IInv, TypeInv, BufferType
<1>1. /\ b \in access /\ b \in Opening /\ x.tr = 0
      /\ buf' = [buf EXCEPT ![b] = File(x, T, "Reserved")] /\ revoke' \subseteq revoke
      /\ UNCHANGED <<j, access, sb, sbio, start, stage, desc, copying, crevoke, mode, stable, use, freedBy>>
  BY DEF FileReserved, disk, commit, machine, fs, Opening
<1>2. /\ IsBuffer(x) /\ Filed(x, T, j.committing, CommitLists)
  BY <1>0 DEF BufferType, ListInv
<1>3. /\ T \in 1..MaxTid /\ j.committing < T /\ j.committing \in 0..MaxTid /\ MaxTid \in Nat
      /\ stable < T /\ stable \in Int
  <2>1. access # {}
    BY <1>1
  <2>2. T # 0 /\ j.committing < T /\ stable < T
    BY <1>0, <2>1 DEF ControlInv
  <2>3. T \in 0..MaxTid /\ j.committing \in 0..MaxTid /\ stable \in Int
    BY <1>0, ZeroTid DEF JournalType, TypeInv
  <2> QED
    BY <2>2, <2>3, ZeroTid
<1>4. /\ IsBuffer(y) /\ y.tr = T /\ y.jl = "Reserved" /\ y.nxt = x.nxt /\ y.data = x.data
      /\ (y.jd <=> x.jd \/ x.d) /\ ~y.d /\ (y.lk <=> x.lk)
  <2>1. y = File(x, T, "Reserved") /\ T \in 0..MaxTid /\ "Reserved" \in Lists
    BY <1>0, <1>1, <1>3 DEF Lists
  <2> QED
    BY <1>2, <2>1, FileFields
<1>5. x.nxt = 0 /\ x.jl = "None"
  BY <1>1, <1>2 DEF Filed
<1>6. DOMAIN buf' = Block /\ \A c \in Block : c # b => buf'[c] = buf[c]
  BY <1>0, <1>1
<1>7. CommitLists' = CommitLists /\ Committed' = Committed
  BY <1>1 DEF CommitLists, Committed
<1> HIDE DEF x, y
<1>8. TypeInv'
  <2>1. BufferType'
    <3> SUFFICES ASSUME NEW c \in Block PROVE IsBuffer(buf'[c])
      BY <1>6 DEF BufferType
    <3>1. IsBuffer(buf[c])
      BY <1>0 DEF BufferType
    <3> QED
      BY <3>1, <1>4, <1>6 DEF y
  <2> QED
    BY <1>0, <1>1, <2>1 DEF TypeInv, JournalType
<1>9. ListInv'
  <2> SUFFICES ASSUME NEW c \in Block
               PROVE  /\ Filed(buf'[c], T, j.committing, CommitLists)
                      /\ c \in access => buf'[c].tr = 0 \/ T \in {buf'[c].tr, buf'[c].nxt}
                      /\ use[c] = FREE => c \notin access /\ buf'[c].nxt = 0 /\ buf'[c].tr <= freedBy[c]
    BY <1>1, <1>7 DEF ListInv
  <2>1. CASE c # b
    BY <1>0, <1>6, <2>1 DEF ListInv
  <2>2. CASE c = b
    <3>1. Filed(y, T, j.committing, CommitLists)
      BY <1>3, <1>4, <1>5 DEF Filed
    <3>2. use[b] # FREE
      BY <1>0, <1>1 DEF ListInv
    <3> QED
      BY <1>4, <2>2, <3>1, <3>2 DEF y
  <2> QED
    BY <2>1, <2>2
<1>10. Orderly => AheadInv'
  <2> SUFFICES ASSUME Orderly, NEW c \in Block
               PROVE  Ahead(buf'[c], Committed) /\ (c \in access /\ buf'[c].tr = 0 => ~buf'[c].lk)
    BY <1>1, <1>7 DEF AheadInv, Opening
  <2>1. Ahead(buf[c], Committed) /\ (c \in Opening => ~buf[c].lk) /\ (c \in access /\ buf[c].tr = 0 => ~buf[c].lk)
    BY DEF IInv, AheadInv, Opening
  <2>2. CASE c # b
    BY <1>6, <2>1, <2>2
  <2>3. CASE c = b
    <3>1. Ahead(x, Committed) /\ ~x.lk
      BY <1>1, <2>1, <2>3 DEF x
    <3>2. Committed \in Int /\ Committed < T
      BY <1>3 DEF Committed
    <3>3. x.tr = 0
      BY <1>1 DEF x
    <3>4. Ahead(y, Committed)
      BY <1>2, <1>3, <1>4, <1>5, <3>1, <3>2, <3>3, AheadFile
    <3> QED
      BY <1>3, <1>4, <2>3, <3>4 DEF y
  <2> QED
    BY <2>2, <2>3
<1>11. Claims' \subseteq Claims
  <2> SUFFICES ASSUME NEW c \in Claims' PROVE c \in Claims
    OBVIOUS
  <2>1. c \in Block /\ (buf'[c].nxt = T \/ (buf'[c].tr = T /\ buf'[c].jl = "Metadata") \/ c \in access)
    BY <1>0, <1>1 DEF Claims, On
  <2>2. CASE c = b
    BY <1>1, <2>2 DEF Claims
  <2>3. CASE c # b
    BY <1>1, <1>6, <2>1, <2>3 DEF Claims, On
  <2> QED
    BY <2>2, <2>3
<1>12. Unwritten' = Unwritten /\ On(j.committing, "Metadata")' = On(j.committing, "Metadata")
  <2> SUFFICES ASSUME NEW c \in Block
               PROVE  /\ buf'[c].tr = j.committing /\ buf'[c].jl = "Metadata" <=>
                           buf[c].tr = j.committing /\ buf[c].jl = "Metadata"
    BY <1>1 DEF Unwritten, On
  <2>1. CASE c = b
    <3>1. y.jl # "Metadata" /\ x.jl # "Metadata"
      BY <1>4, <1>5
    <3> QED
      BY <2>1, <3>1 DEF x, y
  <2>2. CASE c # b
    BY <1>6, <2>2
  <2> QED
    BY <2>1, <2>2
<1> QED
  BY <1>1, <1>8, <1>9, <1>10, <1>11, <1>12, Shrinks

-----------------------------------------------------------------------------
(* The commit *)

LEMMA Allocated ==
  ASSUME JournalType, NEW n \in Nat, NextLogBlock(n)
  PROVE  /\ JournalType' /\ j'.free = j.free - n
         /\ j'.running = j.running /\ j'.committing = j.committing /\ j'.nextTid = j.nextTid
<1> DEFINE h == Wrap(j.head + n)
<1>1. h \in Int
  BY WrapType DEF JournalType
<1>2. j' = [j EXCEPT !.head = h, !.free = @ - n]
  BY DEF NextLogBlock
<1> HIDE DEF h
<1>3. j' = [head |-> h, free |-> j.free - n, tail |-> j.tail, tailSeq |-> j.tailSeq,
            nextTid |-> j.nextTid, running |-> j.running, committing |-> j.committing, flushed |-> j.flushed]
  BY <1>2 DEF JournalType
<1>4. j.free - n \in Int
  BY DEF JournalType
<1> QED
  BY <1>1, <1>3, <1>4 DEF JournalType

\* While nothing is being written, only the running transaction has a claim.
LEMMA IdleSpace ==
  ASSUME IInv, Ample, JournalType', ~Writing, ~Writing', j'.free = j.free, j'.running = j.running
  PROVE  SpaceInv'
<1>1. SpaceInv
  BY DEF IInv
<1> QED
  BY <1>1 DEF SpaceInv

LEMMA CommitLockInv ==
  ASSUME IInv, CommitLock
  PROVE  IInv'
<1>0. TypeInv /\ ControlInv /\ DescInv /\ ListInv /\ SizeInv /\ JournalType /\ BufferType
  BY DEF IInv, TypeInv
<1>1. /\ mode = "up" /\ stage = "idle" /\ j.running # 0 /\ UpdateFlushed
      /\ j' = [j EXCEPT !.flushed = FALSE] /\ stage' = "locked"
      /\ UNCHANGED <<sbio, buf, access, start, desc, copying, revoke, crevoke, mode, use, freedBy, stable>>
  BY DEF CommitLock, machine, fs
<1>2. /\ JournalType' /\ j'.free = j.free
      /\ j'.running = j.running /\ j'.committing = j.committing /\ j'.nextTid = j.nextTid
  BY <1>0, <1>1 DEF JournalType
<1>3. TypeInv'
  <2>1. sb' \in [start : Int, seq : Nat]
    BY <1>0, <1>1 DEF TypeInv, JournalType, UpdateFlushed, SbNow
  <2>2. BufferType' /\ stage' \in Stages
    BY <1>0, <1>1 DEF BufferType, Stages
  <2> QED
    BY <1>0, <1>1, <1>2, <2>1, <2>2 DEF TypeInv
<1>4. ControlInv'
  BY <1>0, <1>1, <1>2 DEF ControlInv
<1>5. DescInv'
  <2>1. desc = <<>> /\ copying = {}
    BY <1>0, <1>1 DEF DescInv
  <2> QED
    BY <1>0, <1>1, <2>1 DEF DescInv
<1>6. CommitLists' = CommitLists
  BY <1>1 DEF CommitLists
<1>7. ListInv'
  BY <1>0, <1>1, <1>2, <1>6 DEF ListInv
<1>8. SizeInv'
  <2>1. \A b \in Block : Unmoved(buf[b], buf'[b])
    BY <1>1 DEF Unmoved
  <2>2. Unwritten' = Unwritten /\ Claims' = Claims
    BY <1>1, <1>2, <2>1, SameSets
  <2> QED
    BY <1>0, <1>1, <1>2, <2>2 DEF SizeInv
<1>9. ASSUME Ample PROVE SpaceInv'
  <2>1. ~Writing /\ ~Writing'
    BY <1>1 DEF Writing
  <2> QED
    BY <1>2, <1>9, <2>1, IdleSpace
<1>10. Orderly => AheadInv'
  <2>1. Committed' = Committed
    BY <1>1 DEF Committed
  <2> QED
    BY <1>1, <2>1 DEF IInv, AheadInv, Opening
<1> QED
  BY <1>3, <1>4, <1>5, <1>7, <1>8, <1>9, <1>10 DEF IInv, Ample

LEMMA CommitRecordDoneInv ==
  ASSUME IInv, CommitRecordDone
  PROVE  IInv'
<1>0. TypeInv /\ ControlInv /\ DescInv /\ ListInv /\ SizeInv /\ JournalType /\ BufferType
  BY DEF IInv, TypeInv
<1>1. /\ stage = "record" /\ stage' = "forget"
      /\ UNCHANGED <<sb, sbio, buf, j, access, start, desc, copying, revoke, crevoke, mode, use, freedBy, stable>>
  BY DEF CommitRecordDone, machine, fs
<1>2. TypeInv'
  <2>1. BufferType' /\ JournalType' /\ stage' \in Stages
    BY <1>0, <1>1 DEF BufferType, JournalType, Stages
  <2> QED
    BY <1>0, <1>1, <2>1 DEF TypeInv
<1>3. ControlInv'
  BY <1>0, <1>1 DEF ControlInv
<1>4. DescInv'
  <2>1. desc = <<>> /\ copying = {}
    BY <1>0, <1>1 DEF DescInv
  <2> QED
    BY <1>0, <1>1, <2>1 DEF DescInv
<1>5. CommitLists' = CommitLists
  BY <1>1 DEF CommitLists
<1>6. ListInv'
  BY <1>0, <1>1, <1>5 DEF ListInv
<1>7. SizeInv'
  <2>1. \A b \in Block : Unmoved(buf[b], buf'[b])
    BY <1>1 DEF Unmoved
  <2>2. Unwritten' = Unwritten /\ Claims' = Claims
    BY <1>1, <2>1, SameSets
  <2> QED
    BY <1>0, <1>1, <2>2 DEF SizeInv
<1>8. ASSUME Ample PROVE SpaceInv'
  <2>1. ~Writing /\ ~Writing'
    BY <1>1 DEF Writing
  <2>2. JournalType'
    BY <1>0, <1>1 DEF JournalType
  <2> QED
    BY <1>1, <1>8, <2>1, <2>2, IdleSpace
<1>9. ASSUME Orderly PROVE AheadInv'
  <2>o. Opening' = Opening
    BY <1>1 DEF Opening
  <2>p. \A b \in Block : b \in Opening => ~buf'[b].lk
    BY <1>1, <1>9 DEF IInv, AheadInv
  <2> SUFFICES ASSUME NEW b \in Block PROVE Ahead(buf'[b], Committed')
    BY <2>o, <2>p DEF AheadInv
  <2>1. Committed \in Int /\ Committed' \in Int /\ Committed <= Committed'
    BY <1>0, <1>1 DEF Committed, ControlInv, TypeInv, JournalType
  <2>2. IsBuffer(buf[b]) /\ Ahead(buf[b], Committed)
    BY <1>0, <1>9 DEF IInv, AheadInv, BufferType
  <2>3. buf'[b] = buf[b] /\ Unmoved(buf[b], buf'[b]) /\ Calm(buf[b], buf'[b])
    BY <1>1 DEF Unmoved, Calm
  <2> QED
    BY <2>1, <2>2, <2>3, AheadCalm
<1> QED
  BY <1>2, <1>3, <1>4, <1>6, <1>7, <1>8, <1>9 DEF IInv, Ample

LEMMA CommitFinishInv ==
  ASSUME IInv, CommitFinish
  PROVE  IInv'
<1>0. TypeInv /\ ControlInv /\ DescInv /\ ListInv /\ SizeInv /\ JournalType /\ BufferType
  BY DEF IInv, TypeInv
<1>1. /\ stage = "forget" /\ stage' = "idle" /\ On(j.committing, "Forget") = {}
      /\ stable' = j.committing /\ j' = [j EXCEPT !.committing = 0]
      /\ UNCHANGED <<sb, sbio, buf, access, start, desc, copying, revoke, crevoke, mode, use, freedBy>>
  BY DEF CommitFinish, disk, machine, fs
<1>2. /\ JournalType' /\ j'.free = j.free
      /\ j'.running = j.running /\ j'.committing = 0 /\ j'.nextTid = j.nextTid
  BY <1>0, <1>1, ZeroTid DEF JournalType
<1>t. j.running \in 0..MaxTid /\ j.committing \in 0..MaxTid /\ j.nextTid \in Nat /\ stable \in Int /\ MaxTid \in Nat
  BY <1>0, ZeroTid DEF JournalType, TypeInv
<1>3. TypeInv'
  <2>1. BufferType' /\ stage' \in Stages /\ stable' \in Int
    BY <1>0, <1>1, <1>t DEF BufferType, Stages
  <2> QED
    BY <1>0, <1>1, <1>2, <2>1 DEF TypeInv
<1>4. ControlInv'
  BY <1>0, <1>1, <1>2, <1>t DEF ControlInv
<1>5. DescInv'
  <2>1. desc = <<>> /\ copying = {}
    BY <1>0, <1>1 DEF DescInv
  <2> QED
    BY <1>0, <1>1, <2>1 DEF DescInv
<1>6. CommitLists' = CommitLists /\ CommitLists = {"Forget"}
  BY <1>1 DEF CommitLists
<1>7. ListInv'
  <2> SUFFICES ASSUME NEW b \in Block
               PROVE  /\ Filed(buf[b], j.running, 0, CommitLists)
                      /\ b \in access => buf[b].tr = 0 \/ j.running \in {buf[b].tr, buf[b].nxt}
                      /\ use[b] = FREE => b \notin access /\ buf[b].nxt = 0 /\ buf[b].tr <= freedBy[b]
    BY <1>1, <1>2, <1>6 DEF ListInv
  <2>1. /\ Filed(buf[b], j.running, j.committing, CommitLists)
        /\ b \in access => buf[b].tr = 0 \/ j.running \in {buf[b].tr, buf[b].nxt}
        /\ use[b] = FREE => b \notin access /\ buf[b].nxt = 0 /\ buf[b].tr <= freedBy[b]
    BY <1>0 DEF ListInv
  <2>2. ~(buf[b].tr = j.committing /\ buf[b].jl = "Forget")
    BY <1>1 DEF On
  <2>3. buf[b].tr = 0 \/ buf[b].tr # j.committing
    BY <1>6, <2>1, <2>2 DEF Filed
  <2>4. Filed(buf[b], j.running, 0, CommitLists)
    BY <2>1, <2>3 DEF Filed
  <2> QED
    BY <2>1, <2>4
<1>8. SizeInv'
  <2>1. Claims' = Claims
    BY <1>1, <1>2 DEF Claims, On
  <2> QED
    BY <1>0, <1>1, <1>2, <2>1 DEF SizeInv
<1>9. ASSUME Ample PROVE SpaceInv'
  <2>1. ~Writing /\ ~Writing'
    BY <1>1 DEF Writing
  <2> QED
    BY <1>2, <1>9, <2>1, IdleSpace
<1>10. Orderly => AheadInv'
  <2>1. Committed' = Committed
    BY <1>1 DEF Committed
  <2> QED
    BY <1>1, <2>1 DEF IInv, AheadInv, Opening
<1> QED
  BY <1>3, <1>4, <1>5, <1>7, <1>8, <1>9, <1>10 DEF IInv, Ample

\* Reserved buffers leave the transaction; the others stay.
Released(x, y, T) ==
  /\ IsBuffer(y) /\ y.nxt = 0 /\ y.data = x.data /\ (y.lk <=> x.lk)
  /\ x.tr = T /\ x.jl = "Reserved" => y.tr = 0 /\ y.jl = "None" /\ ~y.jd /\ (y.d <=> x.d \/ x.jd)
  /\ ~(x.tr = T /\ x.jl = "Reserved") => y.tr = x.tr /\ y.jl = x.jl /\ (y.jd <=> x.jd) /\ (y.d <=> x.d)

LEMMA CommitFlushInv ==
  ASSUME IInv, CommitFlush
  PROVE  IInv'
<1> DEFINE T == j.running
           Release(b) == IF b \in On(T, "Reserved") THEN Refile(buf[b]) ELSE buf[b]
<1>0. TypeInv /\ ControlInv /\ DescInv /\ ListInv /\ SizeInv /\ JournalType /\ BufferType
  BY DEF IInv, TypeInv
<1>1. /\ stage = "locked" /\ stage' = "data" /\ access = {} /\ access' = {}
      /\ j' = [j EXCEPT !.committing = T, !.running = 0]
      /\ start' = [start EXCEPT ![T] = j.head]
      /\ crevoke' = revoke /\ revoke' = {}
      /\ UNCHANGED <<sb, sbio, desc, copying, mode, use, freedBy, stable>>
  BY DEF CommitFlush, disk, machine, fs
<1>b. PICK S \in SUBSET Block :
        buf' = [b \in Block |-> IF b \in S THEN [Release(b) EXCEPT !.cp = 0] ELSE Release(b)]
  BY DEF CommitFlush
<1>t. /\ T \in 0..MaxTid /\ T # 0 /\ j.committing = 0 /\ j.nextTid \in Nat /\ stable \in Int /\ MaxTid \in Nat
      /\ j.head \in Int /\ j.free \in Int
  BY <1>0, <1>1, ZeroTid DEF JournalType, TypeInv, ControlInv
<1>2. /\ JournalType' /\ j'.free = j.free
      /\ j'.running = 0 /\ j'.committing = T /\ j'.nextTid = j.nextTid
  <2>1. j' = [head |-> j.head, free |-> j.free, tail |-> j.tail, tailSeq |-> j.tailSeq,
              nextTid |-> j.nextTid, running |-> 0, committing |-> T, flushed |-> j.flushed]
    BY <1>0, <1>1 DEF JournalType
  <2> QED
    BY <1>0, <1>t, <2>1, ZeroTid DEF JournalType
<1>l. \A b \in Block : /\ IsBuffer(buf[b]) /\ Filed(buf[b], T, 0, CommitLists)
                       /\ use[b] = FREE => buf[b].tr <= freedBy[b]
  BY <1>0, <1>t DEF ListInv, BufferType
<1>3. \A b \in Block : Released(buf[b], buf'[b], T)
  <2> SUFFICES ASSUME NEW b \in Block PROVE Released(buf[b], buf'[b], T)
    OBVIOUS
  <2> DEFINE r == Release(b)  x == buf[b]
  <2>1. IsBuffer(x) /\ x.nxt = 0
    BY <1>l DEF Filed
  <2>2. Released(x, r, T)
    <3>1. CASE b \in On(T, "Reserved")
      <4>1. x.tr = T /\ x.jl = "Reserved" /\ r = Refile(x)
        BY <3>1 DEF On
      <4>2. /\ IsBuffer(r) /\ r.tr = x.nxt /\ r.nxt = 0 /\ r.data = x.data /\ (r.lk <=> x.lk)
            /\ r.jl = "None" /\ ~r.jd /\ (r.d <=> x.d \/ x.jd)
        BY <2>1, <4>1, RefileFields
      <4> QED
        BY <2>1, <4>1, <4>2 DEF Released
    <3>2. CASE b \notin On(T, "Reserved")
      <4>1. ~(x.tr = T /\ x.jl = "Reserved") /\ r = x
        BY <3>2 DEF On
      <4> QED
        BY <2>1, <4>1 DEF Released
    <3> QED
      BY <3>1, <3>2
  <2>3. buf'[b] = r \/ buf'[b] = [r EXCEPT !.cp = 0]
    BY <1>b
  <2> HIDE DEF r
  <2>4. IsBuffer(r)
    BY <2>2 DEF Released
  <2>5. /\ IsBuffer(buf'[b]) /\ buf'[b].tr = r.tr /\ buf'[b].jl = r.jl /\ buf'[b].nxt = r.nxt
        /\ buf'[b].data = r.data /\ (buf'[b].jd <=> r.jd) /\ (buf'[b].d <=> r.d) /\ (buf'[b].lk <=> r.lk)
    <3>1. CASE buf'[b] = r
      BY <2>4, <3>1
    <3>2. CASE buf'[b] = [r EXCEPT !.cp = 0]
      <4>1. buf'[b] = WithCp(r, 0)
        BY <3>2 DEF WithCp
      <4> QED
        BY <2>4, <4>1, CheckpointFields, ZeroTid
    <3> QED
      BY <2>3, <3>1, <3>2
  <2> QED
    BY <2>2, <2>5 DEF Released
<1>4. TypeInv'
  <2>1. BufferType'
    BY <1>b, <1>3 DEF BufferType, Released
  <2>2. start' \in [0..MaxTid -> Int] /\ stage' \in Stages /\ access' \subseteq Block
    BY <1>0, <1>1, <1>t DEF TypeInv, Stages
  <2> QED
    BY <1>0, <1>1, <1>2, <2>1, <2>2 DEF TypeInv
<1>5. ControlInv'
  BY <1>0, <1>1, <1>2, <1>t DEF ControlInv
<1>6. desc = <<>> /\ copying = {} /\ DescInv'
  <2>1. desc = <<>> /\ copying = {}
    BY <1>0, <1>1 DEF DescInv
  <2> QED
    BY <1>0, <1>1, <2>1 DEF DescInv
<1>7. ListInv'
  <2> SUFFICES ASSUME NEW b \in Block
               PROVE  /\ Filed(buf'[b], 0, T, {"Metadata", "Forget"})
                      /\ use[b] = FREE => buf'[b].nxt = 0 /\ buf'[b].tr <= freedBy[b]
    BY <1>1, <1>2 DEF ListInv, CommitLists
  <2>1. Filed(buf[b], T, 0, CommitLists) /\ Released(buf[b], buf'[b], T)
    BY <1>l, <1>3
  <2>2. Filed(buf'[b], 0, T, {"Metadata", "Forget"})
    <3>1. CASE buf[b].tr = T /\ buf[b].jl = "Reserved"
      BY <1>t, <2>1, <3>1 DEF Filed, Released
    <3>2. CASE ~(buf[b].tr = T /\ buf[b].jl = "Reserved")
      BY <1>t, <2>1, <3>2 DEF Filed, Released
    <3> QED
      BY <3>1, <3>2
  <2>3. freedBy[b] \in Nat
    BY <1>0 DEF TypeInv
  <2>4. use[b] = FREE => buf'[b].nxt = 0 /\ buf'[b].tr <= freedBy[b]
    BY <1>l, <2>1, <2>3 DEF Released
  <2> QED
    BY <2>2, <2>4
<1>8. Cardinality(Unwritten') <= MaxTransaction /\ Cardinality(Unwritten') \in Nat
  <2>1. Unwritten' \subseteq Claims
    <3> SUFFICES ASSUME NEW b \in Unwritten' PROVE b \in Claims
      OBVIOUS
    <3>1. b \in Block /\ buf'[b].tr = T /\ buf'[b].jl = "Metadata"
      BY <1>2 DEF Unwritten, On
    <3>2. buf[b].tr = T /\ buf[b].jl = "Metadata"
      BY <1>3, <1>t, <3>1 DEF Released
    <3> QED
      BY <3>1, <3>2 DEF Claims, On
  <2>2. IsFiniteSet(Claims) /\ Cardinality(Claims) \in Nat
    BY <1>0, Sizes
  <2>3. IsFiniteSet(Unwritten') /\ Cardinality(Unwritten') <= Cardinality(Claims)
    BY <2>1, <2>2, FS_Subset
  <2>4. Cardinality(Unwritten') \in Nat
    BY <2>3, FS_CardinalityType
  <2>5. Cardinality(Claims) <= MaxTransaction
    BY <1>0, <1>t DEF SizeInv
  <2> QED
    BY <2>2, <2>3, <2>4, <2>5, JbdAssumption
<1>9. SizeInv'
  <2>1. Cardinality(revoke') = 0 /\ MaxRevoke \in Nat
    BY <1>1, FS_EmptySet, JbdAssumption
  <2> QED
    BY <1>0, <1>1, <1>2, <1>8, <2>1 DEF SizeInv
<1>10. ASSUME Ample PROVE SpaceInv'
  <2>1. ~Writing
    BY <1>1 DEF Writing
  <2>2. PICK k \in Nat : MaxTransaction <= k * TagsPerBlock /\ j.free > MaxTransaction + k + RevokeBlocks(MaxRevoke) + 1
    <3>1. SpaceInv
      BY <1>10 DEF IInv
    <3>2. PICK k, m \in Nat : MaxTransaction <= k * TagsPerBlock /\ j.free > 0 + MaxTransaction + k + RevokeBlocks(MaxRevoke) + 1
      BY <1>t, <2>1, <3>1 DEF SpaceInv
    <3>3. RevokeBlocks(MaxRevoke) \in Nat
      BY <1>0, Sizes
    <3> QED
      BY <3>2, <3>3, JbdAssumption
  <2> DEFINE u == Cardinality(Unwritten')  r == RevokeBlocks(Cardinality(crevoke'))  R == RevokeBlocks(MaxRevoke)
  <2>r. r \in Nat /\ R \in Nat /\ r <= R
    <3>1. Cardinality(revoke) \in Nat /\ MaxRevoke \in Nat
      BY <1>0, Sizes, FS_CardinalityType, JbdAssumption
    <3>2. Cardinality(revoke) <= MaxRevoke
      BY <1>0 DEF SizeInv
    <3> QED
      BY <1>1, <3>1, <3>2, RevokeBlocksMonotone
  <2>3. u \in Nat /\ u <= MaxTransaction /\ MaxTransaction \in Nat /\ k * TagsPerBlock \in Nat
    BY <1>8, JbdAssumption
  <2>4. desc' = <<>> /\ Len(desc') = 0
    BY <1>1, <1>6
  <2>5. Suffices(k)'
    BY <2>2, <2>3, <2>4 DEF Suffices
  <2>6. Needs(k)' = u + k + r + 1
    BY <2>4 DEF Needs
  <2>8. j.free > MaxTransaction + k + R + 1
    BY <2>2
  <2> HIDE DEF u, r, R
  <2>7. j'.free > Needs(k)'
    BY <1>2, <1>t, <2>8, <2>3, <2>6, <2>r
  <2> QED
    BY <1>2, <2>5, <2>7 DEF SpaceInv
<1>11. ASSUME Orderly PROVE AheadInv'
  <2> SUFFICES ASSUME NEW b \in Block PROVE Ahead(buf'[b], Committed')
    BY <1>1 DEF AheadInv, Opening
  <2>1. Committed' = Committed
    BY <1>1 DEF Committed
  <2>2. /\ Ahead(buf[b], Committed) /\ IsBuffer(buf[b])
        /\ Released(buf[b], buf'[b], T) /\ Filed(buf[b], T, 0, CommitLists)
    BY <1>3, <1>l, <1>11 DEF IInv, AheadInv
  <2>3. buf[b].nxt = 0
    BY <2>2 DEF Filed
  <2>4. CASE buf[b].tr = T /\ buf[b].jl = "Reserved"
    BY <1>t, <2>1, <2>2, <2>3, <2>4 DEF Ahead, Released
  <2>5. CASE ~(buf[b].tr = T /\ buf[b].jl = "Reserved")
    BY <1>t, <2>1, <2>2, <2>3, <2>5 DEF Ahead, Released
  <2> QED
    BY <2>4, <2>5
<1> QED
  BY <1>4, <1>5, <1>6, <1>7, <1>9, <1>10, <1>11 DEF IInv, Ample

LEMMA CommitDataInv ==
  ASSUME IInv, CommitData
  PROVE  IInv'
<1> DEFINE n == RevokeBlocks(Cardinality(crevoke))
<1>0. TypeInv /\ ControlInv /\ DescInv /\ ListInv /\ SizeInv /\ JournalType /\ BufferType
  BY DEF IInv, TypeInv
<1>1. /\ stage = "data" /\ stage' = "write" /\ crevoke' = {} /\ NextLogBlock(n)
      /\ UNCHANGED <<sb, sbio, buf, access, revoke, start, desc, copying, mode, use, freedBy, stable>>
  BY DEF CommitData, machine
<1>2. /\ JournalType' /\ j'.free = j.free - n
      /\ j'.running = j.running /\ j'.committing = j.committing /\ j'.nextTid = j.nextTid
  <2>1. n \in Nat
    BY <1>0, Sizes
  <2> QED
    BY <1>0, <1>1, <2>1, Allocated
<1>3. TypeInv'
  <2>1. BufferType' /\ stage' \in Stages
    BY <1>0, <1>1 DEF BufferType, Stages
  <2> QED
    BY <1>0, <1>1, <1>2, <2>1 DEF TypeInv
<1>4. ControlInv'
  BY <1>0, <1>1, <1>2 DEF ControlInv
<1>5. desc = <<>> /\ DescInv'
  <2>1. desc = <<>> /\ copying = {}
    BY <1>0, <1>1 DEF DescInv
  <2> QED
    BY <1>0, <1>1, <2>1 DEF DescInv
<1>6. ListInv'
  <2>1. CommitLists \subseteq CommitLists'
    BY <1>1 DEF CommitLists
  <2> SUFFICES ASSUME NEW b \in Block PROVE Filed(buf[b], j.running, j.committing, CommitLists')
    BY <1>0, <1>1, <1>2 DEF ListInv
  <2>2. Filed(buf[b], j.running, j.committing, CommitLists)
    BY <1>0 DEF ListInv
  <2> QED
    BY <2>1, <2>2 DEF Filed
<1>7. Unwritten' = Unwritten /\ Claims' = Claims
  <2>1. \A b \in Block : Unmoved(buf[b], buf'[b])
    BY <1>1 DEF Unmoved
  <2> QED
    BY <1>1, <1>2, <2>1, SameSets
<1>r. Cardinality(crevoke') = 0 /\ RevokeBlocks(Cardinality(crevoke')) = 0 /\ MaxRevoke \in Nat
  BY <1>1, FS_EmptySet, RevokeBlocksZero, JbdAssumption
<1>8. SizeInv'
  BY <1>0, <1>1, <1>2, <1>7, <1>r DEF SizeInv
<1>9. ASSUME Ample PROVE SpaceInv'
  <2>1. SpaceInv /\ Writing /\ Writing'
    BY <1>1, <1>9 DEF IInv, Writing
  <2>2. ASSUME NEW m \in Nat
        PROVE  /\ Needs(m) \in Int /\ Needs(m)' = Needs(m) - n
               /\ Suffices(m) => Suffices(m)'
    <3>1. Needs(m) \in Int /\ Cardinality(Unwritten) \in Nat /\ n \in Nat
      BY <1>0, Sizes
    <3>2. Needs(m) = Cardinality(Unwritten) + m + n + 1 /\ Needs(m)' = Cardinality(Unwritten) + m + 0 + 1
      BY <1>1, <1>5, <1>7, <1>r DEF Needs
    <3>3. Suffices(m) => Suffices(m)'
      BY <1>1, <1>7 DEF Suffices
    <3> HIDE DEF n
    <3> QED
      BY <3>1, <3>2, <3>3
  <2>3. j.free \in Int /\ MaxTransaction \in Nat /\ n \in Nat /\ j'.free = j.free - n
    BY <1>0, <1>2, Sizes, JbdAssumption DEF JournalType
  <2>R. RevokeBlocks(MaxRevoke) \in Nat
    BY <1>0, Sizes
  <2> HIDE DEF n
  <2>4. \E m \in Nat : Suffices(m)' /\ j'.free > Needs(m)'
    BY <2>1, <2>2, <2>3 DEF SpaceInv
  <2>5. j'.running # 0 =>
          \E k, m \in Nat : /\ MaxTransaction <= k * TagsPerBlock /\ Suffices(m)'
                            /\ j'.free > Needs(m)' + MaxTransaction + k + RevokeBlocks(MaxRevoke) + 1
    <3> HAVE j'.running # 0
    <3>1. PICK k, m \in Nat : /\ MaxTransaction <= k * TagsPerBlock /\ Suffices(m)
                              /\ j.free > Needs(m) + MaxTransaction + k + RevokeBlocks(MaxRevoke) + 1
      BY <1>2, <2>1 DEF SpaceInv
    <3>2. j'.free > Needs(m)' + MaxTransaction + k + RevokeBlocks(MaxRevoke) + 1
      BY <2>2, <2>3, <2>R, <3>1
    <3> QED
      BY <2>2, <3>1, <3>2
  <2> QED
    BY <2>1, <2>4, <2>5 DEF SpaceInv
<1>10. Orderly => AheadInv'
  <2>1. Committed' = Committed
    BY <1>1 DEF Committed
  <2> QED
    BY <1>1, <2>1 DEF IInv, AheadInv, Opening
<1> QED
  BY <1>3, <1>4, <1>5, <1>6, <1>8, <1>9, <1>10 DEF IInv, Ample

\* The descriptors still needed when one with l tags is closed, because it is
\* full or because none of u buffers is left.
LEMMA CloseStep ==
  ASSUME NEW m \in Nat, NEW u \in Nat, NEW l \in Nat \ {0}, NEW t \in Nat \ {0},
         u + l <= m * t
  PROVE  /\ m - 1 \in Nat /\ (m - 1) * t \in Nat
         /\ l = t \/ u = 0 => u <= (m - 1) * t
<1>1. m # 0
  <2> SUFFICES ASSUME m = 0 PROVE FALSE
    OBVIOUS
  <2>1. m * t = 0
    OBVIOUS
  <2> QED
    BY <2>1
<1>2. m - 1 \in Nat
  BY <1>1
<1>3. (m - 1) * t \in Nat
  BY <1>2
<1>4. (m - 1) * t = m * t - t
  OBVIOUS
<1>5. m * t \in Nat
  OBVIOUS
<1> QED
  BY <1>2, <1>3, <1>4, <1>5

\* One buffer of the committing transaction is logged: its place in the lists
\* of the transaction may change, n blocks of the log are taken, and what the
\* commit still needs falls by as many.
LEMMA LoggedInv ==
  ASSUME IInv, NEW b \in Block, NEW n \in Nat, DescInv',
         stage = "write", b \in On(j.committing, "Metadata"),
         JournalType', j'.free = j.free - n,
         j'.running = j.running, j'.committing = j.committing, j'.nextTid = j.nextTid,
         DOMAIN buf' = Block, \A c \in Block : c # b => buf'[c] = buf[c],
         IsBuffer(buf'[b]), buf'[b].tr = buf[b].tr, buf'[b].nxt = buf[b].nxt,
         buf'[b].jl \in {"Metadata", "Shadow"}, buf'[b].data = buf[b].data,
         (buf'[b].jd => buf[b].jd \/ buf[b].d), buf'[b].d => buf[b].d, (buf'[b].lk <=> buf[b].lk),
         \E S : desc' \in Seq(S), Unwritten' \subseteq Unwritten,
         \A m \in Nat : Suffices(m) => \E d \in Nat : Suffices(d)' /\ Needs(d)' = Needs(m) - n,
         UNCHANGED <<sb, sbio, access, revoke, crevoke, start, stage, mode, use, freedBy, stable>>
  PROVE  IInv'
<1> DEFINE T == j.committing
<1>0. TypeInv /\ ControlInv /\ DescInv /\ ListInv /\ SizeInv /\ JournalType /\ BufferType
  BY DEF IInv, TypeInv
<1>t. T \in 1..MaxTid /\ j.running \in 0..MaxTid /\ MaxTid \in Nat /\ (j.running # 0 => T < j.running)
  BY <1>0, ZeroTid DEF ControlInv, JournalType
<1>x. IsBuffer(buf[b]) /\ Filed(buf[b], j.running, T, CommitLists) /\ buf[b].tr = T /\ buf[b].jl = "Metadata"
  BY <1>0 DEF BufferType, ListInv, On
<1>3. TypeInv'
  <2>1. BufferType'
    <3> SUFFICES ASSUME NEW c \in Block PROVE IsBuffer(buf'[c])
      BY DEF BufferType
    <3>1. IsBuffer(buf[c])
      BY <1>0 DEF BufferType
    <3> QED
      BY <3>1
  <2> QED
    BY <1>0, <2>1 DEF TypeInv
<1>4. ControlInv'
  BY <1>0 DEF ControlInv
<1>6. ListInv'
  <2>1. CommitLists' = CommitLists /\ CommitLists = {"Metadata", "Shadow", "Forget"}
    BY DEF CommitLists
  <2> SUFFICES ASSUME NEW c \in Block
               PROVE  /\ Filed(buf'[c], j.running, T, CommitLists)
                      /\ c \in access => buf'[c].tr = 0 \/ j.running \in {buf'[c].tr, buf'[c].nxt}
                      /\ use[c] = FREE => c \notin access /\ buf'[c].nxt = 0 /\ buf'[c].tr <= freedBy[c]
    BY <2>1 DEF ListInv
  <2>2. /\ Filed(buf[c], j.running, T, CommitLists)
        /\ c \in access => buf[c].tr = 0 \/ j.running \in {buf[c].tr, buf[c].nxt}
        /\ use[c] = FREE => c \notin access /\ buf[c].nxt = 0 /\ buf[c].tr <= freedBy[c]
    BY <1>0 DEF ListInv
  <2>3. CASE c # b
    BY <2>2, <2>3
  <2>4. CASE c = b
    <3>1. Filed(buf'[b], j.running, T, CommitLists)
      BY <1>x, <1>t, <2>1 DEF Filed
    <3> QED
      BY <1>x, <2>2, <2>4, <3>1
  <2> QED
    BY <2>3, <2>4
<1>7. SizeInv'
  <2>1. j.running # 0 => Claims' = Claims
    <3> HAVE j.running # 0
    <3>1. \A c \in Block : /\ buf'[c].nxt = buf[c].nxt
                           /\ (buf'[c].tr = j.running /\ buf'[c].jl = "Metadata")
                                <=> (buf[c].tr = j.running /\ buf[c].jl = "Metadata")
      BY <1>x, <1>t
    <3> QED
      BY <3>1 DEF Claims, On
  <2>2. Cardinality(Unwritten) <= MaxTransaction
    BY <1>0, <1>t DEF SizeInv
  <2>3. Cardinality(Unwritten') <= MaxTransaction
    <3>1. IsFiniteSet(Unwritten)
      BY <1>0, Sizes
    <3>2. IsFiniteSet(Unwritten') /\ Cardinality(Unwritten') <= Cardinality(Unwritten)
      BY <3>1, FS_Subset
    <3>3. Cardinality(Unwritten') \in Nat /\ Cardinality(Unwritten) \in Nat
      BY <3>1, <3>2, FS_CardinalityType
    <3> QED
      BY <2>2, <3>2, <3>3, JbdAssumption
  <2> QED
    BY <1>0, <2>1, <2>3 DEF SizeInv
<1>9. ASSUME Ample PROVE SpaceInv'
  <2>1. SpaceInv /\ Writing /\ Writing'
    BY <1>9 DEF IInv, Writing
  <2>2. /\ j.free \in Int /\ MaxTransaction \in Nat /\ RevokeBlocks(MaxRevoke) \in Nat
        /\ \A m \in Nat : Needs(m) \in Int
    BY <1>0, Sizes, JbdAssumption DEF JournalType
  <2>3. \E m \in Nat : Suffices(m)' /\ j'.free > Needs(m)'
    <3>1. PICK m \in Nat : Suffices(m) /\ j.free > Needs(m)
      BY <2>1 DEF SpaceInv
    <3>2. PICK d \in Nat : Suffices(d)' /\ Needs(d)' = Needs(m) - n
      BY <3>1
    <3>3. j'.free > Needs(d)'
      BY <2>2, <3>1, <3>2
    <3> QED
      BY <3>2, <3>3
  <2>4. j'.running # 0 =>
          \E k, m \in Nat : /\ MaxTransaction <= k * TagsPerBlock /\ Suffices(m)'
                            /\ j'.free > Needs(m)' + MaxTransaction + k + RevokeBlocks(MaxRevoke) + 1
    <3> HAVE j'.running # 0
    <3>1. PICK k, m \in Nat : /\ MaxTransaction <= k * TagsPerBlock /\ Suffices(m)
                              /\ j.free > Needs(m) + MaxTransaction + k + RevokeBlocks(MaxRevoke) + 1
      BY <2>1 DEF SpaceInv
    <3>2. PICK d \in Nat : Suffices(d)' /\ Needs(d)' = Needs(m) - n
      BY <3>1
    <3> DEFINE a == Needs(m)  R == RevokeBlocks(MaxRevoke)
    <3>3. /\ a \in Int /\ R \in Nat /\ Needs(d)' = a - n
          /\ j.free > a + MaxTransaction + k + R + 1
      BY <2>2, <3>1, <3>2
    <3> HIDE DEF a, R
    <3>4. j'.free > Needs(d)' + MaxTransaction + k + R + 1
      <4>1. j.free \in Int /\ MaxTransaction \in Nat /\ k \in Nat /\ n \in Nat
        BY <2>2
      <4>2. j.free - n > (a - n) + MaxTransaction + k + R + 1
        BY <3>3, <4>1
      <4> QED
        BY <3>3, <4>2
    <3> QED
      BY <3>1, <3>2, <3>4 DEF R
  <2> QED
    BY <2>1, <2>3, <2>4 DEF SpaceInv
<1>10. ASSUME Orderly PROVE AheadInv'
  <2> SUFFICES ASSUME NEW c \in Block
               PROVE  Ahead(buf'[c], Committed) /\ (c \in access /\ buf'[c].tr = 0 => ~buf'[c].lk)
    BY DEF AheadInv, Committed, Opening
  <2>1. Ahead(buf[c], Committed) /\ (c \in access /\ buf[c].tr = 0 => ~buf[c].lk)
    BY <1>10 DEF IInv, AheadInv, Opening
  <2>2. CASE c # b
    BY <2>1, <2>2
  <2>3. CASE c = b
    <3> DEFINE x == buf[b]  y == buf'[b]
    <3>1. /\ Ahead(x, Committed) /\ IsBuffer(x) /\ IsBuffer(y) /\ x.tr = T
          /\ y.tr = x.tr /\ y.nxt = x.nxt /\ y.jl \in {"Metadata", "Shadow"} /\ y.data = x.data
          /\ (y.jd => x.jd \/ x.d) /\ (y.d => x.d) /\ (y.lk <=> x.lk)
      BY <1>x, <2>1, <2>3
    <3>2. Ahead(y, Committed)
      <4> HIDE DEF x, y
      <4> QED
        BY <1>t, <3>1 DEF Ahead
    <3> QED
      BY <1>t, <1>x, <2>3, <3>2
  <2> QED
    BY <2>2, <2>3
<1> QED
  BY <1>3, <1>4, <1>6, <1>7, <1>9, <1>10 DEF IInv, Ample, Orderly

\* The buffer gets its place in the log and its tag.
LEMMA WriteBufferInv ==
  ASSUME IInv, NEW b \in Block, WriteBuffer(b)
  PROVE  IInv'
<1> DEFINE T == j.committing  x == buf[b]  y == buf'[b]
           n == IF desc = <<>> THEN 2 ELSE 1
           e == [blk |-> b, pos |-> Wrap(j.head + n - 1), copy |-> CopyOut(buf[b])]
<1>0. TypeInv /\ ControlInv /\ DescInv /\ ListInv /\ SizeInv /\ JournalType /\ BufferType
  BY DEF IInv, TypeInv
<1>1. /\ stage = "write" /\ copying = {} /\ b \in Unwritten /\ NextLogBlock(n)
      /\ desc' = Append(desc, e) /\ copying' = {b}
      /\ buf' = [buf EXCEPT ![b].fz = CopyOut(buf[b])]
      /\ UNCHANGED <<sb, sbio, access, revoke, crevoke, start, stage, mode, use, freedBy, stable>>
  BY DEF WriteBuffer, disk, machine, fs
<1>2. /\ JournalType' /\ j'.free = j.free - n
      /\ j'.running = j.running /\ j'.committing = T /\ j'.nextTid = j.nextTid
  <2>1. n \in Nat
    OBVIOUS
  <2> QED
    BY <1>0, <1>1, <2>1, Allocated
<1>x. IsBuffer(x) /\ DOMAIN buf = Block /\ b \in On(T, "Metadata") /\ x.tr = T /\ x.jl = "Metadata"
  BY <1>0, <1>1 DEF BufferType, Unwritten, On
<1>y. /\ IsBuffer(y) /\ y.tr = x.tr /\ y.jl = x.jl /\ y.nxt = x.nxt /\ y.data = x.data
      /\ (y.jd <=> x.jd) /\ (y.d <=> x.d) /\ (y.lk <=> x.lk)
  <2>1. y = [x EXCEPT !.fz = CopyOut(x)]
    BY <1>1, <1>x
  <2> HIDE DEF x, y
  <2> QED
    BY <1>x, <2>1 DEF IsBuffer
<1>z. DOMAIN buf' = Block /\ \A c \in Block : c # b => buf'[c] = buf[c]
  BY <1>1, <1>x
<1>l. Len(desc') = Len(desc) + 1 /\ desc' # <<>> /\ (\E S : desc' \in Seq(S)) /\ Len(desc) \in Nat
  <2>1. PICK S : desc \in Seq(S)
    BY <1>0 DEF TypeInv
  <2> HIDE DEF e
  <2>2. desc \in Seq(S \cup {e}) /\ e \in S \cup {e}
    BY <2>1, SeqMonotonic
  <2>3. Append(desc, e) \in Seq(S \cup {e}) /\ Append(desc, e) # <<>> /\ Len(Append(desc, e)) = Len(desc) + 1
    BY <2>2, AppendProperties
  <2> QED
    BY <1>1, <2>1, <2>3, LenProperties
<1>o. On(T, "Metadata")' = On(T, "Metadata")
  <2>1. \A c \in Block : buf'[c].tr = buf[c].tr /\ buf'[c].jl = buf[c].jl
    BY <1>y, <1>z
  <2> QED
    BY <1>2, <2>1 DEF On
<1>u. Unwritten' = Unwritten \ {b}
  BY <1>1, <1>2, <1>o DEF Unwritten
<1> DEFINE u == Cardinality(Unwritten)
<1>c. u \in Nat \ {0} /\ Cardinality(Unwritten') = u - 1
  <2>1. IsFiniteSet(Unwritten) /\ u \in Nat
    BY <1>0, Sizes
  <2>2. u # 0
    BY <1>1, <2>1, FS_EmptySet
  <2>3. Cardinality(Unwritten') = u - 1
    BY <1>1, <1>u, <2>1, FS_RemoveElement
  <2> QED
    BY <2>1, <2>2, <2>3
<1>5. DescInv'
  <2>1. Len(desc) < TagsPerBlock
    BY <1>0, <1>1 DEF DescInv
  <2>2. Len(desc') <= TagsPerBlock
    BY <1>l, <2>1, JbdAssumption
  <2>3. b \in On(j.committing, "Metadata")'
    BY <1>o, <1>x
  <2> QED
    BY <1>1, <1>l, <2>2, <2>3 DEF DescInv
<1>8. ASSUME NEW m \in Nat, Suffices(m)
      PROVE  Suffices(m)' /\ Needs(m)' = Needs(m) - n
  <2> DEFINE l == Len(desc)  r == RevokeBlocks(Cardinality(crevoke))
  <2>1. u + l <= m * TagsPerBlock /\ l \in Nat /\ m * TagsPerBlock \in Nat /\ r \in Nat
    BY <1>0, <1>8, <1>l, Sizes DEF Suffices
  <2>2. Needs(m) = u + (IF desc = <<>> THEN m ELSE m - 1) + r + 1
    BY DEF Needs
  <2>3. Needs(m)' = (u - 1) + (m - 1) + r + 1
    BY <1>1, <1>c, <1>l DEF Needs
  <2>4. (u - 1) + (l + 1) <= m * TagsPerBlock
    <3> HIDE DEF u, l
    <3> QED
      BY <1>c, <2>1
  <2>5. Suffices(m)'
    BY <1>c, <1>l, <2>4 DEF Suffices
  <2>6. Needs(m)' = Needs(m) - n
    <3> HIDE DEF u, r
    <3> QED
      BY <1>c, <2>1, <2>2, <2>3
  <2> QED
    BY <2>5, <2>6
<1>9. n \in Nat
  OBVIOUS
<1>10. ASSUME NEW m \in Nat, Suffices(m)
       PROVE  \E d \in Nat : Suffices(d)' /\ Needs(d)' = Needs(m) - n
  BY <1>8, <1>10
<1>11. /\ IsBuffer(buf'[b]) /\ buf'[b].tr = buf[b].tr /\ buf'[b].nxt = buf[b].nxt
       /\ buf'[b].jl \in {"Metadata", "Shadow"} /\ buf'[b].data = buf[b].data
       /\ (buf'[b].jd => buf[b].jd \/ buf[b].d) /\ (buf'[b].d => buf[b].d) /\ (buf'[b].lk <=> buf[b].lk)
  BY <1>x, <1>y
<1> HIDE DEF n, x, y
<1> QED
  BY <1>1, <1>2, <1>x, <1>z, <1>l, <1>u, <1>5, <1>9, <1>10, <1>11, LoggedInv

\* The buffer is filed, and its descriptor closed if it is full or the last.
LEMMA ShadowBufferInv ==
  ASSUME IInv, NEW b \in Block, ShadowBuffer(b)
  PROVE  IInv'
<1> DEFINE T == j.committing  x == buf[b]  y == buf'[b]
           last == Len(desc) = TagsPerBlock \/ Unwritten = {}
<1>0. TypeInv /\ ControlInv /\ DescInv /\ ListInv /\ SizeInv /\ JournalType /\ BufferType
  BY DEF IInv, TypeInv
<1>1. /\ b \in copying /\ copying' = {}
      /\ buf' = [buf EXCEPT ![b] = File(@, T, "Shadow")]
      /\ desc' = IF last THEN <<>> ELSE desc
      /\ UNCHANGED <<j, sb, sbio, access, revoke, crevoke, start, stage, mode, use, freedBy, stable>>
  BY DEF ShadowBuffer, disk, machine, fs
<1>2. /\ stage = "write" /\ desc # <<>> /\ Len(desc) <= TagsPerBlock
      /\ copying = {b} /\ b \in On(T, "Metadata")
  BY <1>0, <1>1 DEF DescInv
<1>t. T \in 1..MaxTid /\ MaxTid \in Nat
  BY <1>0, <1>2, ZeroTid DEF ControlInv, JournalType
<1>x. IsBuffer(x) /\ DOMAIN buf = Block /\ x.tr = T /\ x.jl = "Metadata"
  BY <1>0, <1>2 DEF BufferType, On
<1>y. /\ IsBuffer(y) /\ y.tr = T /\ y.jl = "Shadow" /\ y.nxt = x.nxt /\ y.data = x.data
      /\ (y.jd <=> x.jd \/ x.d) /\ ~y.d /\ (y.lk <=> x.lk)
  <2>1. y = File(x, T, "Shadow") /\ "Shadow" \in Lists /\ T \in 0..MaxTid
    BY <1>1, <1>x, <1>t DEF Lists
  <2> QED
    BY <1>x, <2>1, FileFields
<1>z. DOMAIN buf' = Block /\ \A c \in Block : c # b => buf'[c] = buf[c]
  BY <1>1, <1>x
<1>u. Unwritten' = Unwritten
  <2>1. Unwritten = On(T, "Metadata") \ {b}
    BY <1>2 DEF Unwritten
  <2>2. Unwritten' = {c \in Block : buf'[c].tr = T /\ buf'[c].jl = "Metadata"}
    BY <1>1 DEF Unwritten, On
  <2>3. \A c \in Block : (buf'[c].tr = T /\ buf'[c].jl = "Metadata")
                           <=> c # b /\ buf[c].tr = T /\ buf[c].jl = "Metadata"
    BY <1>y, <1>z
  <2> QED
    BY <2>1, <2>2, <2>3 DEF On
<1>l. Len(desc) \in Nat \ {0} /\ (\E S : desc' \in Seq(S))
  <2>1. PICK S : desc \in Seq(S)
    BY <1>0 DEF TypeInv
  <2>2. Len(desc) \in Nat /\ Len(desc) # 0
    BY <1>2, <2>1, LenProperties, EmptySeq
  <2>3. desc' \in Seq(S)
    BY <1>1, <2>1, EmptySeq
  <2> QED
    BY <2>2, <2>3
<1>5. DescInv'
  <2>1. CASE last
    <3>1. desc' = <<>> /\ Len(desc') = 0
      BY <1>1, <2>1
    <3> QED
      BY <1>1, <3>1, JbdAssumption DEF DescInv
  <2>2. CASE ~last
    <3>1. desc' = desc /\ Len(desc) # TagsPerBlock /\ Unwritten # {}
      BY <1>1, <2>2
    <3>2. Len(desc') < TagsPerBlock
      BY <1>2, <1>l, <3>1, JbdAssumption
    <3> QED
      BY <1>1, <1>2, <1>u, <3>1, <3>2 DEF DescInv
  <2> QED
    BY <2>1, <2>2
<1>8. ASSUME NEW m \in Nat, Suffices(m)
      PROVE  \E d \in Nat : Suffices(d)' /\ Needs(d)' = Needs(m) - 0
  <2> DEFINE u == Cardinality(Unwritten)  l == Len(desc)  r == RevokeBlocks(Cardinality(crevoke))
  <2>1. /\ u + l <= m * TagsPerBlock /\ TagsPerBlock \in Nat \ {0} /\ l \in Nat \ {0}
        /\ u \in Nat /\ r \in Nat /\ (Unwritten = {} => u = 0)
    BY <1>0, <1>8, <1>l, Sizes, FS_EmptySet, JbdAssumption DEF Suffices
  <2>2. /\ m - 1 \in Nat /\ (m - 1) * TagsPerBlock \in Nat
        /\ l = TagsPerBlock \/ u = 0 => u <= (m - 1) * TagsPerBlock
    <3> HIDE DEF u, l
    <3> QED
      BY <2>1, CloseStep
  <2>3. Needs(m) = u + (m - 1) + r + 1
    BY <1>2 DEF Needs
  <2>5. CASE last
    <3>1. desc' = <<>> /\ Len(desc') = 0
      BY <1>1, <2>5
    <3>2. u + 0 <= (m - 1) * TagsPerBlock
      <4>1. l = TagsPerBlock \/ u = 0
        BY <2>1, <2>5
      <4> HIDE DEF u, l
      <4> QED
        BY <2>1, <2>2, <4>1
    <3>3. Suffices(m - 1)'
      BY <1>u, <3>1, <3>2 DEF Suffices
    <3>4. Needs(m - 1)' = u + (m - 1) + r + 1
      BY <1>1, <1>u, <3>1 DEF Needs
    <3>5. Needs(m - 1)' = Needs(m) - 0
      <4> HIDE DEF u, r
      <4> QED
        BY <2>1, <2>3, <3>4
    <3> QED
      BY <2>2, <3>3, <3>5
  <2>6. CASE ~last
    <3>1. desc' = desc
      BY <1>1, <2>6
    <3>2. Suffices(m)'
      BY <1>8, <1>u, <3>1 DEF Suffices
    <3>3. Needs(m)' = Needs(m)
      BY <1>1, <1>u, <3>1 DEF Needs
    <3>4. Needs(m) \in Int
      BY <1>0, Sizes
    <3>5. Needs(m)' = Needs(m) - 0
      BY <3>3, <3>4
    <3> QED
      BY <3>2, <3>5
  <2> QED
    BY <2>5, <2>6
<1>9. /\ JournalType' /\ j'.free = j.free - 0
      /\ j'.running = j.running /\ j'.committing = j.committing /\ j'.nextTid = j.nextTid
  BY <1>0, <1>1 DEF JournalType
<1>11. /\ IsBuffer(buf'[b]) /\ buf'[b].tr = buf[b].tr /\ buf'[b].nxt = buf[b].nxt
       /\ buf'[b].jl \in {"Metadata", "Shadow"} /\ buf'[b].data = buf[b].data
       /\ (buf'[b].jd => buf[b].jd \/ buf[b].d) /\ (buf'[b].d => buf[b].d) /\ (buf'[b].lk <=> buf[b].lk)
  BY <1>x, <1>y
<1> HIDE DEF x, y
<1> QED
  BY <1>1, <1>2, <1>z, <1>l, <1>u, <1>5, <1>8, <1>9, <1>11, LoggedInv

LEMMA CommitWaitInv ==
  ASSUME IInv, CommitWait
  PROVE  IInv'
<1> DEFINE T == j.committing
<1>0. TypeInv /\ ControlInv /\ DescInv /\ ListInv /\ SizeInv /\ JournalType /\ BufferType
  BY DEF IInv, TypeInv
<1>1. /\ stage = "write" /\ stage' = "record" /\ On(T, "Metadata") = {} /\ NextLogBlock(1)
      /\ buf' = [b \in Block |-> IF b \in On(T, "Shadow") THEN File(buf[b], T, "Forget") ELSE buf[b]]
      /\ UNCHANGED <<sb, sbio, access, start, desc, copying, revoke, crevoke, mode, use, freedBy, stable>>
  BY DEF CommitWait, machine, fs
<1>2. /\ JournalType' /\ j'.free = j.free - 1
      /\ j'.running = j.running /\ j'.committing = T /\ j'.nextTid = j.nextTid
  BY <1>0, <1>1, Allocated
<1>t. T \in 1..MaxTid /\ j.running \in 0..MaxTid /\ MaxTid \in Nat /\ (j.running # 0 => T < j.running)
  BY <1>0, <1>1, ZeroTid DEF ControlInv, JournalType
<1>b. ASSUME NEW b \in Block
      PROVE  LET x == buf[b]  y == buf'[b] IN
             /\ IsBuffer(x) /\ Filed(x, j.running, T, CommitLists) /\ ~(x.tr = T /\ x.jl = "Metadata")
             /\ IsBuffer(y) /\ y.tr = x.tr /\ y.nxt = x.nxt
             /\ x.tr = T /\ x.jl = "Shadow" =>
                  y.jl = "Forget" /\ y.data = x.data /\ (y.jd <=> x.jd \/ x.d) /\ ~y.d /\ (y.lk <=> x.lk)
             /\ ~(x.tr = T /\ x.jl = "Shadow") => y = x
  <2> DEFINE x == buf[b]  y == buf'[b]
  <2>1. IsBuffer(x) /\ Filed(x, j.running, T, CommitLists)
    BY <1>0 DEF BufferType, ListInv
  <2>2. ~(x.tr = T /\ x.jl = "Metadata")
    BY <1>1 DEF On
  <2>3. CASE b \in On(T, "Shadow")
    <3>1. y = File(x, T, "Forget") /\ T \in 0..MaxTid /\ "Forget" \in Lists /\ x.tr = T /\ x.jl = "Shadow"
      BY <1>1, <1>t, <2>3 DEF Lists, On
    <3>2. /\ IsBuffer(y) /\ y.tr = T /\ y.jl = "Forget" /\ y.nxt = x.nxt /\ y.data = x.data
          /\ (y.jd <=> x.jd \/ x.d) /\ ~y.d /\ (y.lk <=> x.lk)
      BY <2>1, <3>1, FileFields
    <3> QED
      BY <2>1, <2>2, <3>1, <3>2
  <2>4. CASE b \notin On(T, "Shadow")
    <3>1. y = x /\ ~(x.tr = T /\ x.jl = "Shadow")
      BY <1>1, <2>4 DEF On
    <3> QED
      BY <2>1, <2>2, <3>1
  <2> QED
    BY <2>3, <2>4
<1>3. TypeInv'
  <2>1. BufferType' /\ stage' \in Stages
    BY <1>1, <1>b DEF BufferType, Stages
  <2> QED
    BY <1>0, <1>1, <1>2, <2>1 DEF TypeInv
<1>4. ControlInv'
  BY <1>0, <1>1, <1>2 DEF ControlInv
<1>5. desc = <<>> /\ DescInv'
  <2>1. desc = <<>> /\ copying = {}
    BY <1>0, <1>1 DEF DescInv, Unwritten
  <2> QED
    BY <1>0, <1>1, <2>1 DEF DescInv
<1>6. ListInv'
  <2>1. CommitLists' = {"Forget"} /\ CommitLists = {"Metadata", "Shadow", "Forget"}
    BY <1>1 DEF CommitLists
  <2> SUFFICES ASSUME NEW b \in Block
               PROVE  /\ Filed(buf'[b], j.running, T, {"Forget"})
                      /\ b \in access => buf'[b].tr = 0 \/ j.running \in {buf'[b].tr, buf'[b].nxt}
                      /\ use[b] = FREE => b \notin access /\ buf'[b].nxt = 0 /\ buf'[b].tr <= freedBy[b]
    BY <1>1, <1>2, <2>1 DEF ListInv
  <2>2. /\ b \in access => buf[b].tr = 0 \/ j.running \in {buf[b].tr, buf[b].nxt}
        /\ use[b] = FREE => b \notin access /\ buf[b].nxt = 0 /\ buf[b].tr <= freedBy[b]
    BY <1>0 DEF ListInv
  <2>3. buf'[b].tr = buf[b].tr /\ buf'[b].nxt = buf[b].nxt
    BY <1>b
  <2>4. CASE buf[b].tr = T /\ buf[b].jl = "Shadow"
    BY <1>t, <1>b, <2>1, <2>2, <2>3, <2>4 DEF Filed
  <2>5. CASE ~(buf[b].tr = T /\ buf[b].jl = "Shadow")
    BY <1>t, <1>b, <2>1, <2>2, <2>5 DEF Filed
  <2> QED
    BY <2>4, <2>5
<1>7. /\ j.running # 0 => Claims' = Claims
      /\ Unwritten = {} /\ Unwritten' = {}
  <2>1. Unwritten = {}
    BY <1>1 DEF Unwritten
  <2>2. ASSUME NEW b \in Block
        PROVE  /\ ~(buf'[b].tr = T /\ buf'[b].jl = "Metadata") /\ buf'[b].nxt = buf[b].nxt
               /\ j.running # 0 => ((buf'[b].tr = j.running /\ buf'[b].jl = "Metadata")
                                      <=> (buf[b].tr = j.running /\ buf[b].jl = "Metadata"))
    <3>1. CASE buf[b].tr = T /\ buf[b].jl = "Shadow"
      BY <1>t, <1>b, <3>1
    <3>2. CASE ~(buf[b].tr = T /\ buf[b].jl = "Shadow")
      BY <1>b, <3>2
    <3> QED
      BY <3>1, <3>2
  <2>3. Unwritten' = {}
    BY <1>2, <2>2 DEF Unwritten, On
  <2>4. j.running # 0 => Claims' = Claims
    BY <1>1, <1>2, <2>2 DEF Claims, On
  <2> QED
    BY <2>1, <2>3, <2>4
<1>8. SizeInv'
  BY <1>0, <1>1, <1>2, <1>7 DEF SizeInv
<1>9. ASSUME Ample PROVE SpaceInv'
  <2>1. SpaceInv /\ Writing /\ ~Writing'
    BY <1>1, <1>9 DEF IInv, Writing
  <2>2. /\ j.free \in Int /\ MaxTransaction \in Nat /\ j'.free = j.free - 1
        /\ Cardinality(Unwritten) \in Nat /\ \A m \in Nat : Needs(m) \in Int
    BY <1>0, <1>2, Sizes, JbdAssumption DEF JournalType
  <2>3. j'.running # 0 =>
          \E k, m \in Nat : /\ MaxTransaction <= k * TagsPerBlock
                            /\ j'.free > 0 + MaxTransaction + k + RevokeBlocks(MaxRevoke) + 1
    <3> HAVE j'.running # 0
    <3>1. PICK k, m \in Nat : /\ MaxTransaction <= k * TagsPerBlock
                              /\ j.free > Needs(m) + MaxTransaction + k + RevokeBlocks(MaxRevoke) + 1
      BY <1>2, <2>1 DEF SpaceInv
    <3> DEFINE u == Cardinality(Unwritten)  r == RevokeBlocks(Cardinality(crevoke))
               R == RevokeBlocks(MaxRevoke)  a == Needs(m)
    <3>2. a = u + m + r + 1
      BY <1>5 DEF Needs
    <3>3. u \in Nat /\ r \in Nat /\ R \in Nat
      BY <1>0, <2>2, Sizes
    <3>6. j.free > a + MaxTransaction + k + R + 1
      BY <3>1
    <3> HIDE DEF u, r, R, a
    <3>4. a >= 1 /\ a \in Int
      BY <3>2, <3>3
    <3>5. j'.free > 0 + MaxTransaction + k + R + 1
      BY <2>2, <3>3, <3>4, <3>6
    <3> QED
      BY <3>1, <3>5 DEF R
  <2> QED
    BY <2>1, <2>3 DEF SpaceInv
<1>10. ASSUME Orderly PROVE AheadInv'
  <2>o. \A b \in Block : b \in access /\ buf'[b].tr = 0 => ~buf'[b].lk
    <3> TAKE b \in Block
    <3>1. b \in access /\ buf[b].tr = 0 => ~buf[b].lk
      BY <1>10 DEF IInv, AheadInv, Opening
    <3> QED
      BY <1>b, <1>t, <3>1
  <2> SUFFICES ASSUME NEW b \in Block PROVE Ahead(buf'[b], Committed)
    BY <1>1, <1>2, <2>o DEF AheadInv, Committed, Opening
  <2>1. Ahead(buf[b], Committed)
    BY <1>10 DEF IInv, AheadInv
  <2>2. CASE ~(buf[b].tr = T /\ buf[b].jl = "Shadow")
    BY <1>b, <2>1, <2>2
  <2>3. CASE buf[b].tr = T /\ buf[b].jl = "Shadow"
    <3> DEFINE x == buf[b]  y == buf'[b]
    <3>1. /\ IsBuffer(x) /\ IsBuffer(y) /\ y.tr = x.tr /\ y.nxt = x.nxt /\ x.tr = T
          /\ y.jl = "Forget" /\ y.data = x.data /\ (y.jd <=> x.jd \/ x.d) /\ ~y.d /\ (y.lk <=> x.lk)
          /\ Ahead(x, Committed)
      BY <1>b, <2>1, <2>3
    <3> HIDE DEF x, y
    <3>2. Ahead(y, Committed)
      BY <1>t, <3>1 DEF Ahead
    <3> QED
      BY <3>2 DEF y
  <2> QED
    BY <2>2, <2>3
<1> QED
  BY <1>3, <1>4, <1>5, <1>6, <1>8, <1>9, <1>10 DEF IInv, Ample

LEMMA ForgetBufferInv ==
  ASSUME IInv, NEW b \in Block, ForgetBuffer(b)
  PROVE  IInv'
<1> DEFINE T == j.committing  x == buf[b]  y == buf'[b]  z == Thawed(x, CheckpointedBy(x))
<1>0. TypeInv /\ ControlInv /\ ListInv /\ JournalType /\ BufferType
  BY DEF IInv, TypeInv
<1>1. /\ stage = "forget" /\ x.tr = T /\ x.jl = "Forget"
      /\ buf' = [buf EXCEPT ![b] = Refile(z)]
      /\ UNCHANGED <<j, sb, sbio, access, start, stage, desc, copying, revoke, crevoke, mode, use, freedBy, stable>>
  BY DEF ForgetBuffer, disk, commit, machine, fs, Thawed, On
<1>t. /\ T \in 1..MaxTid /\ j.running \in 0..MaxTid /\ MaxTid \in Nat /\ (j.running # 0 => T < j.running)
      /\ CommitLists = {"Forget"} /\ Committed = T
  BY <1>0, <1>1, ZeroTid DEF ControlInv, JournalType, CommitLists, Committed
<1>x. IsBuffer(x) /\ Filed(x, j.running, T, CommitLists) /\ DOMAIN buf = Block
  BY <1>0 DEF BufferType, ListInv
<1>c. CheckpointedBy(x) \in 0..MaxTid
  BY <1>t DEF CheckpointedBy
<1>2. /\ IsBuffer(z) /\ z.tr = x.tr /\ z.jl = x.jl /\ z.nxt = x.nxt /\ z.data = x.data
      /\ (z.jd <=> x.jd) /\ (z.d <=> x.d) /\ (z.lk <=> x.lk)
  <2> DEFINE c == CheckpointedBy(x)
  <2>1. c \in 0..MaxTid /\ z = Thawed(x, c)
    BY <1>c
  <2> HIDE DEF c, z
  <2> QED
    BY <1>x, <2>1, CheckpointFields
<1> HIDE DEF z
<1>3. y = Refile(z)
  BY <1>1, <1>x
<1>4. /\ IsBuffer(y) /\ y.tr = x.nxt /\ y.nxt = 0 /\ y.data = x.data
      /\ (y.lk <=> x.lk)
      /\ x.nxt = 0 => y.jl = "None" /\ ~y.jd /\ (y.d <=> x.d \/ x.jd)
      /\ x.nxt # 0 => /\ y.jl = (IF x.jd THEN "Metadata" ELSE "Reserved")
                      /\ (y.jd <=> x.jd) /\ (y.d <=> x.d)
  <2>1. /\ IsBuffer(y) /\ y.tr = z.nxt /\ y.nxt = 0 /\ y.data = z.data
        /\ (y.lk <=> z.lk)
        /\ z.nxt = 0 => y.jl = "None" /\ ~y.jd /\ (y.d <=> z.d \/ z.jd)
        /\ z.nxt # 0 => /\ y.jl = (IF z.jd THEN "Metadata" ELSE "Reserved")
                        /\ (y.jd <=> z.jd) /\ (y.d <=> z.d)
    BY <1>2, <1>3, RefileFields
  <2>2. z.jd \in BOOLEAN /\ x.jd \in BOOLEAN
    BY <1>2, <1>x DEF IsBuffer
  <2>3. (IF z.jd THEN "Metadata" ELSE "Reserved") = (IF x.jd THEN "Metadata" ELSE "Reserved")
    BY <1>2, <2>2
  <2> QED
    BY <1>2, <2>1, <2>3
<1>z. DOMAIN buf' = Block /\ \A c \in Block : c # b => buf'[c] = buf[c]
  BY <1>1, <1>x
<1>5. TypeInv'
  <2>1. BufferType'
    <3> SUFFICES ASSUME NEW c \in Block PROVE IsBuffer(buf'[c])
      BY <1>z DEF BufferType
    <3>1. IsBuffer(buf[c])
      BY <1>0 DEF BufferType
    <3> QED
      BY <3>1, <1>4, <1>z
  <2> QED
    BY <1>0, <1>1, <2>1 DEF TypeInv, JournalType
<1>6. ListInv'
  <2>1. CommitLists' = CommitLists
    BY <1>1 DEF CommitLists
  <2> SUFFICES ASSUME NEW c \in Block
               PROVE  /\ Filed(buf'[c], j.running, T, CommitLists)
                      /\ c \in access => buf'[c].tr = 0 \/ j.running \in {buf'[c].tr, buf'[c].nxt}
                      /\ use[c] = FREE => c \notin access /\ buf'[c].nxt = 0 /\ buf'[c].tr <= freedBy[c]
    BY <1>1, <2>1 DEF ListInv
  <2>2. /\ Filed(buf[c], j.running, T, CommitLists)
        /\ c \in access => buf[c].tr = 0 \/ j.running \in {buf[c].tr, buf[c].nxt}
        /\ use[c] = FREE => c \notin access /\ buf[c].nxt = 0 /\ buf[c].tr <= freedBy[c]
    BY <1>0 DEF ListInv
  <2>3. CASE c # b
    BY <1>z, <2>2, <2>3
  <2>4. CASE c = b
    <3>1. Filed(y, j.running, T, CommitLists)
      <4>1. CASE x.nxt = 0
        BY <1>4, <4>1 DEF Filed
      <4>2. CASE x.nxt # 0
        BY <1>x, <1>t, <1>4, <4>2 DEF Filed
      <4> QED
        BY <4>1, <4>2
    <3>2. b \in access => j.running = y.tr
      <4> HAVE b \in access
      <4>1. j.running # 0
        BY <1>0 DEF ControlInv
      <4> QED
        BY <1>1, <1>4, <1>t, <2>2, <2>4, <4>1
    <3>3. freedBy[b] \in Nat
      BY <1>0 DEF TypeInv
    <3> QED
      BY <1>4, <2>2, <2>4, <3>1, <3>2, <3>3
  <2> QED
    BY <2>3, <2>4
<1>7. Orderly => AheadInv'
  <2> SUFFICES ASSUME Orderly, NEW c \in Block
               PROVE  Ahead(buf'[c], Committed) /\ (c \in access /\ buf'[c].tr = 0 => ~buf'[c].lk)
    BY <1>1 DEF AheadInv, Committed, Opening
  <2>1. Ahead(buf[c], Committed) /\ (c \in access /\ buf[c].tr = 0 => ~buf[c].lk)
    BY DEF IInv, AheadInv, Opening
  <2>2. CASE c # b
    BY <1>z, <2>1, <2>2
  <2>3. CASE c = b
    <3>1. Ahead(x, T)
      BY <1>t, <2>1, <2>3
    <3> HIDE DEF x, y
    <3>2. Ahead(y, T)
      <4>1. CASE x.nxt = 0
        BY <1>x, <1>1, <1>t, <1>4, <3>1, <4>1 DEF Ahead
      <4>2. CASE x.nxt # 0
        BY <1>x, <1>1, <1>t, <1>4, <3>1, <4>2 DEF Ahead
      <4> QED
        BY <4>1, <4>2
    <3>3. ~y.lk
      BY <1>1, <1>t, <1>4, <3>1 DEF Ahead, x
    <3> QED
      BY <1>t, <2>3, <3>2, <3>3 DEF y
  <2> QED
    BY <2>2, <2>3
<1>8. j.running # 0 => Claims' \subseteq Claims
  <2> HAVE j.running # 0
  <2> SUFFICES ASSUME NEW c \in Claims' PROVE c \in Claims
    OBVIOUS
  <2>1. c \in access \/ (c \in Block /\ (buf'[c].nxt = j.running \/ (buf'[c].tr = j.running /\ buf'[c].jl = "Metadata")))
    BY <1>1 DEF Claims, On
  <2>2. CASE c = b
    <3>1. c \in access \/ x.nxt = j.running
      BY <1>4, <2>1, <2>2
    <3> QED
      BY <2>2, <3>1 DEF Claims
  <2>3. CASE c # b
    BY <1>z, <2>1, <2>3 DEF Claims, On
  <2> QED
    BY <2>2, <2>3
<1>9. Unwritten' = Unwritten /\ On(j.committing, "Metadata")' = On(j.committing, "Metadata")
  <2>1. ASSUME NEW c \in Block
        PROVE  /\ ~(buf[c].tr = T /\ buf[c].jl = "Metadata")
               /\ ~(buf'[c].tr = T /\ buf'[c].jl = "Metadata")
    <3>1. Filed(buf[c], j.running, T, CommitLists) /\ Filed(buf'[c], j.running, T, CommitLists)
      BY <1>0, <1>1, <1>6 DEF ListInv, CommitLists
    <3> QED
      BY <1>t, <3>1 DEF Filed
  <2> QED
    BY <1>1, <2>1 DEF Unwritten, On
<1> QED
  BY <1>1, <1>5, <1>6, <1>7, <1>8, <1>9, Shrinks

-----------------------------------------------------------------------------
(* Crash, recovery and the theorems *)

\* After journal_reset() no buffer is in a transaction.
LEMMA FreshInv ==
  ASSUME TypeInv', stage' = "idle", access' = {}, desc' = <<>>, copying' = {},
         Cardinality(revoke') <= MaxRevoke, Cardinality(crevoke') <= MaxRevoke,
         j'.running = 0, j'.committing = 0, mode' = "up" => stable' < j'.nextTid /\ 0 < j'.nextTid,
         \A b \in Block : \E v : buf'[b] = Clean(v)
  PROVE  IInv'
<1>1. ControlInv'
  BY DEF ControlInv
<1>2. \A b \in Block : /\ buf'[b].tr = 0 /\ buf'[b].nxt = 0 /\ buf'[b].jl = "None"
                       /\ ~buf'[b].jd /\ ~buf'[b].d /\ ~buf'[b].lk
  BY CleanFields
<1>3. DescInv'
  <2>1. Len(desc') = 0
    OBVIOUS
  <2> QED
    BY <2>1, JbdAssumption DEF DescInv
<1>4. ListInv'
  <2>1. \A b \in Block : freedBy'[b] \in Nat
    BY DEF TypeInv
  <2> QED
    BY <1>2, <2>1 DEF ListInv, Filed
<1>5. SizeInv'
  BY DEF SizeInv
<1>6. SpaceInv'
  BY DEF SpaceInv, Writing
<1>7. AheadInv'
  BY <1>2 DEF AheadInv, Ahead
<1> QED
  BY <1>1, <1>3, <1>4, <1>5, <1>6, <1>7 DEF IInv

LEMMA ResetType ==
  ASSUME NEW seq \in Nat, NEW v \in BOOLEAN, NEW r, r = Reset(seq) \/ r = [Reset(seq) EXCEPT !.flushed = v]
  PROVE  /\ r \in [head : Int, free : Int, tail : Int, tailSeq : Nat, nextTid : Nat, running : 0..MaxTid,
                   committing : 0..MaxTid, flushed : BOOLEAN]
         /\ r.running = 0 /\ r.committing = 0 /\ r.nextTid = seq
<1>1. PICK f \in BOOLEAN :
        r = [head |-> 1, free |-> LogSize, tail |-> 1, tailSeq |-> seq, nextTid |-> seq,
             running |-> 0, committing |-> 0, flushed |-> f]
  BY DEF Reset
<1>2. LogSize \in Int
  BY JbdAssumption
<1> QED
  BY <1>1, <1>2, ZeroTid

LEMMA CrashInv ==
  ASSUME IInv, Crash
  PROVE  IInv'
<1>0. TypeInv /\ JournalType /\ BufferType
  BY DEF IInv, TypeInv
<1>1. /\ mode' = "down" /\ (sb' = sb \/ sb' = sbio) /\ sbio' = NoSb
      /\ buf' = [b \in Block |-> Clean(0)] /\ j' = Reset(0)
      /\ access' = {} /\ revoke' = {} /\ crevoke' = {} /\ copying' = {} /\ stage' = "idle" /\ desc' = <<>>
      /\ start' = [t \in 0..MaxTid |-> 0]
      /\ use' = [b \in Block |-> 0] /\ freedBy' = [b \in Block |-> 0]
      /\ stable' = stable
  BY DEF Crash
<1>2. /\ JournalType' /\ j'.running = 0 /\ j'.committing = 0
  BY <1>1, ResetType DEF JournalType
<1>3. BufferType'
  BY <1>1, CleanFields DEF BufferType
<1>4. TypeInv'
  <2>1. sb' \in [start : Int, seq : Nat] /\ sbio' \in [start : Int, seq : Nat]
    BY <1>0, <1>1 DEF TypeInv, NoSb
  <2>2. start' \in [0..MaxTid -> Int] /\ freedBy' \in [Block -> Nat] /\ DOMAIN use' = Block
    BY <1>1
  <2>3. stage' \in Stages /\ mode' \in {"up", "down"} /\ access' \subseteq Block /\ stable' \in Int
        /\ revoke' \subseteq Block /\ crevoke' \subseteq Block
    BY <1>0, <1>1 DEF TypeInv, Stages
  <2>4. \E S : desc' \in Seq(S)
    BY <1>1, EmptySeq
  <2> QED
    BY <1>2, <1>3, <2>1, <2>2, <2>3, <2>4 DEF TypeInv
<1>5. Cardinality(revoke') <= MaxRevoke /\ Cardinality(crevoke') <= MaxRevoke
  BY <1>1, FS_EmptySet, JbdAssumption
<1> QED
  BY <1>1, <1>2, <1>4, <1>5, FreshInv

LEMMA LoadInv ==
  ASSUME IInv, journal_load
  PROVE  IInv'
<1> DEFINE e == Recovery.end
<1>0. TypeInv /\ ControlInv /\ DescInv /\ SizeInv /\ JournalType /\ BufferType
  BY DEF IInv, TypeInv
<1>1. /\ mode = "down" /\ mode' = "up"
      /\ j' = [Reset(e + 1) EXCEPT !.flushed = sb.start = 0]
      /\ sb' = IF sb.start = 0 THEN sb ELSE [start |-> 1, seq |-> e + 1]
      /\ buf' = [b \in Block |-> Clean(Recovery.home[b])]
      /\ DOMAIN use' = Block /\ stable' = e - 1
      /\ UNCHANGED <<sbio, access, revoke, crevoke, copying, start, stage, desc, freedBy>>
  BY DEF journal_load, commit
<1>2. e \in Nat
  BY <1>0, RecoveryEnd DEF TypeInv
<1> HIDE DEF e
<1>3. stage' = "idle" /\ access' = {} /\ desc' = <<>> /\ copying' = {}
  BY <1>0, <1>1 DEF ControlInv, DescInv
<1>4. /\ JournalType' /\ j'.running = 0 /\ j'.committing = 0 /\ j'.nextTid = e + 1
  <2>1. e + 1 \in Nat /\ (sb.start = 0) \in BOOLEAN
    BY <1>2
  <2> QED
    BY <1>1, <2>1, ResetType DEF JournalType
<1>5. BufferType'
  BY <1>1, CleanFields DEF BufferType
<1>6. TypeInv'
  <2>1. sb' \in [start : Int, seq : Nat] /\ sbio' \in [start : Int, seq : Nat]
    BY <1>0, <1>1, <1>2 DEF TypeInv
  <2>2. stable' \in Int /\ mode' \in {"up", "down"}
    BY <1>1, <1>2
  <2> QED
    BY <1>0, <1>1, <1>4, <1>5, <2>1, <2>2 DEF TypeInv
<1>7. stable' < j'.nextTid /\ 0 < j'.nextTid
  BY <1>1, <1>2, <1>4
<1>8. \A b \in Block : \E v : buf'[b] = Clean(v)
  BY <1>1
<1>9. Cardinality(revoke') <= MaxRevoke /\ Cardinality(crevoke') <= MaxRevoke
  BY <1>0, <1>1 DEF SizeInv
<1> QED
  BY <1>9, <1>3, <1>4, <1>6, <1>7, <1>8, FreshInv

LEMMA InitInv ==
  ASSUME Init
  PROVE  IInv
<1>1. /\ buf = [b \in Block |-> Clean(0)] /\ stage = "idle" /\ access = {} /\ revoke = {} /\ crevoke = {} /\ copying = {} /\ desc = <<>> /\ mode = "up"
      /\ j = [Reset(1) EXCEPT !.head = Head0, !.tail = Head0, !.flushed = FALSE] /\ stable = 0
      /\ sb = [start |-> Head0, seq |-> 1] /\ sbio = NoSb
      /\ start = [t \in 0..MaxTid |-> 0] /\ use = [b \in Block |-> 0] /\ freedBy = [b \in Block |-> 0]
  BY DEF Init
<1>2. /\ JournalType /\ j.running = 0 /\ j.committing = 0 /\ j.nextTid = 1
  <2>1. j = [head |-> Head0, free |-> LogSize, tail |-> Head0, tailSeq |-> 1, nextTid |-> 1,
             running |-> 0, committing |-> 0, flushed |-> FALSE]
    BY <1>1 DEF Reset
  <2>2. Head0 \in Int /\ LogSize \in Int
    BY JbdAssumption
  <2> QED
    BY <2>1, <2>2, ZeroTid DEF JournalType
<1>3. BufferType
  BY <1>1, CleanFields DEF BufferType
<1>4. TypeInv
  <2>1. sb \in [start : Int, seq : Nat] /\ sbio \in [start : Int, seq : Nat]
    BY <1>1, JbdAssumption DEF NoSb
  <2>2. start \in [0..MaxTid -> Int] /\ freedBy \in [Block -> Nat] /\ DOMAIN use = Block
    BY <1>1
  <2>3. stage \in Stages /\ mode \in {"up", "down"} /\ access \subseteq Block /\ stable \in Int
        /\ revoke \subseteq Block /\ crevoke \subseteq Block
    BY <1>1 DEF Stages
  <2>4. \E S : desc \in Seq(S)
    BY <1>1, EmptySeq
  <2> QED
    BY <1>2, <1>3, <2>1, <2>2, <2>3, <2>4 DEF TypeInv
<1>5. ControlInv
  BY <1>1, <1>2 DEF ControlInv
<1>6. DescInv
  <2>1. Len(desc) = 0
    BY <1>1
  <2> QED
    BY <1>1, <2>1, JbdAssumption DEF DescInv
<1>7. \A b \in Block : /\ buf[b].tr = 0 /\ buf[b].nxt = 0 /\ buf[b].jl = "None"
                       /\ ~buf[b].jd /\ ~buf[b].d /\ ~buf[b].lk
  BY <1>1, CleanFields
<1>8. ListInv
  <2>1. \A b \in Block : use[b] # FREE
    BY <1>1 DEF FREE
  <2> QED
    BY <1>1, <1>7, <2>1 DEF ListInv, Filed
<1>9. SizeInv /\ SpaceInv
  <2>1. Cardinality(revoke) <= MaxRevoke /\ Cardinality(crevoke) <= MaxRevoke
    BY <1>1, FS_EmptySet, JbdAssumption
  <2> QED
    BY <1>1, <1>2, <2>1 DEF SizeInv, SpaceInv, Writing
<1>10. AheadInv
  BY <1>7 DEF AheadInv, Ahead
<1> QED
  BY <1>4, <1>5, <1>6, <1>8, <1>9, <1>10 DEF IInv

LEMMA StutterInv ==
  ASSUME IInv, UNCHANGED vars
  PROVE  IInv'
<1>1. DOMAIN buf' = Block /\ \A b \in Block : buf'[b] = buf[b]
  BY DEF IInv, TypeInv, BufferType, vars
<1> QED
  BY <1>1, SteadyBuffers DEF vars, disk, commit, fs, machine

LEMMA NextInv ==
  ASSUME IInv, Next
  PROVE  IInv'
<1>1. CASE Commit
  BY <1>1, CommitLockInv, CommitFlushInv, CommitDataInv, CommitWaitInv, CommitRecordDoneInv,
     CommitFinishInv, WriteBufferInv, ShadowBufferInv,
     ForgetBufferInv DEF Commit
<1>2. CASE __flush_batch \/ cleanup_journal_tail \/ SuperblockDone \/ journal_flush
  BY <1>2, FlushBatchInv, CleanupTailInv, SuperblockInv
<1>3. CASE Crash \/ RecoveryCrash \/ journal_load
  BY <1>3, CrashInv, RecoveryCrashInv, LoadInv
<1>4. ASSUME NEW b \in Block,
             \/ journal_get_write_access(b) \/ FileReserved(b) \/ journal_get_create_access(b) \/ journal_dirty_metadata(b)
             \/ journal_release_buffer(b) \/ journal_revoke(b) \/ ReuseAsData(b)
      PROVE  IInv'
  BY <1>4, GetWriteInv, FileReservedInv, GetCreateInv, DirtyInv, ReleaseInv, RevokeInv, ReuseAsDataInv
<1>5. ASSUME NEW b \in Block,
             \/ Writeback(b) \/ WriteDone(b) \/ WriteData(b)
             \/ __process_buffer(b) \/ __wait_cp_io(b)
      PROVE  IInv'
  BY <1>5, WritebackInv, WriteDoneInv, WriteDataInv, ProcessInv, WaitInv
<1> QED
  BY <1>1, <1>2, <1>3, <1>4, <1>5 DEF Next

\* IInv holds in every state of the journal, whatever crashes and whichever of
\* the named defects happen.
THEOREM Invariance == Spec => []IInv
<1>1. Init => IInv
  BY InitInv
<1>2. IInv /\ [Next]_vars => IInv'
  BY NextInv, StutterInv
<1> QED
  BY <1>1, <1>2, PTL DEF Spec

\* If the blocks that __log_space_left() always holds back are enough for the
\* revoke blocks of two transactions, which no credits cover and nothing in the
\* code bounds, the commit never runs out of log space: start_this_handle() has
\* left enough for all the buffers, descriptors, revoke blocks and the record of
\* the committing transaction, and of the one behind it.
THEOREM JbdLogSpace == Spec => [](Ample => LogSpace)
<1>1. IInv => (Ample => LogSpace)
  <2> SUFFICES ASSUME IInv, Ample, stage \in {"data", "write"}
               PROVE  j.free > Credits(j.committing) + RevokeBlocks(Cardinality(crevoke))
                        + (IF Credits(j.committing) > 0 /\ desc = <<>> THEN 1 ELSE 0) + 1
    BY DEF LogSpace
  <2>0. TypeInv /\ SpaceInv /\ j.free \in Int
    BY DEF IInv, TypeInv, JournalType
  <2> DEFINE u == Cardinality(Unwritten)  r == RevokeBlocks(Cardinality(crevoke))
  <2>1. u = Credits(j.committing) /\ u \in Nat /\ r \in Nat
    BY <2>0, Sizes DEF Unwritten, Credits
  <2>2. PICK m \in Nat : Suffices(m) /\ j.free > Needs(m)
    BY <2>0 DEF SpaceInv, Writing
  <2>3. Needs(m) = u + (IF desc = <<>> THEN m ELSE m - 1) + r + 1
    BY DEF Needs
  <2>4. u + Len(desc) <= m * TagsPerBlock /\ Len(desc) \in Nat /\ (desc # <<>> => Len(desc) > 0)
    <3>1. Len(desc) \in Nat
      BY <2>0, Sizes
    <3>2. ASSUME desc # <<>> PROVE Len(desc) > 0
      <4>1. Len(desc) # 0
        BY <2>0, <3>2, EmptySeq DEF TypeInv
      <4> QED
        BY <3>1, <4>1
    <3> QED
      BY <2>2, <3>1, <3>2 DEF Suffices
  <2>5. u > 0 \/ desc # <<>> => m >= 1
    <3>1. m = 0 => m * TagsPerBlock = 0
      BY JbdAssumption
    <3> HIDE DEF u
    <3> QED
      BY <2>1, <2>4, <3>1
  <2>6. j.free > u + r + (IF u > 0 /\ desc = <<>> THEN 1 ELSE 0) + 1
    <3>1. u \in Nat /\ r \in Nat /\ j.free \in Int /\ j.free > Needs(m)
      BY <2>0, <2>1, <2>2
    <3> HIDE DEF u, r
    <3>2. CASE desc = <<>>
      BY <2>3, <2>5, <3>1, <3>2
    <3>3. CASE desc # <<>>
      BY <2>3, <2>5, <3>1, <3>3
    <3> QED
      BY <3>2, <3>3
  <2> QED
    BY <2>1, <2>6
<1> QED
  BY <1>1, Invariance, PTL

\* The write-ahead rule: without the defect of journal_forget() and without
\* write-out that starts after do_get_write_access() has unlocked a buffer and
\* before it has taken the dirty bit away, a block is dirty or under way to its
\* place only if a commit record for what it holds is in the log.
THEOREM JbdWriteAhead == Spec => [](Orderly => WriteAhead)
<1>1. IInv => (Orderly => WriteAhead)
  BY DEF IInv, AheadInv, Ahead, WriteAhead, Committed
<1> QED
  BY <1>1, Invariance, PTL
=============================================================================
