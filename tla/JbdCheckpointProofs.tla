------------------------ MODULE JbdCheckpointProofs ------------------------
(***************************************************************************)
(* Checkpointing loses nothing: CheckpointInv is inductive, relative to    *)
(* IInv, and implies Checkpointed, for every set of blocks, every log and  *)
(* every number of crashes.                                                *)
(***************************************************************************)
EXTENDS JbdProofs

-----------------------------------------------------------------------------
(* What is needed of IInv *)

LEMMA BufferFacts ==
  ASSUME IInv, Undisturbed, NEW b \in Block
  PROVE  /\ IsBuffer(buf[b]) /\ DOMAIN buf = Block /\ DOMAIN use = Block
         /\ buf[b].tr # 0 => ~buf[b].d /\ ~buf[b].lk
         /\ buf[b].tr = 0 => ~buf[b].jd
         /\ Filed(buf[b], j.running, j.committing, CommitLists)
         /\ "Reserved" \notin CommitLists
         /\ b \in Opening => ~buf[b].lk
<1>1. IsBuffer(buf[b]) /\ DOMAIN buf = Block /\ DOMAIN use = Block
  BY DEF IInv, TypeInv, BufferType
<1>2. Ahead(buf[b], Committed) /\ (b \in Opening => ~buf[b].lk)
  BY DEF IInv, AheadInv, Undisturbed
<1>3. Filed(buf[b], j.running, j.committing, CommitLists)
  BY DEF IInv, ListInv
<1>4. "Reserved" \notin CommitLists
  BY DEF CommitLists
<1> QED
  BY <1>1, <1>2, <1>3, <1>4 DEF Ahead

-----------------------------------------------------------------------------
(* Blocks: home, on a list, or under way *)

\* What a step that concerns one block has to show.
Safe(x, h, u, up) == Listed(x, u) /\ (up => AtHome(x, h, u))
OnIo(x, inBatch, inList) ==
  /\ inBatch => x.tr = 0
  /\ inList /\ ~inBatch => ~x.d /\ ~(x.jl = "Reserved" /\ x.jd)

LEMMA OneBlock ==
  ASSUME HomeInv, IoInv, NEW b \in Block, mode' = mode,
         DOMAIN home' = Block, DOMAIN dq' = Block, batch' \subseteq Block, iolist' \subseteq Block,
         \A c \in Block : c # b =>
           /\ buf'[c] = buf[c] /\ home'[c] = home[c] /\ use'[c] = use[c] /\ dq'[c] = dq[c]
           /\ (c \in access' <=> c \in access)
           /\ (c \in batch' <=> c \in batch) /\ (c \in iolist' <=> c \in iolist),
         Safe(buf'[b], home'[b], use'[b], mode = "up"),
         use'[b] = FRESH => b \in access',
         use'[b] = DATA => b \notin access',
         dq'[b] # 0 => use'[b] = DATA /\ mode = "up",
         b \in batch' => b \notin access' \/ (b \in access /\ b \in batch),
         OnIo(buf'[b], b \in batch', b \in iolist')
  PROVE  HomeInv' /\ IoInv'
<1>1. ASSUME NEW c \in Block
      PROVE  /\ Listed(buf'[c], use'[c])
             /\ mode' = "up" => AtHome(buf'[c], home'[c], use'[c])
             /\ use'[c] = FRESH => c \in access'
             /\ use'[c] = DATA => c \notin access'
             /\ dq'[c] # 0 => use'[c] = DATA /\ mode' = "up"
             /\ c \in batch' => buf'[c].tr = 0 /\ c \notin access'
             /\ c \in iolist' \ batch' => ~buf'[c].d /\ ~(buf'[c].jl = "Reserved" /\ buf'[c].jd)
  <2>1. CASE c = b
    BY <2>1 DEF Safe, OnIo, IoInv
  <2>2. CASE c # b
    BY <2>2 DEF HomeInv, IoInv
  <2> QED
    BY <2>1, <2>2
<1>2. HomeInv'
  BY <1>1 DEF HomeInv
<1>3. IoInv'
  BY <1>1 DEF IoInv
<1> QED
  BY <1>2, <1>3

\* Steps that no block notices.
LEMMA NoBlock ==
  ASSUME HomeInv, IoInv, UNCHANGED <<mode, home, dq, buf, use, access, batch, iolist>>
  PROVE  HomeInv' /\ IoInv'
BY DEF HomeInv, IoInv

Quiet == \/ CommitLock \/ CommitRecordDone \/ CommitFinish
         \/ cleanup_journal_tail \/ SuperblockDone \/ journal_flush

LEMMA QuietHome ==
  ASSUME HomeInv, IoInv, Quiet
  PROVE  HomeInv' /\ IoInv'
<1>1. UNCHANGED <<mode, home, dq, buf, use, access, batch, iolist>>
  <2>1. CASE CommitLock \/ CommitRecordDone \/ CommitFinish
    BY <2>1 DEF CommitLock, CommitRecordDone, CommitFinish, disk, machine, fs
  <2>2. CASE cleanup_journal_tail \/ SuperblockDone \/ journal_flush
    BY <2>2 DEF cleanup_journal_tail, SuperblockDone, journal_flush, disk, machine, fs
  <2> QED
    BY <2>1, <2>2 DEF Quiet
<1> QED
  BY <1>1, NoBlock

-----------------------------------------------------------------------------
(* Handles *)

\* A buffer that is taken into a transaction from none.
LEMMA Taken ==
  ASSUME IInv, Undisturbed, HomeInv, IoInv, NEW b \in Block, buf[b].tr = 0, ~buf[b].lk, b \notin batch,
         NEW t \in 1..MaxTid, NEW y, y = File(buf[b], t, "Reserved")
  PROVE  /\ y.tr = t /\ y.jl = "Reserved" /\ y.data = buf[b].data /\ ~y.d /\ ~y.lk
         /\ y.jd <=> buf[b].d
         /\ y.jd => y.cp # 0
         /\ \A u : Listed(y, u) /\ OnIo(y, b \in batch, b \in iolist)
<1>1. IsBuffer(buf[b]) /\ ~buf[b].jd
  BY BufferFacts
<1>2. t \in 0..MaxTid /\ "Reserved" \in Lists
  BY ZeroTid DEF Lists
<1>3. /\ y.tr = t /\ y.jl = "Reserved" /\ y.data = buf[b].data
      /\ (y.jd <=> buf[b].jd \/ buf[b].d) /\ ~y.d /\ (y.lk <=> buf[b].lk) /\ y.cp = buf[b].cp
  BY <1>1, <1>2, FileFields
<1>4. (buf[b].d => buf[b].cp # 0) /\ (b \in iolist => ~buf[b].d)
  BY DEF HomeInv, Listed, IoInv
<1> QED
  BY <1>1, <1>3, <1>4 DEF Listed, OnIo

LEMMA GetWriteHome ==
  ASSUME IInv, Undisturbed, HomeInv, IoInv, NEW b \in Block, journal_get_write_access(b)
  PROVE  HomeInv' /\ IoInv'
<1> DEFINE x == buf[b]  y == buf'[b]
<1>0. /\ use[b] >= 0 /\ ~x.lk /\ StartHandle(b) /\ b \notin batch
      /\ access' = access \cup {b} /\ UNCHANGED <<mode, home, dq, use, batch, iolist>>
  BY DEF journal_get_write_access, disk, machine, fs, Undisturbed
<1>1. Tid \in 1..MaxTid
  BY <1>0, FiledTid
<1>2. IsBuffer(x) /\ DOMAIN buf = Block /\ (x.tr # 0 => ~x.d /\ ~x.lk)
  BY BufferFacts
<1>i. /\ Listed(x, use[b]) /\ (mode = "up" => AtHome(x, home[b], use[b]))
      /\ OnIo(x, b \in batch, b \in iolist)
      /\ DOMAIN home = Block /\ DOMAIN dq = Block /\ batch \subseteq Block /\ iolist \subseteq Block
      /\ dq[b] # 0 => use[b] = DATA /\ mode = "up"
  BY DEF HomeInv, IoInv, OnIo
<1>3. \/ buf' = buf
      \/ x.tr # 0 /\ buf' = [buf EXCEPT ![b] = Freeze(x)]
  BY DEF journal_get_write_access
<1>4. \A c \in Block : c # b => buf'[c] = buf[c]
  BY <1>2, <1>3
<1>5. Safe(y, home[b], use[b], mode = "up") /\ OnIo(y, b \in batch, b \in iolist)
  <2>1. CASE buf' = buf
    BY <1>i, <2>1 DEF Safe
  <2>2. CASE x.tr # 0 /\ buf' = [buf EXCEPT ![b] = Freeze(x)]
    <3>1. y = Freeze(x) /\ Tid \in 0..MaxTid
      BY <1>1, <1>2, <2>2
    <3>2. Reassigned(x, y, Tid)
      BY <3>1 DEF Freeze, Reassigned
    <3>3. /\ y.tr = x.tr /\ y.jl = x.jl /\ y.data = x.data /\ y.cp = x.cp
          /\ (y.jd <=> x.jd) /\ (y.d <=> x.d) /\ (y.lk <=> x.lk)
      BY <1>2, <3>1, <3>2, NextFields
    <3> QED
      BY <1>i, <3>3 DEF Safe, Listed, AtHome, OnIo
  <2> QED
    BY <1>3, <2>1, <2>2
<1>6. use[b] # DATA /\ b \in access'
  BY <1>0 DEF DATA
<1> HIDE DEF x, y
<1>7. Safe(buf'[b], home'[b], use'[b], mode = "up") /\ OnIo(buf'[b], b \in batch', b \in iolist')
  BY <1>0, <1>5 DEF y
<1> QED
  BY <1>0, <1>i, <1>4, <1>6, <1>7, OneBlock

\* The buffer is not under write-out, nor in a batch, when it is filed.
LEMMA FileReservedHome ==
  ASSUME IInv, Undisturbed, HomeInv, IoInv, NEW b \in Block, FileReserved(b)
  PROVE  HomeInv' /\ IoInv'
<1> DEFINE x == buf[b]  y == buf'[b]  T == j.running
<1>0. /\ b \in access /\ x.tr = 0 /\ b \in Opening
      /\ buf' = [buf EXCEPT ![b] = File(x, T, "Reserved")]
      /\ UNCHANGED <<mode, home, dq, use, access, batch, iolist>>
  BY DEF FileReserved, Opening, disk, machine, fs
<1>1. IsBuffer(x) /\ DOMAIN buf = Block /\ ~x.lk
  BY <1>0, BufferFacts
<1>t. T \in 1..MaxTid
  <2>1. T \in 0..MaxTid /\ T # 0
    BY <1>0 DEF IInv, TypeInv, JournalType, ControlInv
  <2> QED
    BY <2>1, ZeroTid
<1>i. /\ Listed(x, use[b]) /\ (mode = "up" => AtHome(x, home[b], use[b]))
      /\ DOMAIN home = Block /\ DOMAIN dq = Block /\ batch \subseteq Block /\ iolist \subseteq Block
      /\ use[b] = DATA => b \notin access
      /\ dq[b] # 0 => use[b] = DATA /\ mode = "up"
      /\ b \notin batch
  BY <1>0 DEF HomeInv, IoInv
<1>2. y = File(x, T, "Reserved") /\ \A c \in Block : c # b => buf'[c] = buf[c]
  BY <1>0, <1>1
<1>3. /\ y.tr = T /\ y.jl = "Reserved" /\ y.data = x.data /\ ~y.d /\ ~y.lk /\ (y.jd <=> x.d)
      /\ Listed(y, use[b]) /\ OnIo(y, b \in batch, b \in iolist)
  BY <1>0, <1>1, <1>i, <1>t, <1>2, Taken
<1>4. ASSUME mode = "up", use[b] >= 0, use[b] # FRESH, ~y.jd PROVE home[b] = y.data
  BY <1>0, <1>1, <1>i, <1>3, <1>4 DEF AtHome
<1>5. mode = "up" => AtHome(y, home[b], use[b])
  BY <1>t, <1>3, <1>4 DEF AtHome
<1>6. Safe(y, home[b], use[b], mode = "up") /\ OnIo(y, b \in batch, b \in iolist)
  BY <1>3, <1>5 DEF Safe
<1> HIDE DEF x, y
<1>7. Safe(buf'[b], home'[b], use'[b], mode = "up") /\ OnIo(buf'[b], b \in batch', b \in iolist')
  BY <1>0, <1>6 DEF y
<1> QED
  BY <1>0, <1>i, <1>2, <1>7, OneBlock

LEMMA GetCreateHome ==
  ASSUME IInv, Undisturbed, HomeInv, IoInv, NEW b \in Block, journal_get_create_access(b)
  PROVE  HomeInv' /\ IoInv'
<1> DEFINE x == buf[b]  y == buf'[b]
<1>0. /\ MayReuse(b) /\ ~x.lk /\ StartHandle(b) /\ b \notin batch
      /\ buf' = [buf EXCEPT ![b] = IF x.tr = 0 THEN File(x, Tid, "Reserved") ELSE [x EXCEPT !.nxt = Tid]]
      /\ use' = [use EXCEPT ![b] = FRESH]
      /\ access' = access \cup {b} /\ UNCHANGED <<mode, home, dq, batch, iolist>>
  BY DEF journal_get_create_access, disk, machine, Undisturbed
<1>1. Tid \in 1..MaxTid
  BY <1>0, FiledTid
<1>2. IsBuffer(x) /\ DOMAIN buf = Block /\ DOMAIN use = Block /\ (x.tr # 0 => ~x.d /\ ~x.lk)
  BY BufferFacts
<1>i. /\ Listed(x, use[b]) /\ OnIo(x, b \in batch, b \in iolist)
      /\ DOMAIN home = Block /\ DOMAIN dq = Block /\ batch \subseteq Block /\ iolist \subseteq Block
      /\ dq[b] # 0 => use[b] = DATA
  BY DEF HomeInv, IoInv, OnIo
<1>3. use'[b] = FRESH /\ use'[b] # DATA /\ dq[b] = 0 /\ \A c \in Block : c # b => buf'[c] = buf[c] /\ use'[c] = use[c]
  BY <1>0, <1>2, <1>i DEF MayReuse, FREE, DATA, FRESH
<1>4. Listed(y, FRESH) /\ OnIo(y, b \in batch, b \in iolist)
  <2>1. CASE x.tr = 0
    <3>1. y = File(x, Tid, "Reserved")
      BY <1>0, <1>2, <2>1
    <3> QED
      BY <1>0, <1>1, <2>1, <3>1, Taken
  <2>2. CASE x.tr # 0
    <3>1. Reassigned(x, y, Tid) /\ Tid \in 0..MaxTid
      BY <1>0, <1>1, <1>2, <2>2 DEF Reassigned
    <3>2. /\ y.tr = x.tr /\ y.jl = x.jl /\ y.data = x.data /\ y.cp = x.cp
          /\ (y.jd <=> x.jd) /\ (y.d <=> x.d) /\ (y.lk <=> x.lk)
      BY <1>2, <3>1, NextFields
    <3> QED
      BY <1>i, <2>2, <3>2 DEF Listed, OnIo
  <2> QED
    BY <2>1, <2>2
<1>5. Safe(y, home[b], FRESH, mode = "up")
  BY <1>4 DEF Safe, AtHome
<1> HIDE DEF x, y
<1>6. Safe(buf'[b], home'[b], use'[b], mode = "up") /\ OnIo(buf'[b], b \in batch', b \in iolist')
  BY <1>0, <1>3, <1>4, <1>5 DEF y
<1> QED
  BY <1>0, <1>i, <1>3, <1>6, OneBlock

LEMMA BlockFacts ==
  ASSUME HomeInv, IoInv, NEW b \in Block
  PROVE  /\ Listed(buf[b], use[b]) /\ (mode = "up" => AtHome(buf[b], home[b], use[b]))
         /\ OnIo(buf[b], b \in batch, b \in iolist)
         /\ DOMAIN home = Block /\ DOMAIN dq = Block /\ batch \subseteq Block /\ iolist \subseteq Block
         /\ use[b] = FRESH => b \in access
         /\ use[b] = DATA => b \notin access
         /\ dq[b] # 0 => use[b] = DATA /\ mode = "up"
BY DEF HomeInv, IoInv, OnIo

LEMMA DirtyHome ==
  ASSUME IInv, Undisturbed, HomeInv, IoInv, NEW b \in Block, journal_dirty_metadata(b)
  PROVE  HomeInv' /\ IoInv'
<1> DEFINE x == buf[b]  y == buf'[b]  z == Dirtied(x, j.running)
<1>0. /\ b \in access /\ x.tr # 0
      /\ buf' = [buf EXCEPT ![b] = IF z.tr = j.running THEN File(z, j.running, "Metadata") ELSE z]
      /\ use' = [use EXCEPT ![b] = 0]
      /\ access' = access \ {b} /\ UNCHANGED <<mode, home, dq, batch, iolist>>
  BY DEF journal_dirty_metadata, Opening, Dirtied, disk, machine
<1>1. /\ IsBuffer(x) /\ DOMAIN buf = Block /\ DOMAIN use = Block
      /\ (x.tr # 0 => ~x.d /\ ~x.lk) /\ Filed(x, j.running, j.committing, CommitLists)
      /\ "Reserved" \notin CommitLists
  BY BufferFacts
<1>i. /\ OnIo(x, b \in batch, b \in iolist)
      /\ DOMAIN home = Block /\ DOMAIN dq = Block /\ batch \subseteq Block /\ iolist \subseteq Block
      /\ dq[b] = 0
  BY <1>0, BlockFacts
<1>2. j.running # 0 /\ x.tr # 0 /\ (x.tr # j.running => x.jl # "Reserved") /\ j.running \in 0..MaxTid
  <2>1. j.running # 0 /\ j.running \in {x.tr, x.nxt} /\ j.running \in 0..MaxTid
    BY <1>0 DEF IInv, ControlInv, ListInv, TypeInv, JournalType
  <2> QED
    BY <1>1, <2>1 DEF Filed
<1>3. IsBuffer(z) /\ z.tr = x.tr /\ z.jl = x.jl /\ z.jd /\ (z.d <=> x.d) /\ (z.lk <=> x.lk)
  BY <1>1, DirtyFields
<1>4. y.tr # 0 /\ y.jd /\ ~y.d /\ ~y.lk /\ y.jl # "Reserved"
  <2>1. CASE z.tr = j.running
    <3>1. y = File(z, j.running, "Metadata") /\ "Metadata" \in Lists
      BY <1>0, <1>1, <2>1 DEF Lists
    <3> HIDE DEF z
    <3>2. y.tr = j.running /\ y.jl = "Metadata" /\ (y.jd <=> z.jd \/ z.d) /\ ~y.d /\ (y.lk <=> z.lk)
      BY <1>2, <1>3, <3>1, FileFields
    <3> QED
      BY <1>1, <1>2, <1>3, <3>2
  <2>2. CASE z.tr # j.running
    <3>1. y = z
      BY <1>0, <1>1, <2>2
    <3> QED
      BY <1>1, <1>2, <1>3, <2>2, <3>1
  <2> QED
    BY <2>1, <2>2
<1>5. b \notin batch
  BY <1>2, <1>i DEF OnIo
<1>6. /\ Safe(buf'[b], home'[b], use'[b], mode = "up") /\ OnIo(buf'[b], b \in batch', b \in iolist')
      /\ use'[b] = 0
  <2>1. use'[b] = 0
    BY <1>0, <1>1
  <2> HIDE DEF x, y, z
  <2> QED
    BY <1>0, <1>4, <1>5, <2>1 DEF Safe, Listed, AtHome, OnIo, y
<1>7. \A c \in Block : c # b => buf'[c] = buf[c] /\ use'[c] = use[c] /\ (c \in access' <=> c \in access)
  BY <1>0, <1>1
<1> HIDE DEF x, y, z
<1>8. 0 # FRESH /\ 0 # DATA
  BY DEF FRESH, DATA
<1> QED
  BY <1>0, <1>i, <1>6, <1>7, <1>8, OneBlock

LEMMA ReleaseHome ==
  ASSUME HomeInv, IoInv, NEW b \in Block, journal_release_buffer(b)
  PROVE  HomeInv' /\ IoInv'
<1>0. /\ b \in access /\ use[b] # FRESH
      /\ access' = access \ {b} /\ UNCHANGED <<mode, home, dq, buf, use, batch, iolist>>
  BY DEF journal_release_buffer, disk, machine, fs
<1> QED
  BY <1>0 DEF HomeInv, IoInv

LEMMA RevokeHome ==
  ASSUME IInv, Undisturbed, HomeInv, IoInv, NEW b \in Block, journal_revoke(b)
  PROVE  HomeInv' /\ IoInv'
<1> DEFINE x == buf[b]  y == buf'[b]
<1>0. /\ use[b] >= 0 /\ StartHandle(b)
      /\ \/ x.tr = Tid /\ buf' = [buf EXCEPT ![b] = Forget(x)]
         \/ x.tr # Tid /\ buf' = [buf EXCEPT ![b].nxt = 0]
      /\ use' = [use EXCEPT ![b] = FREE]
      /\ UNCHANGED <<mode, home, dq, access, batch, iolist>>
  BY DEF journal_revoke, disk, machine
<1>1. /\ IsBuffer(x) /\ DOMAIN buf = Block /\ DOMAIN use = Block /\ (x.tr # 0 => ~x.d /\ ~x.lk)
  BY BufferFacts
<1>t. Tid \in 1..MaxTid
  BY <1>0, FiledTid
<1>i. /\ Listed(x, use[b]) /\ OnIo(x, b \in batch, b \in iolist)
      /\ DOMAIN home = Block /\ DOMAIN dq = Block /\ batch \subseteq Block /\ iolist \subseteq Block
      /\ dq[b] = 0
  BY <1>0, BlockFacts DEF DATA
<1>2. use'[b] = FREE /\ \A c \in Block : c # b => buf'[c] = buf[c] /\ use'[c] = use[c]
  BY <1>0, <1>1
<1>3. Listed(y, FREE) /\ OnIo(y, b \in batch, b \in iolist)
  <2>1. CASE x.tr = Tid
    <3>1. y = Forget(x) /\ x.tr # 0
      BY <1>0, <1>1, <1>t, <2>1
    <3>2. ~y.jd /\ ~y.d /\ (y.lk <=> x.lk) /\ y.jl \in {"Forget", "None"}
      BY <1>1, <3>1, ForgetFields
    <3>3. b \notin batch
      BY <1>i, <3>1 DEF OnIo
    <3> QED
      BY <1>1, <3>1, <3>2, <3>3 DEF Listed, OnIo, FREE, FRESH
  <2>2. CASE x.tr # Tid
    <3>1. y = [x EXCEPT !.nxt = 0]
      BY <1>0, <1>1, <2>2
    <3>2. Reassigned(x, y, 0)
      BY <3>1 DEF Reassigned
    <3>3. /\ y.tr = x.tr /\ y.jl = x.jl /\ y.data = x.data /\ y.cp = x.cp
          /\ (y.jd <=> x.jd) /\ (y.d <=> x.d) /\ (y.lk <=> x.lk)
      BY <1>1, <3>2, NextFields, ZeroTid
    <3> QED
      BY <1>i, <3>3 DEF Listed, OnIo, FREE, FRESH
  <2> QED
    BY <2>1, <2>2
<1>4. Safe(y, home[b], FREE, mode = "up")
  BY <1>3 DEF Safe, AtHome, FREE
<1> HIDE DEF x, y
<1>5. Safe(buf'[b], home'[b], use'[b], mode = "up") /\ OnIo(buf'[b], b \in batch', b \in iolist')
  BY <1>0, <1>2, <1>3, <1>4 DEF y
<1>6. FREE # FRESH /\ FREE # DATA
  BY DEF FREE, FRESH, DATA
<1> QED
  BY <1>0, <1>i, <1>2, <1>5, <1>6, OneBlock

LEMMA ReuseAsDataHome ==
  ASSUME IInv, Undisturbed, HomeInv, IoInv, NEW b \in Block, ReuseAsData(b)
  PROVE  HomeInv' /\ IoInv'
<1> DEFINE x == buf[b]  y == buf'[b]
<1>0. /\ MayReuse(b) /\ ~x.lk /\ StartHandle(b)
      /\ buf' = [buf EXCEPT ![b].d = FALSE]
      /\ use' = [use EXCEPT ![b] = DATA] /\ dq' = [dq EXCEPT ![b] = Tid]
      /\ UNCHANGED <<mode, home, access, batch, iolist>>
  BY DEF ReuseAsData, disk, machine
<1>1. IsBuffer(x) /\ DOMAIN buf = Block /\ DOMAIN use = Block
  BY BufferFacts
<1>m. mode = "up" /\ b \notin access
  BY <1>0, ReuseFacts DEF StartHandle
<1>i. /\ Listed(x, use[b]) /\ OnIo(x, b \in batch, b \in iolist)
      /\ DOMAIN home = Block /\ DOMAIN dq = Block /\ batch \subseteq Block /\ iolist \subseteq Block
  BY BlockFacts
<1>2. /\ use'[b] = DATA /\ y = [x EXCEPT !.d = FALSE] /\ DOMAIN dq' = Block
      /\ \A c \in Block : c # b => buf'[c] = buf[c] /\ use'[c] = use[c] /\ dq'[c] = dq[c]
  BY <1>0, <1>1, <1>i
<1>3. y.tr = x.tr /\ y.jl = x.jl /\ y.cp = x.cp /\ (y.jd <=> x.jd) /\ ~y.d /\ (y.lk <=> x.lk)
  BY <1>1, <1>2 DEF IsBuffer
<1>4. Safe(y, home[b], DATA, mode = "up") /\ OnIo(y, b \in batch, b \in iolist)
  BY <1>0, <1>i, <1>3 DEF Safe, AtHome, Listed, OnIo, DATA, FRESH
<1> HIDE DEF x, y
<1>5. Safe(buf'[b], home'[b], use'[b], mode = "up") /\ OnIo(buf'[b], b \in batch', b \in iolist')
  BY <1>0, <1>2, <1>4 DEF y
<1>6. DATA # FRESH
  BY DEF FRESH, DATA
<1> QED
  BY <1>0, <1>m, <1>i, <1>2, <1>5, <1>6, OneBlock

-----------------------------------------------------------------------------
(* The commit *)

LEMMA WriteBufferHome ==
  ASSUME IInv, Undisturbed, HomeInv, IoInv, NEW b \in Block, WriteBuffer(b)
  PROVE  HomeInv' /\ IoInv'
<1> DEFINE x == buf[b]  y == buf'[b]
<1>0. /\ buf' = [buf EXCEPT ![b].fz = CopyOut(x)]
      /\ UNCHANGED <<mode, home, dq, use, access, batch, iolist>>
  BY DEF WriteBuffer, disk, machine, fs
<1>1. IsBuffer(x) /\ DOMAIN buf = Block
  BY BufferFacts
<1>i. /\ Safe(x, home[b], use[b], mode = "up") /\ OnIo(x, b \in batch, b \in iolist)
      /\ DOMAIN home = Block /\ DOMAIN dq = Block /\ batch \subseteq Block /\ iolist \subseteq Block
      /\ use[b] = FRESH => b \in access
      /\ use[b] = DATA => b \notin access
      /\ dq[b] # 0 => use[b] = DATA /\ mode = "up"
  BY BlockFacts DEF Safe
<1>2. y = [x EXCEPT !.fz = CopyOut(x)] /\ \A c \in Block : c # b => buf'[c] = buf[c]
  BY <1>0, <1>1
<1>3. /\ y.tr = x.tr /\ y.jl = x.jl /\ y.data = x.data /\ y.cp = x.cp
      /\ (y.jd <=> x.jd) /\ (y.d <=> x.d) /\ (y.lk <=> x.lk)
  BY <1>1, <1>2 DEF IsBuffer
<1>4. Safe(y, home[b], use[b], mode = "up") /\ OnIo(y, b \in batch, b \in iolist)
  BY <1>i, <1>3 DEF Safe, AtHome, Listed, OnIo
<1> HIDE DEF x, y
<1>5. Safe(buf'[b], home'[b], use'[b], mode = "up") /\ OnIo(buf'[b], b \in batch', b \in iolist')
  BY <1>0, <1>4 DEF y
<1> QED
  BY <1>0, <1>i, <1>2, <1>5, OneBlock

LEMMA ShadowBufferHome ==
  ASSUME IInv, Undisturbed, HomeInv, IoInv, NEW b \in Block, ShadowBuffer(b)
  PROVE  HomeInv' /\ IoInv'
<1> DEFINE x == buf[b]  y == buf'[b]  T == j.committing
<1>0. /\ b \in copying
      /\ buf' = [buf EXCEPT ![b] = File(@, T, "Shadow")]
      /\ UNCHANGED <<mode, home, dq, use, access, batch, iolist>>
  BY DEF ShadowBuffer, disk, machine, fs
<1>c. stage = "write" /\ x.tr = T /\ x.jl = "Metadata"
  BY <1>0 DEF IInv, DescInv, On
<1>1. IsBuffer(x) /\ DOMAIN buf = Block /\ (x.tr # 0 => ~x.d /\ ~x.lk)
  BY BufferFacts
<1>t. T \in 0..MaxTid /\ T # 0
  BY <1>c DEF IInv, ControlInv, TypeInv, JournalType
<1>i. /\ Listed(x, use[b]) /\ OnIo(x, b \in batch, b \in iolist)
      /\ DOMAIN home = Block /\ DOMAIN dq = Block /\ batch \subseteq Block /\ iolist \subseteq Block
      /\ use[b] = FRESH => b \in access
      /\ use[b] = DATA => b \notin access
      /\ dq[b] # 0 => use[b] = DATA /\ mode = "up"
  BY BlockFacts
<1>2. y = File(x, T, "Shadow") /\ "Shadow" \in Lists /\ \A c \in Block : c # b => buf'[c] = buf[c]
  BY <1>0, <1>1 DEF Lists
<1>3. y.tr = T /\ y.jl = "Shadow" /\ (y.jd <=> x.jd \/ x.d) /\ ~y.d /\ (y.lk <=> x.lk)
  BY <1>1, <1>2, <1>t, FileFields
<1>4. x.jd /\ ~x.lk /\ b \notin batch
  BY <1>c, <1>1, <1>t, <1>i DEF Listed, OnIo
<1>5. Safe(y, home[b], use[b], mode = "up") /\ OnIo(y, b \in batch, b \in iolist)
  BY <1>3, <1>4, <1>t DEF Safe, AtHome, Listed, OnIo
<1> HIDE DEF x, y
<1>6. Safe(buf'[b], home'[b], use'[b], mode = "up") /\ OnIo(buf'[b], b \in batch', b \in iolist')
  BY <1>0, <1>5 DEF y
<1> QED
  BY <1>0, <1>i, <1>2, <1>6, OneBlock

LEMMA ForgetBufferHome ==
  ASSUME IInv, Undisturbed, HomeInv, IoInv, NEW b \in Block, ForgetBuffer(b)
  PROVE  HomeInv' /\ IoInv'
<1> DEFINE x == buf[b]  y == buf'[b]  T == j.committing  c == CheckpointedBy(x)  z == Thawed(x, c)
<1>0. /\ stage = "forget" /\ x.tr = T /\ x.jl = "Forget"
      /\ buf' = [buf EXCEPT ![b] = Refile(z)] /\ iolist' = iolist \ {b}
      /\ UNCHANGED <<mode, home, dq, use, access, batch>>
  BY DEF ForgetBuffer, On, Thawed, disk, machine, fs
<1>1. IsBuffer(x) /\ DOMAIN buf = Block /\ (x.tr # 0 => ~x.d /\ ~x.lk)
  BY BufferFacts
<1>t. T \in 0..MaxTid /\ T # 0 /\ c \in 0..MaxTid /\ (x.jd => c # 0)
  BY <1>0, ZeroTid DEF IInv, ControlInv, TypeInv, JournalType, CheckpointedBy
<1>i. /\ Listed(x, use[b]) /\ OnIo(x, b \in batch, b \in iolist)
      /\ DOMAIN home = Block /\ DOMAIN dq = Block /\ batch \subseteq Block /\ iolist \subseteq Block
      /\ use[b] = FRESH => b \in access
      /\ use[b] = DATA => b \notin access
      /\ dq[b] # 0 => use[b] = DATA /\ mode = "up"
  BY BlockFacts
<1> HIDE DEF c
<1>2. /\ IsBuffer(z) /\ z.nxt = x.nxt /\ z.cp = c
      /\ (z.jd <=> x.jd) /\ (z.d <=> x.d) /\ (z.lk <=> x.lk)
  BY <1>1, <1>t, CheckpointFields
<1> HIDE DEF z
<1>3. y = Refile(z) /\ \A e \in Block : e # b => buf'[e] = buf[e]
  BY <1>0, <1>1
<1>4. /\ y.tr = x.nxt /\ ~y.lk /\ y.cp = c
      /\ x.nxt = 0 => y.jl = "None" /\ ~y.jd /\ (y.d <=> x.jd)
      /\ x.nxt # 0 => /\ y.jl = (IF z.jd THEN "Metadata" ELSE "Reserved")
                      /\ (y.jd <=> x.jd) /\ ~y.d
  <2>1. /\ y.tr = z.nxt /\ (y.lk <=> z.lk) /\ y.cp = z.cp
        /\ z.nxt = 0 => y.jl = "None" /\ ~y.jd /\ (y.d <=> z.d \/ z.jd)
        /\ z.nxt # 0 => /\ y.jl = (IF z.jd THEN "Metadata" ELSE "Reserved")
                        /\ (y.jd <=> z.jd) /\ (y.d <=> z.d)
    BY <1>2, <1>3, RefileFields
  <2> QED
    BY <1>0, <1>1, <1>2, <1>t, <2>1
<1>5. (~x.jd => ~(use[b] >= 0) \/ use[b] = FRESH) /\ b \notin batch
  BY <1>0, <1>t, <1>i DEF Listed, OnIo
<1>n. use[b] = FRESH => x.nxt # 0
  <2>1. use[b] = FRESH => j.running # 0 /\ j.running \in {x.tr, x.nxt}
    BY <1>0, <1>t, <1>i DEF IInv, ControlInv, ListInv
  <2>2. x.tr # j.running
    <3>1. j.committing \in Nat /\ j.running \in Nat
      BY ZeroTid DEF IInv, TypeInv, JournalType
    <3>2. j.running # 0 => j.committing < j.running
      BY DEF IInv, ControlInv
    <3> QED
      BY <1>0, <1>t, <3>1, <3>2
  <2> QED
    BY <2>1, <2>2
<1>6. Listed(y, use[b]) /\ OnIo(y, b \in batch, FALSE)
  <2>1. CASE x.nxt = 0
    BY <1>4, <1>5, <1>n, <1>t, <2>1 DEF Listed, OnIo
  <2>2. CASE x.nxt # 0 /\ x.jd
    BY <1>2, <1>4, <1>5, <1>n, <2>2 DEF Listed, OnIo
  <2>3. CASE x.nxt # 0 /\ ~x.jd
    BY <1>2, <1>4, <1>5, <1>n, <2>3 DEF Listed, OnIo
  <2> QED
    BY <2>1, <2>2, <2>3
<1>7. AtHome(y, home[b], use[b])
  <2>1. CASE x.jd
    BY <1>2, <1>4, <2>1 DEF AtHome
  <2>2. CASE ~x.jd
    BY <1>5, <2>2 DEF AtHome, FRESH
  <2> QED
    BY <2>1, <2>2
<1> HIDE DEF x, y
<1>8. Safe(buf'[b], home'[b], use'[b], mode = "up") /\ OnIo(buf'[b], b \in batch', b \in iolist')
  BY <1>0, <1>6, <1>7 DEF y, Safe, OnIo
<1> QED
  BY <1>0, <1>i, <1>3, <1>8, OneBlock

\* Several blocks change at once.
LEMMA ManyBlocks ==
  ASSUME mode' = mode, access' = access, use' = use, DOMAIN home' = Block, DOMAIN dq' = Block,
         batch' \subseteq batch, iolist' \subseteq Block, HomeInv, IoInv,
         \A b \in Block : /\ Safe(buf'[b], home'[b], use[b], mode = "up")
                          /\ OnIo(buf'[b], b \in batch', b \in iolist')
                          /\ dq'[b] \in {0, dq[b]}
  PROVE  HomeInv' /\ IoInv'
<1>1. HomeInv'
  BY DEF HomeInv, Safe
<1>2. IoInv'
  BY DEF IoInv, OnIo
<1> QED
  BY <1>1, <1>2

LEMMA CommitFlushHome ==
  ASSUME IInv, Undisturbed, HomeInv, IoInv, CommitFlush
  PROVE  HomeInv' /\ IoInv'
<1> DEFINE T == j.running
           Release(b) == IF b \in On(T, "Reserved") THEN Refile(buf[b]) ELSE buf[b]
           Idle == {b \in Block : buf[b].cp # 0 /\ Release(b).jl = "None" /\ ~Release(b).d /\ ~Release(b).lk}
<1>0. /\ stage = "locked" /\ access = {}
      /\ UNCHANGED <<mode, home, dq, use, access, batch>>
  BY DEF CommitFlush, disk, machine, fs
<1>s. PICK S \in SUBSET Idle :
        /\ buf' = [b \in Block |-> IF b \in S THEN [Release(b) EXCEPT !.cp = 0] ELSE Release(b)]
        /\ iolist' = iolist \ S
  BY DEF CommitFlush
<1>t. j.committing = 0 /\ T # 0
  BY <1>0 DEF IInv, ControlInv
<1>1. ASSUME NEW b \in Block
      PROVE  /\ Safe(buf'[b], home'[b], use[b], mode = "up")
             /\ OnIo(buf'[b], b \in batch', b \in iolist')
             /\ dq'[b] \in {0, dq[b]}
  <2> DEFINE x == buf[b]  r == Release(b)  y == buf'[b]
  <2>1. /\ IsBuffer(x) /\ (x.tr # 0 => ~x.d /\ ~x.lk) /\ (x.tr = 0 => ~x.jd)
        /\ Filed(x, T, 0, CommitLists)
    BY <1>t, BufferFacts
  <2>i. /\ Listed(x, use[b]) /\ (mode = "up" => AtHome(x, home[b], use[b]))
        /\ OnIo(x, b \in batch, b \in iolist)
    BY BlockFacts
  <2>2. IsBuffer(r) /\ Listed(r, use[b]) /\ (mode = "up" => AtHome(r, home[b], use[b]))
        /\ OnIo(r, b \in batch, b \in iolist)
    <3>1. CASE b \in On(T, "Reserved")
      <4>1. x.tr = T /\ x.jl = "Reserved" /\ r = Refile(x) /\ x.nxt = 0
        BY <2>1, <3>1 DEF On, Filed
      <4>2. /\ IsBuffer(r) /\ r.tr = 0 /\ r.data = x.data /\ (r.lk <=> x.lk) /\ r.cp = x.cp
            /\ r.jl = "None" /\ ~r.jd /\ (r.d <=> x.d \/ x.jd)
        BY <2>1, <4>1, RefileFields
      <4>3. ~x.d /\ ~x.lk /\ b \notin batch /\ use[b] # FRESH
        BY <1>0, <1>t, <2>1, <2>i, <4>1, BlockFacts DEF OnIo
      <4> QED
        BY <2>i, <4>1, <4>2, <4>3 DEF Listed, AtHome, OnIo
    <3>2. CASE b \notin On(T, "Reserved")
      BY <2>1, <2>i, <3>2
    <3> QED
      BY <3>1, <3>2
  <2>3. CASE b \in S
    <3>1. y = [r EXCEPT !.cp = 0] /\ r.jl = "None" /\ ~r.d /\ ~r.lk /\ b \notin iolist'
      BY <1>s, <2>3
    <3> HIDE DEF r
    <3>2. /\ y.tr = r.tr /\ y.jl = r.jl /\ y.data = r.data
          /\ (y.jd <=> r.jd) /\ (y.d <=> r.d) /\ (y.lk <=> r.lk)
      BY <2>2, <3>1 DEF IsBuffer
    <3>3. Safe(y, home[b], use[b], mode = "up") /\ OnIo(y, b \in batch, b \in iolist')
      BY <2>2, <3>1, <3>2 DEF Safe, Listed, AtHome, OnIo
    <3> HIDE DEF y
    <3> QED
      BY <1>0, <3>3 DEF y
  <2>4. CASE b \notin S
    <3>1. y = r /\ (b \in iolist' <=> b \in iolist)
      BY <1>s, <2>4
    <3> HIDE DEF r
    <3>2. Safe(y, home[b], use[b], mode = "up") /\ OnIo(y, b \in batch, b \in iolist')
      BY <2>2, <3>1 DEF Safe, OnIo
    <3> HIDE DEF y
    <3> QED
      BY <1>0, <3>2 DEF y
  <2> QED
    BY <2>3, <2>4
<1>2. /\ DOMAIN home' = Block /\ DOMAIN dq' = Block /\ batch' \subseteq batch /\ iolist' \subseteq Block
  BY <1>0, <1>s DEF HomeInv, IoInv
<1> QED
  BY <1>0, <1>1, <1>2, ManyBlocks

LEMMA CommitDataHome ==
  ASSUME IInv, HomeInv, IoInv, CommitData
  PROVE  HomeInv' /\ IoInv'
<1>0. /\ stage = "data"
      /\ home' = [b \in Block |-> IF b \in DataBlocks THEN DATA ELSE home[b]]
      /\ dq' = [b \in Block |-> IF b \in DataBlocks THEN 0 ELSE dq[b]]
      /\ UNCHANGED <<mode, buf, use, access, batch, iolist>>
  BY DEF CommitData, disk, machine
<1>t. j.committing # 0
  BY <1>0 DEF IInv, ControlInv
<1>1. ASSUME NEW b \in Block
      PROVE  /\ Safe(buf'[b], home'[b], use[b], mode = "up")
             /\ OnIo(buf'[b], b \in batch', b \in iolist')
             /\ dq'[b] \in {0, dq[b]}
  <2>1. /\ Listed(buf[b], use[b]) /\ (mode = "up" => AtHome(buf[b], home[b], use[b]))
        /\ OnIo(buf[b], b \in batch, b \in iolist)
        /\ dq[b] # 0 => use[b] = DATA
    BY BlockFacts
  <2>2. CASE b \in DataBlocks
    <3>1. use[b] = DATA
      BY <1>t, <2>1, <2>2 DEF DataBlocks
    <3>2. AtHome(buf[b], home'[b], use[b])
      BY <3>1 DEF AtHome, DATA
    <3> QED
      BY <1>0, <2>1, <2>2, <3>2 DEF Safe
  <2>3. CASE b \notin DataBlocks
    BY <1>0, <2>1, <2>3 DEF Safe
  <2> QED
    BY <2>2, <2>3
<1>2. /\ DOMAIN home' = Block /\ DOMAIN dq' = Block /\ batch' \subseteq batch /\ iolist' \subseteq Block
  BY <1>0 DEF IoInv
<1> QED
  BY <1>0, <1>1, <1>2, ManyBlocks

LEMMA CommitWaitHome ==
  ASSUME IInv, Undisturbed, HomeInv, IoInv, CommitWait
  PROVE  HomeInv' /\ IoInv'
<1> DEFINE T == j.committing
<1>0. /\ stage = "write"
      /\ buf' = [b \in Block |-> IF b \in On(T, "Shadow") THEN File(buf[b], T, "Forget") ELSE buf[b]]
      /\ UNCHANGED <<mode, home, dq, use, access, batch, iolist>>
  BY DEF CommitWait, disk, machine, fs
<1>t. T \in 0..MaxTid /\ T # 0 /\ "Forget" \in Lists
  BY <1>0 DEF IInv, ControlInv, TypeInv, JournalType, Lists
<1>1. ASSUME NEW b \in Block
      PROVE  /\ Safe(buf'[b], home'[b], use[b], mode = "up")
             /\ OnIo(buf'[b], b \in batch', b \in iolist')
             /\ dq'[b] \in {0, dq[b]}
  <2> DEFINE x == buf[b]  y == buf'[b]
  <2>1. IsBuffer(x) /\ (x.tr # 0 => ~x.d /\ ~x.lk)
    BY BufferFacts
  <2>i. /\ Listed(x, use[b]) /\ (mode = "up" => AtHome(x, home[b], use[b]))
        /\ OnIo(x, b \in batch, b \in iolist)
    BY BlockFacts
  <2>2. CASE b \in On(T, "Shadow")
    <3>1. y = File(x, T, "Forget") /\ x.tr = T /\ x.jl = "Shadow"
      BY <1>0, <2>2 DEF On
    <3>2. y.tr = T /\ y.jl = "Forget" /\ (y.jd <=> x.jd \/ x.d) /\ ~y.d /\ (y.lk <=> x.lk)
      BY <1>t, <2>1, <3>1, FileFields
    <3>3. Safe(y, home[b], use[b], mode = "up") /\ OnIo(y, b \in batch, b \in iolist)
      BY <1>t, <2>1, <2>i, <3>1, <3>2 DEF Safe, Listed, AtHome, OnIo
    <3> HIDE DEF y
    <3> QED
      BY <1>0, <3>3 DEF y
  <2>3. CASE b \notin On(T, "Shadow")
    BY <1>0, <2>i, <2>3 DEF Safe
  <2> QED
    BY <2>2, <2>3
<1>2. /\ DOMAIN home' = Block /\ DOMAIN dq' = Block /\ batch' \subseteq batch /\ iolist' \subseteq Block
  BY <1>0 DEF HomeInv, IoInv
<1> QED
  BY <1>0, <1>1, <1>2, ManyBlocks

-----------------------------------------------------------------------------
(* Writing home and checkpointing *)

LEMMA SubmitFields ==
  ASSUME NEW x, IsBuffer(x), NEW y, y = Submit(x)
  PROVE  /\ y.tr = x.tr /\ y.jl = x.jl /\ y.data = x.data /\ y.cp = x.cp
         /\ (y.jd <=> x.jd) /\ ~y.d /\ (y.lk <=> x.lk \/ x.d)
BY DEF IsBuffer, Submit

\* A buffer that is submitted is no longer dirty but under way.
LEMMA SubmittedSafe ==
  ASSUME NEW x, IsBuffer(x), NEW y, y = Submit(x), NEW h, NEW u, NEW up, Safe(x, h, u, up)
  PROVE  Safe(y, h, u, up)
<1>1. /\ y.tr = x.tr /\ y.jl = x.jl /\ y.data = x.data /\ y.cp = x.cp
      /\ (y.jd <=> x.jd) /\ ~y.d /\ (y.lk <=> x.lk \/ x.d)
  BY SubmitFields
<1> QED
  BY <1>1 DEF Safe, Listed, AtHome

LEMMA WritebackHome ==
  ASSUME IInv, Undisturbed, HomeInv, IoInv, NEW b \in Block, Writeback(b)
  PROVE  HomeInv' /\ IoInv'
<1>0. /\ buf' = [buf EXCEPT ![b] = Submit(@)]
      /\ UNCHANGED <<mode, home, dq, use, access, batch, iolist>>
  BY DEF Writeback, disk, machine, fs
<1>1. ASSUME NEW c \in Block
      PROVE  /\ Safe(buf'[c], home'[c], use[c], mode = "up")
             /\ OnIo(buf'[c], c \in batch', c \in iolist')
             /\ dq'[c] \in {0, dq[c]}
  <2>1. IsBuffer(buf[c]) /\ DOMAIN buf = Block
    BY BufferFacts
  <2>2. Safe(buf[c], home[c], use[c], mode = "up") /\ OnIo(buf[c], c \in batch, c \in iolist)
    BY BlockFacts DEF Safe
  <2>3. buf'[c] = buf[c] \/ buf'[c] = Submit(buf[c])
    BY <1>0, <2>1
  <2>4. Safe(buf'[c], home[c], use[c], mode = "up")
    BY <2>1, <2>2, <2>3, SubmittedSafe
  <2>5. OnIo(buf'[c], c \in batch, c \in iolist)
    BY <2>1, <2>2, <2>3, SubmitFields DEF OnIo
  <2> QED
    BY <1>0, <2>4, <2>5
<1>2. /\ DOMAIN home' = Block /\ DOMAIN dq' = Block /\ batch' \subseteq batch /\ iolist' \subseteq Block
  BY <1>0 DEF HomeInv, IoInv
<1> QED
  BY <1>0, <1>1, <1>2, ManyBlocks

LEMMA FlushBatchHome ==
  ASSUME IInv, Undisturbed, HomeInv, IoInv, __flush_batch
  PROVE  HomeInv' /\ IoInv'
<1>0. /\ buf' = [b \in Block |-> IF b \in batch THEN Submit(buf[b]) ELSE buf[b]] /\ batch' = {}
      /\ UNCHANGED <<mode, home, dq, use, access, iolist>>
  BY DEF __flush_batch, disk, machine, fs
<1>1. ASSUME NEW b \in Block
      PROVE  /\ Safe(buf'[b], home'[b], use[b], mode = "up")
             /\ OnIo(buf'[b], b \in batch', b \in iolist')
             /\ dq'[b] \in {0, dq[b]}
  <2>1. IsBuffer(buf[b]) /\ Filed(buf[b], j.running, j.committing, CommitLists)
    BY BufferFacts
  <2>2. Safe(buf[b], home[b], use[b], mode = "up") /\ OnIo(buf[b], b \in batch, b \in iolist)
    BY BlockFacts DEF Safe
  <2>3. CASE b \in batch
    <3>1. buf'[b] = Submit(buf[b])
      BY <1>0, <2>3
    <3>2. Safe(buf'[b], home[b], use[b], mode = "up")
      BY <2>1, <2>2, <3>1, SubmittedSafe
    <3>3. buf[b].tr = 0 /\ buf[b].jl = "None"
      BY <2>1, <2>2, <2>3 DEF OnIo, Filed
    <3>4. ~buf'[b].d /\ buf'[b].jl = "None"
      BY <2>1, <3>1, <3>3, SubmitFields
    <3>5. OnIo(buf'[b], b \in batch', b \in iolist')
      BY <1>0, <3>4 DEF OnIo
    <3>6. home'[b] = home[b] /\ dq'[b] = dq[b]
      BY <1>0
    <3> QED
      BY <3>2, <3>5, <3>6
  <2>4. CASE b \notin batch
    BY <1>0, <2>2, <2>4
  <2> QED
    BY <2>3, <2>4
<1>2. /\ DOMAIN home' = Block /\ DOMAIN dq' = Block /\ batch' \subseteq batch /\ iolist' \subseteq Block
  BY <1>0 DEF HomeInv, IoInv
<1> QED
  BY <1>0, <1>1, <1>2, ManyBlocks

LEMMA WriteDoneHome ==
  ASSUME IInv, Undisturbed, HomeInv, IoInv, NEW b \in Block, WriteDone(b)
  PROVE  HomeInv' /\ IoInv'
<1> DEFINE x == buf[b]  y == buf'[b]
<1>0. /\ x.lk /\ home' = [home EXCEPT ![b] = x.data] /\ buf' = [buf EXCEPT ![b].lk = FALSE]
      /\ UNCHANGED <<mode, dq, use, access, batch, iolist>>
  BY DEF WriteDone, machine, fs
<1>1. IsBuffer(x) /\ DOMAIN buf = Block
  BY BufferFacts
<1>i. /\ Listed(x, use[b]) /\ OnIo(x, b \in batch, b \in iolist)
      /\ DOMAIN home = Block /\ DOMAIN dq = Block /\ batch \subseteq Block /\ iolist \subseteq Block
      /\ use[b] = FRESH => b \in access
      /\ use[b] = DATA => b \notin access
      /\ dq[b] # 0 => use[b] = DATA /\ mode = "up"
  BY BlockFacts
<1>2. /\ y = [x EXCEPT !.lk = FALSE] /\ home'[b] = x.data /\ DOMAIN home' = Block
      /\ \A c \in Block : c # b => buf'[c] = buf[c] /\ home'[c] = home[c]
  BY <1>0, <1>1, <1>i
<1>3. /\ y.tr = x.tr /\ y.jl = x.jl /\ y.data = x.data /\ y.cp = x.cp
      /\ (y.jd <=> x.jd) /\ (y.d <=> x.d) /\ ~y.lk
  BY <1>1, <1>2 DEF IsBuffer
<1>4. Safe(y, x.data, use[b], mode = "up") /\ OnIo(y, b \in batch, b \in iolist)
  BY <1>i, <1>3 DEF Safe, AtHome, Listed, OnIo
<1>5. Safe(y, home'[b], use[b], mode = "up")
  BY <1>2, <1>4
<1> HIDE DEF x, y
<1>6. Safe(buf'[b], home'[b], use'[b], mode = "up") /\ OnIo(buf'[b], b \in batch', b \in iolist')
  BY <1>0, <1>4, <1>5 DEF y
<1> QED
  BY <1>0, <1>i, <1>2, <1>6, OneBlock

LEMMA WriteDataHome ==
  ASSUME HomeInv, IoInv, NEW b \in Block, WriteData(b)
  PROVE  HomeInv' /\ IoInv'
<1>0. /\ dq[b] # 0 /\ home' = [home EXCEPT ![b] = DATA] /\ dq' = [dq EXCEPT ![b] = 0]
      /\ UNCHANGED <<mode, buf, use, access, batch, iolist>>
  BY DEF WriteData, machine
<1>i. /\ Listed(buf[b], use[b]) /\ OnIo(buf[b], b \in batch, b \in iolist)
      /\ DOMAIN home = Block /\ DOMAIN dq = Block /\ batch \subseteq Block /\ iolist \subseteq Block
      /\ use[b] = DATA => b \notin access
      /\ dq[b] # 0 => use[b] = DATA /\ mode = "up"
  BY BlockFacts
<1>1. /\ dq'[b] = 0 /\ DOMAIN home' = Block /\ DOMAIN dq' = Block
      /\ \A c \in Block : c # b => home'[c] = home[c] /\ dq'[c] = dq[c]
  BY <1>0, <1>i
<1>2. use[b] = DATA /\ DATA # FRESH
  BY <1>0, <1>i DEF DATA, FRESH
<1>3. Safe(buf[b], home'[b], use[b], mode = "up")
  BY <1>i, <1>2 DEF Safe, AtHome, DATA
<1>4. Safe(buf'[b], home'[b], use'[b], mode = "up") /\ OnIo(buf'[b], b \in batch', b \in iolist')
  BY <1>0, <1>i, <1>3
<1> QED
  BY <1>0, <1>i, <1>1, <1>2, <1>4, OneBlock

\* A buffer leaves its checkpoint list: it must have nothing to write home.
LEMMA OffList ==
  ASSUME NEW x, IsBuffer(x), NEW y, y = [x EXCEPT !.cp = 0],
         NEW h, NEW u, NEW up, Safe(x, h, u, up),
         ~x.d, ~x.lk, ~(x.jl = "Reserved" /\ x.jd)
  PROVE  /\ Safe(y, h, u, up)
         /\ y.tr = x.tr /\ (y.d <=> x.d) /\ y.jl = x.jl /\ (y.jd <=> x.jd)
<1>1. /\ y.tr = x.tr /\ y.jl = x.jl /\ y.data = x.data
      /\ (y.jd <=> x.jd) /\ (y.d <=> x.d) /\ (y.lk <=> x.lk)
  BY DEF IsBuffer
<1> QED
  BY <1>1 DEF Safe, Listed, AtHome

LEMMA ProcessBufferHome ==
  ASSUME IInv, Undisturbed, HomeInv, IoInv, NEW b \in Block, __process_buffer(b)
  PROVE  HomeInv' /\ IoInv'
<1> DEFINE x == buf[b]
<1>0. /\ ~x.lk /\ x.tr = 0 /\ b \notin access
      /\ \/ ~x.d /\ buf' = [buf EXCEPT ![b].cp = 0] /\ UNCHANGED <<batch, iolist>>
         \/ batch' = batch \cup {b} /\ iolist' = iolist \cup {b} /\ UNCHANGED buf
      /\ UNCHANGED <<mode, home, dq, use, access>>
  BY DEF __process_buffer, IsClean, Opening, disk, machine, fs
<1>1. IsBuffer(x) /\ DOMAIN buf = Block /\ ~x.jd
  BY <1>0, BufferFacts
<1>i. /\ Safe(x, home[b], use[b], mode = "up") /\ OnIo(x, b \in batch, b \in iolist)
      /\ DOMAIN home = Block /\ DOMAIN dq = Block /\ batch \subseteq Block /\ iolist \subseteq Block
      /\ use[b] = FRESH => b \in access
      /\ use[b] = DATA => b \notin access
      /\ dq[b] # 0 => use[b] = DATA /\ mode = "up"
  BY BlockFacts DEF Safe
<1>2. /\ batch' \subseteq Block /\ iolist' \subseteq Block
      /\ \A c \in Block : c # b => /\ buf'[c] = buf[c]
                                 /\ (c \in batch' <=> c \in batch) /\ (c \in iolist' <=> c \in iolist)
  BY <1>0, <1>1, <1>i
<1>3. Safe(buf'[b], home[b], use[b], mode = "up") /\ OnIo(buf'[b], b \in batch', b \in iolist')
  <2>1. CASE ~x.d /\ buf' = [buf EXCEPT ![b].cp = 0] /\ UNCHANGED <<batch, iolist>>
    <3>1. buf'[b] = [x EXCEPT !.cp = 0]
      BY <1>1, <2>1
    <3> HIDE DEF x
    <3>2. /\ Safe(buf'[b], home[b], use[b], mode = "up")
          /\ buf'[b].tr = x.tr /\ (buf'[b].d <=> x.d) /\ (buf'[b].jd <=> x.jd)
      BY <1>0, <1>1, <1>i, <2>1, <3>1, OffList
    <3> QED
      BY <1>0, <1>1, <2>1, <3>2 DEF OnIo
  <2>2. CASE batch' = batch \cup {b} /\ iolist' = iolist \cup {b} /\ UNCHANGED buf
    BY <1>0, <1>i, <2>2 DEF OnIo
  <2> QED
    BY <1>0, <2>1, <2>2
<1> HIDE DEF x
<1>4. Safe(buf'[b], home'[b], use'[b], mode = "up")
  BY <1>0, <1>3
<1> QED
  BY <1>0, <1>i, <1>2, <1>3, <1>4, OneBlock

LEMMA WaitHome ==
  ASSUME IInv, Undisturbed, HomeInv, IoInv, NEW b \in Block, __wait_cp_io(b)
  PROVE  HomeInv' /\ IoInv'
<1> DEFINE x == buf[b]
<1>0. /\ b \in iolist /\ batch = {} /\ ~x.lk
      /\ buf' = [buf EXCEPT ![b].cp = 0] /\ iolist' = iolist \ {b}
      /\ UNCHANGED <<mode, home, dq, use, access, batch>>
  BY DEF __wait_cp_io, disk, machine, fs
<1>1. IsBuffer(x) /\ DOMAIN buf = Block
  BY BufferFacts
<1>i. /\ Safe(x, home[b], use[b], mode = "up") /\ OnIo(x, b \in batch, b \in iolist)
      /\ DOMAIN home = Block /\ DOMAIN dq = Block /\ batch \subseteq Block /\ iolist \subseteq Block
      /\ use[b] = FRESH => b \in access
      /\ use[b] = DATA => b \notin access
      /\ dq[b] # 0 => use[b] = DATA /\ mode = "up"
  BY BlockFacts DEF Safe
<1>2. /\ iolist' \subseteq Block /\ buf'[b] = [x EXCEPT !.cp = 0]
      /\ \A c \in Block : c # b => buf'[c] = buf[c] /\ (c \in iolist' <=> c \in iolist)
  BY <1>0, <1>1, <1>i
<1>3. ~x.d /\ ~(x.jl = "Reserved" /\ x.jd)
  BY <1>0, <1>i DEF OnIo
<1> HIDE DEF x
<1>4. Safe(buf'[b], home[b], use[b], mode = "up")
  BY <1>0, <1>1, <1>i, <1>2, <1>3, OffList
<1>5. Safe(buf'[b], home'[b], use'[b], mode = "up") /\ OnIo(buf'[b], b \in batch', b \in iolist')
  BY <1>0, <1>4 DEF OnIo
<1> QED
  BY <1>0, <1>i, <1>2, <1>5, OneBlock

-----------------------------------------------------------------------------
(* Init, crash and recovery *)

LEMMA CleanSafe ==
  ASSUME NEW h, NEW u, u # FRESH
  PROVE  /\ Listed(Clean(h), u) /\ AtHome(Clean(h), h, u)
         /\ Clean(h).tr = 0 /\ ~Clean(h).d /\ Clean(h).jl = "None" /\ ~Clean(h).jd /\ Clean(h).cp = 0
BY DEF Clean, Listed, AtHome

LEMMA InitHome ==
  ASSUME Init
  PROVE  HomeInv /\ IoInv
<1>0. /\ home = [b \in Block |-> 0] /\ buf = [b \in Block |-> Clean(0)] /\ batch = {} /\ iolist = {}
      /\ use = [b \in Block |-> 0] /\ dq = [b \in Block |-> 0] /\ access = {}
  BY DEF Init
<1>1. HomeInv
  BY <1>0, CleanSafe DEF HomeInv, FRESH
<1> QED
  BY <1>0, <1>1 DEF IoInv

LEMMA CrashHome ==
  ASSUME HomeInv, IoInv, Crash
  PROVE  HomeInv' /\ IoInv'
<1>0. /\ mode' = "down" /\ buf' = [b \in Block |-> Clean(0)] /\ batch' = {} /\ iolist' = {}
      /\ use' = [b \in Block |-> 0] /\ dq' = use' /\ access' = {}
  BY DEF Crash
<1>1. DOMAIN home' = Block
  BY DEF Crash
<1>2. HomeInv'
  BY <1>0, <1>1, CleanSafe DEF HomeInv, FRESH
<1> QED
  BY <1>0, <1>2 DEF IoInv

LEMMA RecoveryCrashHome ==
  ASSUME HomeInv, IoInv, RecoveryCrash
  PROVE  HomeInv' /\ IoInv'
<1>0. mode = "down" /\ UNCHANGED <<mode, dq, buf, use, access, batch, iolist>>
  BY DEF RecoveryCrash, fs
<1>1. DOMAIN home' = Block
  BY DEF RecoveryCrash
<1>2. HomeInv'
  BY <1>0, <1>1 DEF HomeInv
<1> QED
  BY <1>0, <1>2 DEF IoInv

LEMMA LoadHome ==
  ASSUME IInv, HomeInv, IoInv, journal_load
  PROVE  HomeInv' /\ IoInv'
<1> DEFINE s == snap[Recovery.end - 1]
<1>0. /\ mode = "down" /\ mode' = "up" /\ home' = Recovery.home
      /\ buf' = [b \in Block |-> Clean(home'[b])]
      /\ use' = [b \in Block |-> IF s[b] < 0 THEN s[b] ELSE 0]
      /\ UNCHANGED <<dq, access, batch, iolist>>
  BY DEF journal_load
<1>1. DOMAIN home' = Block
  BY <1>0 DEF Recovery
<1>2. access = {}
  BY <1>0 DEF IInv, ControlInv
<1> HIDE DEF s
<1>3. ASSUME NEW b \in Block
      PROVE  /\ Listed(buf'[b], use'[b]) /\ AtHome(buf'[b], home'[b], use'[b])
             /\ use'[b] # FRESH /\ b \notin access' /\ dq'[b] = 0
             /\ buf'[b].tr = 0 /\ ~buf'[b].d /\ buf'[b].jl = "None"
  <2>1. buf'[b] = Clean(home'[b])
    BY <1>0
  <2>2. use'[b] # FRESH
    BY <1>0 DEF FRESH
  <2>3. dq'[b] = 0
    BY <1>0 DEF HomeInv
  <2> QED
    BY <1>0, <1>2, <2>1, <2>2, <2>3, CleanSafe
<1>4. HomeInv'
  BY <1>0, <1>1, <1>3 DEF HomeInv
<1> QED
  BY <1>0, <1>3, <1>4 DEF IoInv

-----------------------------------------------------------------------------
(* The tail of the log *)

LEMMA CpKept ==
  ASSUME NEW x, IsBuffer(x), NEW t, NEW l
  PROVE  /\ File(x, t, l).cp = x.cp /\ Unfile(x).cp = x.cp /\ Refile(x).cp = x.cp
         /\ Freeze(x).cp = x.cp /\ Submit(x).cp = x.cp
         /\ Forget(x).cp = x.cp
<1>1. /\ File(x, t, l).cp = x.cp /\ Unfile(x).cp = x.cp /\ Freeze(x).cp = x.cp /\ Submit(x).cp = x.cp
  BY DEF IsBuffer, File, Unfile, Freeze, Submit
<1>2. Refile(x).cp = x.cp
  BY RefileFields
<1>3. Forget(x).cp = x.cp
  BY DEF IsBuffer, Forget, File, Unfile
<1> QED
  BY <1>1, <1>2, <1>3

\* What the steps do to the numbers of TailInv while the log's tail stays: a
\* transaction is begun with the next number, is committed, and buffers leave
\* their lists or come to that of the transaction whose record is on the disk.
TailKept ==
  /\ mode' = mode /\ sbio' = sbio /\ j'.tailSeq = j.tailSeq
  /\ sb'.seq \in {sb.seq, j.tailSeq}
  /\ j'.nextTid >= j.nextTid
  /\ j'.running \in {0, j.running, j.nextTid}
  /\ j'.committing \in {0, j.committing, j.running}
  /\ Committed' >= Committed
Listing == \A b \in Block : \/ buf'[b].cp \in {0, buf[b].cp}
                            \/ buf'[b].cp = j.committing /\ Committed' = j.committing

LEMMA TailTypes ==
  ASSUME IInv
  PROVE  /\ j.tailSeq \in Nat /\ j.nextTid \in Nat /\ j.running \in Nat /\ j.committing \in Nat
         /\ sb.seq \in Nat /\ sbio.seq \in Nat /\ Committed \in Int /\ stable \in Int
         /\ \A b \in Block : buf[b].cp \in Nat
<1>1. 0..MaxTid \subseteq Nat
  BY ZeroTid
<1>2. /\ j.tailSeq \in Nat /\ j.nextTid \in Nat /\ j.running \in 0..MaxTid /\ j.committing \in 0..MaxTid
      /\ sb.seq \in Nat /\ sbio.seq \in Nat /\ stable \in Int
      /\ \A b \in Block : buf[b].cp \in 0..MaxTid
  BY DEF IInv, TypeInv, JournalType, BufferType, IsBuffer
<1> QED
  BY <1>1, <1>2 DEF Committed

LEMMA TailSteady ==
  ASSUME IInv, IInv', TailInv, TailKept, Listing
  PROVE  TailInv'
<1>1. CASE mode = "down"
  BY <1>1 DEF TailInv, TailKept
<1>2. CASE mode = "up"
  <2>1. /\ j.tailSeq \in Nat /\ j.nextTid \in Nat /\ j.running \in Nat /\ j.committing \in Nat
        /\ sb.seq \in Nat /\ sbio.seq \in Nat /\ Committed \in Int
        /\ \A b \in Block : buf[b].cp \in Nat
    BY TailTypes
  <2>2. j'.nextTid \in Nat /\ Committed' \in Int
    <3>1. /\ j'.nextTid \in Nat /\ stable' \in Int /\ j'.committing \in 0..MaxTid
      BY DEF IInv, TypeInv, JournalType
    <3>2. j'.committing \in Int
      BY <3>1, ZeroTid
    <3> QED
      BY <3>1, <3>2 DEF Committed
  <2>3. /\ sb.seq <= j.tailSeq /\ sbio.seq <= j.tailSeq /\ j.tailSeq <= j.nextTid
        /\ j.running # 0 => j.tailSeq <= j.running
        /\ j.committing # 0 => j.tailSeq <= j.committing
        /\ \A b \in Block : buf[b].cp # 0 => j.tailSeq <= buf[b].cp /\ buf[b].cp <= Committed
    BY <1>2 DEF TailInv
  <2>4. /\ sb'.seq <= j'.tailSeq /\ sbio'.seq <= j'.tailSeq /\ j'.tailSeq <= j'.nextTid
        /\ j'.running # 0 => j'.tailSeq <= j'.running
        /\ j'.committing # 0 => j'.tailSeq <= j'.committing
    BY <2>1, <2>2, <2>3 DEF TailKept
  <2>5. ASSUME NEW b \in Block, buf'[b].cp # 0
        PROVE  j'.tailSeq <= buf'[b].cp /\ buf'[b].cp <= Committed'
    <3>1. CASE buf'[b].cp \in {0, buf[b].cp}
      BY <2>1, <2>2, <2>3, <2>5, <3>1 DEF TailKept
    <3>2. CASE buf'[b].cp = j.committing /\ Committed' = j.committing
      BY <2>1, <2>3, <2>5, <3>2 DEF TailKept
    <3> QED
      BY <3>1, <3>2 DEF Listing
  <2> QED
    BY <1>2, <2>4, <2>5 DEF TailInv, TailKept
<1> QED
  BY <1>1, <1>2 DEF IInv, TypeInv

\* The steps that leave kjournald and the superblock alone.
HeadMoves == \E h, f : j' = [j EXCEPT !.head = h, !.free = f]
LEMMA TailIdle ==
  ASSUME IInv, UNCHANGED <<mode, sb, sbio, stage, stable>>,
         \/ j' = j
         \/ \E b \in Block : StartHandle(b)
         \/ HeadMoves
  PROVE  TailKept
<1>1. JournalType /\ Committed \in Int
  BY TailTypes DEF IInv, TypeInv
<1>2. /\ j'.tailSeq = j.tailSeq /\ j'.nextTid >= j.nextTid
      /\ j'.running \in {0, j.running, j.nextTid} /\ j'.committing = j.committing
  <2>1. CASE j' = j
    BY <1>1, <2>1 DEF JournalType
  <2>2. CASE \E b \in Block : StartHandle(b)
    <3>1. j' = [j EXCEPT !.running = Tid, !.nextTid = IF j.running = 0 THEN @ + 1 ELSE @]
      BY <2>2 DEF StartHandle
    <3>2. /\ j'.tailSeq = j.tailSeq /\ j'.running = Tid /\ j'.committing = j.committing
          /\ j'.nextTid = IF j.running = 0 THEN j.nextTid + 1 ELSE j.nextTid
      BY <1>1, <3>1 DEF JournalType
    <3>3. Tid \in {j.running, j.nextTid}
      BY DEF Tid
    <3>4. j.nextTid \in Nat
      BY <1>1 DEF JournalType
    <3> QED
      BY <3>2, <3>3, <3>4
  <2>3. ASSUME NEW h, NEW f, j' = [j EXCEPT !.head = h, !.free = f]
        PROVE  /\ j'.tailSeq = j.tailSeq /\ j'.nextTid >= j.nextTid
               /\ j'.running = j.running /\ j'.committing = j.committing
    <3>1. /\ j'.tailSeq = j.tailSeq /\ j'.nextTid = j.nextTid
          /\ j'.running = j.running /\ j'.committing = j.committing
      BY <1>1, <2>3 DEF JournalType
    <3>2. j.nextTid \in Nat
      BY <1>1 DEF JournalType
    <3> QED
      BY <3>1, <3>2
  <2> QED
    BY <2>1, <2>2, <2>3 DEF HeadMoves
<1>3. Committed' = Committed
  BY <1>2 DEF Committed
<1>4. Committed' >= Committed
  BY <1>1, <1>3
<1> QED
  BY <1>2, <1>4 DEF TailKept

\* One buffer changes, and keeps its list or leaves it.
LEMMA OneListing ==
  ASSUME IInv, NEW b \in Block, NEW y, buf' = [buf EXCEPT ![b] = y], y.cp \in {0, buf[b].cp}
  PROVE  Listing
BY DEF IInv, TypeInv, BufferType, Listing

LEMMA HandleTail ==
  ASSUME IInv, NEW b \in Block,
         \/ journal_get_write_access(b) \/ FileReserved(b) \/ journal_get_create_access(b)
         \/ journal_dirty_metadata(b) \/ journal_release_buffer(b) \/ journal_revoke(b) \/ ReuseAsData(b)
  PROVE  TailKept /\ Listing
<1> DEFINE x == buf[b]
<1>0. IsBuffer(x) /\ DOMAIN buf = Block
  BY DEF IInv, TypeInv, BufferType
<1>1. CASE journal_get_write_access(b)
  <2>1. TailKept
    BY <1>1, TailIdle DEF journal_get_write_access, disk, commit, machine
  <2>2. \/ buf' = buf
        \/ buf' = [buf EXCEPT ![b] = Freeze(x)]
    BY <1>1 DEF journal_get_write_access
  <2>3. Listing
    <3>1. CASE buf' = buf
      BY <3>1 DEF Listing
    <3>2. CASE buf' # buf
      BY <1>0, <2>2, <3>2, CpKept, OneListing
    <3> QED
      BY <3>1, <3>2
  <2> QED
    BY <2>1, <2>3
<1>2. CASE journal_get_create_access(b)
  <2>1. TailKept
    BY <1>2, TailIdle DEF journal_get_create_access, disk, commit, machine
  <2> DEFINE y == IF x.tr = 0 THEN File(x, Tid, "Reserved") ELSE [x EXCEPT !.nxt = Tid]
  <2>2. buf' = [buf EXCEPT ![b] = y]
    BY <1>2 DEF journal_get_create_access
  <2>3. y.cp = x.cp
    <3>1. [x EXCEPT !.nxt = Tid].cp = x.cp
      BY <1>0 DEF IsBuffer
    <3> QED
      BY <1>0, <3>1, CpKept
  <2> HIDE DEF y
  <2> QED
    BY <2>1, <2>2, <2>3, OneListing
<1>3. CASE journal_dirty_metadata(b)
  <2>1. TailKept
    BY <1>3, TailIdle DEF journal_dirty_metadata, disk, commit, machine
  <2> DEFINE z == Dirtied(x, j.running)
             y == IF z.tr = j.running THEN File(z, j.running, "Metadata") ELSE z
  <2>2. buf' = [buf EXCEPT ![b] = y]
    BY <1>3 DEF journal_dirty_metadata, Dirtied
  <2>3. IsBuffer(z) /\ z.cp = x.cp
    BY <1>0, DirtyFields
  <2> HIDE DEF z
  <2>4. y.cp = x.cp
    BY <2>3, CpKept
  <2> HIDE DEF y
  <2> QED
    BY <2>1, <2>2, <2>4, OneListing
<1>4. CASE journal_release_buffer(b)
  <2>1. TailKept
    BY <1>4, TailIdle DEF journal_release_buffer, disk, commit, machine
  <2>2. Listing
    BY <1>4 DEF journal_release_buffer, Listing
  <2> QED
    BY <2>1, <2>2
<1>5. CASE journal_revoke(b)
  <2>1. TailKept
    BY <1>5, TailIdle DEF journal_revoke, disk, commit, machine
  <2>2. CASE buf' = [buf EXCEPT ![b] = Forget(x)]
    BY <1>0, <2>1, <2>2, CpKept, OneListing
  <2>3. CASE buf' = [buf EXCEPT ![b].nxt = 0]
    <3>1. [x EXCEPT !.nxt = 0].cp = x.cp
      BY <1>0 DEF IsBuffer
    <3>2. buf' = [buf EXCEPT ![b] = [x EXCEPT !.nxt = 0]]
      BY <2>3
    <3> QED
      BY <2>1, <3>1, <3>2, OneListing
  <2> QED
    BY <1>5, <2>2, <2>3 DEF journal_revoke
<1>6. CASE ReuseAsData(b)
  <2>1. TailKept
    BY <1>6, TailIdle DEF ReuseAsData, disk, commit, machine
  <2>2. [x EXCEPT !.d = FALSE].cp = x.cp
    BY <1>0 DEF IsBuffer
  <2>3. buf' = [buf EXCEPT ![b] = [x EXCEPT !.d = FALSE]]
    BY <1>6 DEF ReuseAsData
  <2> QED
    BY <2>1, <2>2, <2>3, OneListing
<1>7. CASE FileReserved(b)
  <2>1. TailKept
    BY <1>7, TailIdle DEF FileReserved, disk, commit, machine
  <2>2. buf' = [buf EXCEPT ![b] = File(x, j.running, "Reserved")]
    BY <1>7 DEF FileReserved
  <2>3. File(x, j.running, "Reserved").cp = x.cp
    BY <1>0, CpKept
  <2> QED
    BY <2>1, <2>2, <2>3, OneListing
<1> QED
  BY <1>1, <1>2, <1>3, <1>4, <1>5, <1>6, <1>7

LEMMA WritingTail ==
  ASSUME IInv, NEW b \in Block,
         Writeback(b) \/ WriteDone(b) \/ WriteData(b) \/ __process_buffer(b) \/ __wait_cp_io(b)
  PROVE  TailKept /\ Listing
<1> DEFINE x == buf[b]
<1>0. IsBuffer(x) /\ DOMAIN buf = Block
  BY DEF IInv, TypeInv, BufferType
<1>1. TailKept
  <2>1. UNCHANGED <<mode, sb, sbio, stage, stable, j>>
    BY DEF Writeback, WriteDone, WriteData, __process_buffer, __wait_cp_io, disk, commit, machine
  <2> QED
    BY <2>1, TailIdle
<1>2. \/ buf' = buf
      \/ buf' = [buf EXCEPT ![b] = Submit(x)]
      \/ buf' = [buf EXCEPT ![b] = [x EXCEPT !.lk = FALSE]]
      \/ buf' = [buf EXCEPT ![b] = [x EXCEPT !.cp = 0]]
  BY DEF Writeback, WriteDone, WriteData, __process_buffer, __wait_cp_io
<1>3. [x EXCEPT !.lk = FALSE].cp = x.cp /\ [x EXCEPT !.cp = 0].cp = 0 /\ Submit(x).cp = x.cp
  BY <1>0, CpKept DEF IsBuffer
<1>4. Listing
  <2>1. CASE buf' = buf
    BY <2>1 DEF Listing
  <2>2. CASE buf' # buf
    BY <1>2, <1>3, <2>2, OneListing
  <2> QED
    BY <2>1, <2>2
<1> QED
  BY <1>1, <1>4

\* A stage of the commit ends; the journal has moved on.
LEMMA StageTail ==
  ASSUME IInv, UNCHANGED <<mode, sbio>>, sb' = sb \/ sb' = SbNow,
         j'.tailSeq = j.tailSeq, j'.nextTid = j.nextTid, j'.running \in {0, j.running},
         j'.committing \in {0, j.committing, j.running}, Committed' >= Committed
  PROVE  TailKept
<1>1. j.nextTid \in Nat
  BY TailTypes
<1>2. sb'.seq \in {sb.seq, j.tailSeq}
  BY DEF SbNow
<1> QED
  BY <1>1, <1>2 DEF TailKept

LEMMA CommitTail ==
  ASSUME IInv, Commit
  PROVE  TailKept /\ Listing
<1>0. JournalType /\ Committed \in Int /\ stable \in Int /\ j.committing \in Nat
  BY TailTypes DEF IInv, TypeInv
<1>b. DOMAIN buf = Block /\ \A b \in Block : IsBuffer(buf[b])
  BY DEF IInv, TypeInv, BufferType
<1>1. CASE CommitLock
  <2>1. /\ stage = "idle" /\ stage' = "locked" /\ UNCHANGED <<mode, sbio, buf, stable>>
        /\ sb' = sb \/ sb' = SbNow
        /\ j' = [j EXCEPT !.flushed = FALSE]
    BY <1>1 DEF CommitLock, UpdateFlushed, machine
  <2>2. /\ j'.tailSeq = j.tailSeq /\ j'.nextTid = j.nextTid /\ j'.running = j.running
        /\ j'.committing = j.committing
    BY <1>0, <2>1 DEF JournalType
  <2>3. Committed' = Committed
    BY <2>1 DEF Committed
  <2>4. Committed' >= Committed
    BY <1>0, <2>3
  <2> QED
    BY <2>1, <2>2, <2>4, StageTail DEF Listing
<1>2. CASE CommitFlush
  <2>1. /\ stage = "locked" /\ stage' = "data" /\ UNCHANGED <<mode, sb, sbio, stable>>
        /\ j' = [j EXCEPT !.committing = j.running, !.running = 0]
    BY <1>2 DEF CommitFlush, disk, machine
  <2>2. /\ j'.tailSeq = j.tailSeq /\ j'.nextTid = j.nextTid /\ j'.running = 0
        /\ j'.committing = j.running
    BY <1>0, <2>1 DEF JournalType
  <2>3. Committed' = Committed
    BY <2>1 DEF Committed
  <2>4. Committed' >= Committed
    BY <1>0, <2>3
  <2>5. TailKept
    BY <2>1, <2>2, <2>4, StageTail
  <2> DEFINE Release(b) == IF b \in On(j.running, "Reserved") THEN Refile(buf[b]) ELSE buf[b]
  <2>6. PICK S : buf' = [b \in Block |-> IF b \in S THEN [Release(b) EXCEPT !.cp = 0] ELSE Release(b)]
    BY <1>2 DEF CommitFlush
  <2>7. ASSUME NEW b \in Block
        PROVE  buf'[b].cp \in {0, buf[b].cp}
    <3>1. IsBuffer(Release(b)) /\ Release(b).cp = buf[b].cp
      BY <1>b, RefileFields
    <3>2. [Release(b) EXCEPT !.cp = 0].cp = 0
      <4> DEFINE r == Release(b)
      <4>1. IsBuffer(r)
        BY <3>1
      <4> HIDE DEF r
      <4>2. [r EXCEPT !.cp = 0].cp = 0
        BY <4>1 DEF IsBuffer
      <4> QED
        BY <4>2 DEF r
    <3> QED
      BY <2>6, <3>1, <3>2
  <2> QED
    BY <2>5, <2>7 DEF Listing
<1>3. CASE CommitData
  <2>1. /\ stage = "data" /\ stage' = "write" /\ UNCHANGED <<mode, sb, sbio, stable, buf>>
        /\ NextLogBlock(RevokeBlocks(Cardinality(crevoke)))
    BY <1>3 DEF CommitData, machine
  <2>2. /\ j'.tailSeq = j.tailSeq /\ j'.nextTid = j.nextTid /\ j'.running = j.running
        /\ j'.committing = j.committing
    BY <1>0, <2>1 DEF JournalType, NextLogBlock
  <2>3. Committed' = Committed
    BY <2>1 DEF Committed
  <2>4. Committed' >= Committed
    BY <1>0, <2>3
  <2> QED
    BY <2>1, <2>2, <2>4, StageTail DEF Listing
<1>4. CASE CommitWait
  <2>1. /\ stage = "write" /\ stage' = "record" /\ UNCHANGED <<mode, sb, sbio, stable>>
        /\ NextLogBlock(1)
        /\ buf' = [b \in Block |-> IF b \in On(j.committing, "Shadow")
                                      THEN File(buf[b], j.committing, "Forget") ELSE buf[b]]
    BY <1>4 DEF CommitWait, machine
  <2>2. /\ j'.tailSeq = j.tailSeq /\ j'.nextTid = j.nextTid /\ j'.running = j.running
        /\ j'.committing = j.committing
    BY <1>0, <2>1 DEF JournalType, NextLogBlock
  <2>3. Committed' = Committed
    BY <2>1 DEF Committed
  <2>4. Committed' >= Committed
    BY <1>0, <2>3
  <2>5. Listing
    BY <1>b, <2>1, CpKept DEF Listing
  <2> QED
    BY <2>1, <2>2, <2>4, <2>5, StageTail
<1>5. CASE CommitRecordDone
  <2>1. /\ stage = "record" /\ stage' = "forget" /\ UNCHANGED <<mode, sb, sbio, stable, buf, j>>
    BY <1>5 DEF CommitRecordDone, machine
  <2>2. Committed' = j.committing /\ Committed = stable /\ stable < j.committing
    BY <2>1 DEF Committed, IInv, ControlInv
  <2>3. Committed' >= Committed
    BY <1>0, <2>2
  <2> QED
    BY <2>1, <2>3, StageTail DEF Listing
<1>6. CASE CommitFinish
  <2>1. /\ stage = "forget" /\ stage' = "idle" /\ UNCHANGED <<mode, sb, sbio, buf>>
        /\ stable' = j.committing /\ j' = [j EXCEPT !.committing = 0]
    BY <1>6 DEF CommitFinish, disk, machine
  <2>2. /\ j'.tailSeq = j.tailSeq /\ j'.nextTid = j.nextTid /\ j'.running = j.running
        /\ j'.committing = 0
    BY <1>0, <2>1 DEF JournalType
  <2>3. Committed' = Committed
    BY <2>1 DEF Committed
  <2>4. Committed' >= Committed
    BY <1>0, <2>3
  <2> QED
    BY <2>1, <2>2, <2>4, StageTail DEF Listing
<1>7. ASSUME NEW b \in Block, WriteBuffer(b)
      PROVE  TailKept /\ Listing
  <2> DEFINE y == [buf[b] EXCEPT !.fz = CopyOut(buf[b])]
  <2>1. /\ UNCHANGED <<mode, sb, sbio, stage, stable>> /\ HeadMoves
        /\ buf' = [buf EXCEPT ![b] = y]
    BY <1>7 DEF WriteBuffer, NextLogBlock, HeadMoves, disk, machine
  <2>2. TailKept
    BY <2>1, TailIdle
  <2>3. y.cp = buf[b].cp
    BY <1>b DEF IsBuffer
  <2> HIDE DEF y
  <2>4. Listing
    BY <2>1, <2>3, OneListing
  <2> QED
    BY <2>2, <2>4
<1>9. ASSUME NEW b \in Block, ShadowBuffer(b)
      PROVE  TailKept /\ Listing
  <2>1. /\ UNCHANGED <<mode, sb, sbio, stage, stable, j>>
        /\ buf' = [buf EXCEPT ![b] = File(buf[b], j.committing, "Shadow")]
    BY <1>9 DEF ShadowBuffer, disk, machine
  <2>2. TailKept
    BY <2>1, TailIdle
  <2>3. File(buf[b], j.committing, "Shadow").cp = buf[b].cp
    BY <1>b, CpKept
  <2>4. Listing
    BY <2>1, <2>3, OneListing
  <2> QED
    BY <2>2, <2>4
<1>8. ASSUME NEW b \in Block, ForgetBuffer(b)
      PROVE  TailKept /\ Listing
  <2> DEFINE c == CheckpointedBy(buf[b])  z == Thawed(buf[b], c)
  <2>1. /\ UNCHANGED <<mode, sb, sbio, stage, stable, j>> /\ stage = "forget"
        /\ buf' = [buf EXCEPT ![b] = Refile(z)]
    BY <1>8 DEF ForgetBuffer, Thawed, disk, commit, machine
  <2>2. TailKept
    BY <2>1, TailIdle
  <2>3. c \in 0..MaxTid /\ c \in {0, j.committing}
    BY <1>0, ZeroTid DEF CheckpointedBy, JournalType
  <2> HIDE DEF c
  <2>4. IsBuffer(z) /\ z.cp = c
    BY <1>b, <2>3, CheckpointFields
  <2> HIDE DEF z
  <2>5. buf'[b].cp = c /\ \A e \in Block : e # b => buf'[e] = buf[e]
    BY <1>b, <2>1, <2>4, CpKept
  <2>6. Committed' = j.committing
    BY <2>1 DEF Committed
  <2> QED
    BY <2>2, <2>3, <2>5, <2>6 DEF Listing
<1> QED
  BY <1>1, <1>2, <1>3, <1>4, <1>5, <1>6, <1>7, <1>8, <1>9 DEF Commit

LEMMA OtherTail ==
  ASSUME IInv, __flush_batch \/ journal_flush \/ RecoveryCrash \/ UNCHANGED vars
  PROVE  TailKept /\ Listing
<1>b. DOMAIN buf = Block /\ \A b \in Block : IsBuffer(buf[b])
  BY DEF IInv, TypeInv, BufferType
<1>1. CASE __flush_batch
  <2>1. /\ UNCHANGED <<mode, sb, sbio, stage, stable, j>>
        /\ buf' = [b \in Block |-> IF b \in batch THEN Submit(buf[b]) ELSE buf[b]]
    BY <1>1 DEF __flush_batch, disk, commit, machine
  <2>2. Listing
    BY <1>b, <2>1, CpKept DEF Listing
  <2> QED
    BY <2>1, <2>2, TailIdle
<1>2. CASE journal_flush
  <2>0. JournalType /\ Committed \in Int
    BY TailTypes DEF IInv, TypeInv
  <2>1. /\ UNCHANGED <<mode, sbio, stage, stable, buf>>
        /\ sb' = [start |-> 0, seq |-> j.tailSeq] /\ j' = [j EXCEPT !.flushed = TRUE]
    BY <1>2 DEF journal_flush, commit, machine
  <2>2. /\ j'.tailSeq = j.tailSeq /\ j'.nextTid = j.nextTid /\ j'.running = j.running
        /\ j'.committing = j.committing
    BY <2>0, <2>1 DEF JournalType
  <2>3. Committed' = Committed
    BY <2>1, <2>2 DEF Committed
  <2>4. Committed' >= Committed /\ j.nextTid >= j.nextTid
    BY <2>0, <2>3 DEF JournalType
  <2> QED
    BY <2>1, <2>2, <2>4 DEF TailKept, Listing
<1>3. CASE RecoveryCrash \/ UNCHANGED vars
  <2>1. UNCHANGED <<mode, sb, sbio, stage, stable, j, buf>>
    BY <1>3 DEF RecoveryCrash, vars, disk, commit, machine
  <2> QED
    BY <2>1, TailIdle DEF Listing
<1> QED
  BY <1>1, <1>2, <1>3

\* cleanup_journal_tail() drops only transactions that are checkpointed: all
\* that is on a list, commits or runs is as young as the one it stops at.
LEMMA CleanupTail ==
  ASSUME IInv, TailInv, cleanup_journal_tail
  PROVE  TailInv'
<1>0. /\ mode = "up" /\ UNCHANGED <<mode, sb, buf, stage, stable>>
      /\ j' = [j EXCEPT !.free = @ + ((OldestBlock - j.tail) % LogSize),
                         !.tailSeq = OldestTid, !.tail = OldestBlock]
      /\ sbio' = NoSb \/ sbio' = [start |-> OldestBlock, seq |-> OldestTid]
  BY DEF cleanup_journal_tail, disk, commit, machine
<1>1. /\ j.tailSeq \in Nat /\ j.nextTid \in Nat /\ j.running \in Nat /\ j.committing \in Nat
      /\ sb.seq \in Nat /\ Committed \in Int /\ stable \in Int
      /\ \A b \in Block : buf[b].cp \in Nat
  BY TailTypes
<1>2. /\ sb.seq <= j.tailSeq /\ j.tailSeq <= j.nextTid
      /\ j.running # 0 => j.tailSeq <= j.running
      /\ j.committing # 0 => j.tailSeq <= j.committing
      /\ \A b \in Block : buf[b].cp # 0 => j.tailSeq <= buf[b].cp /\ buf[b].cp <= Committed
  BY <1>0 DEF TailInv
<1>3. /\ j.running # 0 => j.running < j.nextTid /\ j.committing < j.running /\ stable < j.running
      /\ j.committing # 0 => j.committing < j.nextTid /\ stable < j.committing
      /\ stable < j.nextTid
      /\ stage = "forget" => j.committing # 0
  BY <1>0 DEF IInv, ControlInv
<1>4. /\ OldestTid \in Nat /\ j.tailSeq <= OldestTid /\ OldestTid <= j.nextTid
      /\ j.running # 0 => OldestTid <= j.running
      /\ j.committing # 0 => OldestTid <= j.committing
      /\ \A b \in Block : buf[b].cp # 0 => OldestTid <= buf[b].cp
  <2>1. CASE Checkpoints # {}
    <3>1. Checkpoints \in SUBSET Nat
      BY <1>1 DEF Checkpoints
    <3>2. /\ OldestTid \in Checkpoints /\ \A i \in Checkpoints : OldestTid <= i
      BY <2>1, <3>1, MinIn DEF OldestTid
    <3>3. PICK a \in Block : buf[a].cp = OldestTid /\ buf[a].cp # 0
      BY <3>2 DEF Checkpoints
    <3>4. OldestTid \in Nat /\ j.tailSeq <= OldestTid /\ OldestTid <= Committed
      BY <1>1, <1>2, <3>3
    <3>5. /\ OldestTid <= j.nextTid
          /\ j.running # 0 => OldestTid <= j.running
          /\ j.committing # 0 => OldestTid <= j.committing
      <4>1. CASE stage = "forget"
        BY <1>1, <1>3, <3>4, <4>1 DEF Committed
      <4>2. CASE stage # "forget"
        BY <1>1, <1>3, <3>4, <4>2 DEF Committed
      <4> QED
        BY <4>1, <4>2
    <3>6. ASSUME NEW b \in Block, buf[b].cp # 0
          PROVE  OldestTid <= buf[b].cp
      <4>1. CASE buf[b].cp = j.committing
        BY <3>5, <3>6, <4>1
      <4>2. CASE buf[b].cp # j.committing
        <5>1. buf[b].cp \in Checkpoints
          BY <3>6, <4>2 DEF Checkpoints
        <5> QED
          BY <3>2, <5>1
      <4> QED
        BY <4>1, <4>2
    <3> QED
      BY <3>4, <3>5, <3>6
  <2>2. CASE Checkpoints = {}
    <3>1. \A b \in Block : buf[b].cp \in {0, j.committing}
      BY <2>2 DEF Checkpoints
    <3>2. OldestTid = IF j.committing # 0 THEN j.committing
                      ELSE IF j.running = 0 THEN j.nextTid ELSE j.running
      BY <2>2 DEF OldestTid, Tid
    <3>3. \A b \in Block : buf[b].cp # 0 => buf[b].cp = OldestTid
      BY <3>1, <3>2
    <3>4. /\ OldestTid \in Nat /\ j.tailSeq <= OldestTid /\ OldestTid <= j.nextTid
          /\ j.running # 0 => OldestTid <= j.running
          /\ j.committing # 0 => OldestTid <= j.committing
      BY <1>1, <1>2, <1>3, <3>2
    <3> QED
      BY <3>3, <3>4
  <2> QED
    BY <2>1, <2>2
<1>5. /\ j'.tailSeq = OldestTid /\ j'.nextTid = j.nextTid /\ j'.running = j.running
      /\ j'.committing = j.committing
  BY <1>0 DEF IInv, TypeInv, JournalType
<1>6. Committed' = Committed
  BY <1>0, <1>5 DEF Committed
<1>7. sbio'.seq \in {0, OldestTid}
  BY <1>0 DEF NoSb
<1>8. sb'.seq <= j'.tailSeq /\ sbio'.seq <= j'.tailSeq
  BY <1>0, <1>1, <1>2, <1>4, <1>5, <1>7
<1> QED
  BY <1>0, <1>2, <1>4, <1>5, <1>6, <1>8 DEF TailInv

LEMMA SuperblockTail ==
  ASSUME IInv, TailInv, SuperblockDone
  PROVE  TailInv'
<1>0. /\ UNCHANGED <<mode, buf, stage, stable>> /\ sbio # NoSb
      /\ sb' = sbio /\ sbio' = NoSb /\ j' = [j EXCEPT !.flushed = FALSE]
  BY DEF SuperblockDone, commit, machine
<1>1. /\ j'.tailSeq = j.tailSeq /\ j'.nextTid = j.nextTid /\ j'.running = j.running
      /\ j'.committing = j.committing
  BY <1>0 DEF IInv, TypeInv, JournalType
<1>2. Committed' = Committed
  BY <1>0, <1>1 DEF Committed
<1>3. mode = "up"
  BY <1>0 DEF TailInv, IInv, TypeInv
<1>4. j.tailSeq \in Nat /\ NoSb.seq = 0
  BY TailTypes DEF NoSb
<1>5. sb'.seq <= j'.tailSeq /\ sbio'.seq <= j'.tailSeq
  <2>1. sbio.seq <= j.tailSeq
    BY <1>3 DEF TailInv
  <2> QED
    BY <1>0, <1>1, <1>4, <2>1
<1> QED
  BY <1>0, <1>1, <1>2, <1>3, <1>5 DEF TailInv

LEMMA RestartTail ==
  ASSUME IInv, TailInv, Crash \/ journal_load
  PROVE  TailInv'
<1>1. CASE Crash
  BY <1>1 DEF Crash, TailInv
<1>2. CASE journal_load
  <2> DEFINE e == Recovery.end
  <2>1. /\ mode = "down" /\ mode' = "up" /\ sbio' = sbio
        /\ j' = [Reset(e + 1) EXCEPT !.flushed = sb.start = 0]
        /\ sb' = IF sb.start = 0 THEN sb ELSE [start |-> 1, seq |-> e + 1]
        /\ buf' = [b \in Block |-> Clean(Recovery.home[b])]
    BY <1>2 DEF journal_load
  <2>2. sbio' = NoSb /\ NoSb.seq = 0
    BY <2>1 DEF TailInv, NoSb
  <2>3. e \in Nat /\ sb.seq \in Nat
    BY RecoveryEnd DEF IInv, TypeInv
  <2>4. sb.start = 0 => e = sb.seq
    BY DEF Recovery
  <2> HIDE DEF e
  <2>5. /\ j'.tailSeq = e + 1 /\ j'.nextTid = e + 1 /\ j'.running = 0 /\ j'.committing = 0
    BY <2>1 DEF Reset
  <2>6. sb'.seq <= e + 1
    BY <2>1, <2>3, <2>4
  <2>7. \A b \in Block : buf'[b].cp = 0
    BY <2>1, CleanSafe
  <2>8. 0 <= e + 1 /\ e + 1 <= e + 1
    BY <2>3
  <2> QED
    BY <2>1, <2>2, <2>5, <2>6, <2>7, <2>8 DEF TailInv
<1> QED
  BY <1>1, <1>2

LEMMA InitTail ==
  ASSUME Init
  PROVE  TailInv
<1>1. /\ sb = [start |-> Head0, seq |-> 1] /\ sbio = NoSb /\ buf = [b \in Block |-> Clean(0)]
      /\ j = [Reset(1) EXCEPT !.head = Head0, !.tail = Head0, !.flushed = FALSE] /\ mode = "up"
  BY DEF Init
<1>2. \A b \in Block : buf[b].cp = 0
  BY <1>1, CleanSafe
<1>3. j.tailSeq = 1 /\ j.nextTid = 1 /\ j.running = 0 /\ j.committing = 0 /\ sb.seq = 1 /\ sbio.seq = 0
  BY <1>1 DEF Reset, NoSb
<1> QED
  BY <1>1, <1>2, <1>3 DEF TailInv

-----------------------------------------------------------------------------
(* The invariant and what it is for *)

LEMMA CheckpointNext ==
  ASSUME IInv, IInv', CheckpointInv, [Next]_vars
  PROVE  CheckpointInv'
<1> SUFFICES ASSUME Undisturbed
             PROVE  HomeInv' /\ IoInv' /\ TailInv'
  BY DEF CheckpointInv, Undisturbed
<1>0. HomeInv /\ IoInv /\ TailInv
  BY DEF CheckpointInv
<1>1. CASE Commit
  <2>1. TailInv'
    BY <1>0, <1>1, CommitTail, TailSteady
  <2>2. CASE CommitLock \/ CommitRecordDone \/ CommitFinish
    BY <1>0, <2>1, <2>2, QuietHome DEF Quiet
  <2>3. CASE CommitFlush \/ CommitData \/ CommitWait
    BY <1>0, <2>1, <2>3, CommitFlushHome, CommitDataHome, CommitWaitHome
  <2>4. CASE \E b \in Block : WriteBuffer(b) \/ ShadowBuffer(b) \/ ForgetBuffer(b)
    BY <1>0, <2>1, <2>4, WriteBufferHome, ShadowBufferHome, ForgetBufferHome
  <2> QED
    BY <1>1, <2>2, <2>3, <2>4 DEF Commit
<1>2. CASE cleanup_journal_tail \/ SuperblockDone
  BY <1>0, <1>2, QuietHome, CleanupTail, SuperblockTail DEF Quiet
<1>3. CASE __flush_batch \/ journal_flush \/ RecoveryCrash \/ UNCHANGED vars
  <2>1. TailInv'
    BY <1>0, <1>3, OtherTail, TailSteady
  <2>2. CASE UNCHANGED vars
    <3>1. UNCHANGED <<mode, home, dq, buf, use, access, batch, iolist>>
      BY <2>2 DEF vars, disk, machine, fs
    <3> QED
      BY <1>0, <2>1, <3>1, NoBlock
  <2> QED
    BY <1>0, <1>3, <2>1, <2>2, FlushBatchHome, QuietHome, RecoveryCrashHome DEF Quiet
<1>4. CASE Crash \/ journal_load
  BY <1>0, <1>4, CrashHome, LoadHome, RestartTail
<1>5. ASSUME NEW b \in Block,
             \/ journal_get_write_access(b) \/ FileReserved(b) \/ journal_get_create_access(b)
             \/ journal_dirty_metadata(b) \/ journal_release_buffer(b) \/ journal_revoke(b) \/ ReuseAsData(b)
      PROVE  HomeInv' /\ IoInv' /\ TailInv'
  <2>1. TailInv'
    BY <1>0, <1>5, HandleTail, TailSteady
  <2> QED
    BY <1>0, <1>5, <2>1, GetWriteHome, FileReservedHome, GetCreateHome, DirtyHome, ReleaseHome,
       RevokeHome, ReuseAsDataHome
<1>6. ASSUME NEW b \in Block,
             Writeback(b) \/ WriteDone(b) \/ WriteData(b) \/ __process_buffer(b) \/ __wait_cp_io(b)
      PROVE  HomeInv' /\ IoInv' /\ TailInv'
  <2>1. TailInv'
    BY <1>0, <1>6, WritingTail, TailSteady
  <2> QED
    BY <1>0, <1>6, <2>1, WritebackHome, WriteDoneHome, WriteDataHome, ProcessBufferHome, WaitHome
<1> QED
  BY <1>1, <1>2, <1>3, <1>4, <1>5, <1>6 DEF Next

\* CheckpointInv holds in every state: without the three defects that concern
\* checkpoints, a buffer with committed contents to write is on a checkpoint
\* list, a metadata block with nothing to write is home, and the tail of the
\* log is not ahead of what is still listed.
THEOREM CheckpointInvariance == Spec => []CheckpointInv
<1>1. Init => CheckpointInv
  BY InitHome, InitTail DEF CheckpointInv
<1>2. IInv /\ IInv' /\ CheckpointInv /\ [Next]_vars => CheckpointInv'
  BY CheckpointNext
<1> QED
  BY <1>1, <1>2, Invariance, PTL DEF Spec

\* Checkpointing loses nothing: __process_buffer(), __wait_cp_io() and the
\* commit take a metadata block off its checkpoint list only when its contents
\* are home, and cleanup_journal_tail() moves the superblock on the disk past
\* no transaction that still has a block listed.
THEOREM JbdCheckpointed == Spec => [](Undisturbed => Checkpointed)
<1>1. ASSUME IInv, CheckpointInv, Undisturbed PROVE Checkpointed
  <2> SUFFICES ASSUME mode = "up", NEW b \in Block
               PROVE  /\ buf[b].cp # 0 => sb.seq <= buf[b].cp
                      /\ use[b] >= 0 /\ buf[b].tr = 0 /\ buf[b].cp = 0 => home[b] = buf[b].data
    BY DEF Checkpointed
  <2>0. HomeInv /\ TailInv
    BY <1>1 DEF CheckpointInv
  <2>1. buf[b].cp # 0 => sb.seq <= buf[b].cp
    <3>1. sb.seq \in Nat /\ j.tailSeq \in Nat /\ buf[b].cp \in Nat
      BY <1>1, TailTypes
    <3>2. sb.seq <= j.tailSeq /\ (buf[b].cp # 0 => j.tailSeq <= buf[b].cp)
      BY <2>0 DEF TailInv
    <3> QED
      BY <3>1, <3>2
  <2>2. ASSUME use[b] >= 0, buf[b].tr = 0, buf[b].cp = 0
        PROVE  home[b] = buf[b].data
    <3>1. Listed(buf[b], use[b]) /\ AtHome(buf[b], home[b], use[b])
      BY <2>0 DEF HomeInv
    <3>2. ~buf[b].d /\ ~buf[b].lk
      BY <2>2, <3>1 DEF Listed
    <3>3. use[b] # FRESH
      BY <2>2, <3>1 DEF Listed
    <3> QED
      BY <2>2, <3>1, <3>2, <3>3 DEF AtHome
  <2> QED
    BY <2>1, <2>2
<1>2. IInv /\ CheckpointInv => (Undisturbed => Checkpointed)
  BY <1>1
<1> QED
  BY <1>2, Invariance, CheckpointInvariance, PTL
=============================================================================
