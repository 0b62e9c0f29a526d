-------------------------------- MODULE Jbd --------------------------------
(***************************************************************************)
(* The journalling layer of fs/jbd: handles modify and free metadata       *)
(* blocks in the running transaction while kjournald writes the previous   *)
(* one to a circular log, checkpoints write committed blocks home and free *)
(* log space, and after a crash recovery replays the log.                  *)
(*                                                                         *)
(* The machine may stop at any moment.  A write that has been submitted    *)
(* and not been waited for may or may not have reached the disk by then;   *)
(* one that has been waited for is on it (the drive's cache is flushed).   *)
(*                                                                         *)
(* What a block holds is abstracted to the transaction that wrote it.  A   *)
(* handle updates one block.  The lists' own locks make the steps atomic.  *)
(***************************************************************************)
EXTENDS Integers, Sequences, FiniteSets, FiniteSetsExt, Functions, TLC

CONSTANTS
  Block,           \* blocks of the file system, metadata at first
  LogSize,         \* the log is the blocks 1..LogSize: j_first..j_last - 1
  MaxTransaction,  \* j_max_transaction_buffers
  Head0,           \* where the log stands at first
  Reserved,        \* MIN_LOG_RESERVED_BLOCKS
  TagsPerBlock,    \* tags that fit into a descriptor block
  RevokesPerBlock, \* records that fit into a revoke block
  Magic,           \* transactions whose blocks start with JFS_MAGIC_NUMBER
  Races,           \* the defects of the code that a run lets happen; the others are kept
                   \* out by a guard: see KnownRaces and the README
  MaxRevoke,       \* bound: revocations of one transaction; the code has none
  MaxTid, MaxCrash \* bounds: transaction numbers and crashes

KnownRaces == {"batch", "forget", "tail", "writeout", "copyout"}

ASSUME JbdAssumption ==
  /\ IsFiniteSet(Block) /\ LogSize \in Nat \ {0} /\ Head0 \in 1..LogSize
  /\ MaxTransaction \in Nat \ {0} /\ Reserved \in Nat /\ TagsPerBlock \in Nat \ {0} /\ Magic \subseteq Nat
  /\ RevokesPerBlock \in Nat \ {0} /\ MaxRevoke \in Nat
  /\ Races \subseteq KnownRaces /\ MaxTid \in Nat /\ MaxCrash \in Nat

VARIABLES
  home, log, sb,    \* the disk: the blocks, the log, s_start and s_sequence
  logio, sbio,      \* submitted writes of log blocks; of the superblock
  buf,              \* the buffer and journal_head of each block
  j,                \* journal_t
  access,           \* blocks with an open handle: t_updates
  revoke, crevoke,  \* the revoke tables of the running and the committing transaction
  start,            \* t_log_start
  stage, desc,      \* where journal_commit_transaction() is; its open descriptor
  copying, pages,   \* the buffer that journal_write_metadata_buffer() is at; the log
                    \* blocks that are being written from a buffer's own page
  batch, iolist,    \* log_do_checkpoint(): bhs[]; t_checkpoint_io_list
  mode, crashes,    \* "up" or "down"
  use, freedBy, dq, \* the file system: what a block is, who freed it, unwritten data
  snap, stable      \* history: the state each transaction leaves; the last one finished

disk == <<home, log, sb>>
commit == <<stage, desc, copying, pages, logio, crevoke, start>>
fs == <<use, freedBy, dq>>
machine == <<mode, crashes>>
vars == <<disk, sbio, buf, j, access, revoke, commit, batch, iolist, machine, fs, snap, stable>>

\* What a block can be, beside metadata written by a transaction; one that a
\* handle has just allocated.
FRESH == 1
DATA == -1
FREE == -2
None == -3

Pos == 1..LogSize
NoSb == [start |-> 0, seq |-> 0]
Clean(c) == [data |-> c, tr |-> 0, nxt |-> 0, jl |-> "None", jd |-> FALSE, d |-> FALSE,
             fz |-> None, cp |-> 0, lk |-> FALSE]
Header(type, seq) == [type |-> type, seq |-> seq, tags |-> <<>>, revs |-> {}, data |-> None]
Blank == Header("none", 0)

\* journal_reset() with the given transaction sequence.
Reset(seq) == [head |-> 1, free |-> LogSize, tail |-> 1, tailSeq |-> seq, nextTid |-> seq,
               running |-> 0, committing |-> 0, flushed |-> TRUE]

\* A mounted file system whose log has been in use and is empty now.
Init ==
  /\ home = [b \in Block |-> 0] /\ log = [p \in Pos |-> Blank] /\ sb = [start |-> Head0, seq |-> 1]
  /\ logio = <<>> /\ sbio = NoSb
  /\ buf = [b \in Block |-> Clean(0)]
  /\ j = [Reset(1) EXCEPT !.head = Head0, !.tail = Head0, !.flushed = FALSE] /\ access = {} /\ revoke = {} /\ crevoke = {}
  /\ start = [t \in 0..MaxTid |-> 0] /\ stage = "idle" /\ desc = <<>>
  /\ copying = {} /\ pages = <<>> /\ batch = {} /\ iolist = {} /\ mode = "up" /\ crashes = 0
  /\ use = [b \in Block |-> 0] /\ freedBy = [b \in Block |-> 0] /\ dq = [b \in Block |-> 0]
  /\ snap = [t \in 0..MaxTid |-> [b \in Block |-> 0]] /\ stable = 0

-----------------------------------------------------------------------------
(* Buffers on the lists of transactions *)

\* __journal_file_buffer(): BH_Dirty becomes BH_JBDDirty.
File(x, t, list) == [x EXCEPT !.tr = t, !.jl = list, !.jd = @ \/ x.d, !.d = FALSE]

\* __journal_unfile_buffer(): and back.
Unfile(x) == [x EXCEPT !.tr = 0, !.jl = "None", !.d = @ \/ x.jd, !.jd = FALSE]

\* Mutation: the later transaction is forgotten.
RefileAlwaysUnfiles(x) == Unfile([x EXCEPT !.nxt = 0])

Refile(x) ==
  IF x.nxt = 0 THEN Unfile(x)
  ELSE [x EXCEPT !.tr = x.nxt, !.nxt = 0, !.jl = IF x.jd THEN "Metadata" ELSE "Reserved"]

On(t, list) == {b \in Block : buf[b].tr = t /\ buf[b].jl = list}

\* t_outstanding_credits: blocks that still need their place in the log.
Credits(t) == Cardinality(On(t, "Metadata") \ copying)

\* The free blocks, less those that control blocks might need.
__log_space_left ==
  LET left == j.free - Reserved IN IF left <= 0 THEN 0 ELSE left - (left \div 8)

\* Mutation: the buffers of the committing transaction are not counted.
SpaceNeededRunning == MaxTransaction

jbd_space_needed == MaxTransaction + IF j.committing = 0 THEN 0 ELSE Credits(j.committing)

-----------------------------------------------------------------------------
(* Handles *)

\* start_this_handle() gets through for an update of block b: the running
\* transaction, or a new one, takes it, and the log has the space.
Tid == IF j.running = 0 THEN j.nextTid ELSE j.running
StartHandle(b) ==
  /\ mode = "up" /\ stage # "locked" /\ Tid <= MaxTid
  /\ Cardinality({c \in Block : buf[c].nxt = Tid} \cup On(Tid, "Metadata") \cup access \cup {b})
       <= MaxTransaction
  /\ __log_space_left >= jbd_space_needed
  /\ j' = [j EXCEPT !.running = Tid, !.nextTid = IF j.running = 0 THEN @ + 1 ELSE @]

\* The committing transaction still needs what the block holds now.
Freeze(x) == [x EXCEPT !.nxt = Tid, !.fz = IF @ = None /\ x.jl # "Forget" THEN x.data ELSE @]

\* do_get_write_access() up to unlock_buffer(), and, for a buffer that some
\* transaction has, to its end: a buffer that is being written home is waited
\* for, and so is a shadow buffer without a copy.
journal_get_write_access(b) ==
  LET x == buf[b] IN
  /\ use[b] >= 0 /\ b \notin access /\ ~x.lk
  /\ StartHandle(b)
  /\ "batch" \in Races \/ b \notin batch
  /\ \/ /\ Tid \in {x.tr, x.nxt} /\ UNCHANGED buf
        /\ revoke' = revoke \ {b}
     \/ x.tr = 0 /\ UNCHANGED <<buf, revoke>>
     \/ /\ x.tr # 0 /\ Tid \notin {x.tr, x.nxt} /\ (x.jl # "Shadow" \/ x.fz # None)
        /\ "copyout" \in Races \/ b \notin copying
        /\ buf' = [buf EXCEPT ![b] = Freeze(x)] /\ revoke' = revoke \ {b}
  /\ access' = access \cup {b}
  /\ UNCHANGED <<disk, sbio, commit, batch, iolist, machine, fs, snap, stable>>

\* Buffers on which do_get_write_access() has dropped the buffer lock and not
\* yet taken the dirty bit away; it holds their jbd_lock_bh_state().
Opening == {b \in access : buf[b].tr = 0}

\* The rest of do_get_write_access(): the buffer is filed.
FileReserved(b) ==
  /\ b \in Opening
  /\ buf' = [buf EXCEPT ![b] = File(@, j.running, "Reserved")] /\ revoke' = revoke \ {b}
  /\ UNCHANGED <<disk, sbio, j, access, commit, batch, iolist, machine, fs, snap, stable>>

\* The file system may use a freed block again once the transaction that
\* freed it is past its commit record (the bitmap's b_committed_data).
MayReuse(b) ==
  use[b] = FREE /\ (freedBy[b] <= stable \/ (freedBy[b] = j.committing /\ stage = "forget"))

\* A freed block becomes metadata again.
journal_get_create_access(b) ==
  LET x == buf[b] IN
  /\ MayReuse(b) /\ ~x.lk
  /\ StartHandle(b)
  /\ "batch" \in Races \/ b \notin batch
  /\ buf' = [buf EXCEPT ![b] = IF x.tr = 0 THEN File(x, Tid, "Reserved") ELSE [x EXCEPT !.nxt = Tid]]
  /\ use' = [use EXCEPT ![b] = FRESH]
  /\ access' = access \cup {b} /\ revoke' = revoke \ {b}
  /\ UNCHANGED <<disk, sbio, commit, batch, iolist, machine, freedBy, dq, snap, stable>>

\* Where the log is being written from the page of block b.
InLog(b) == {p \in DOMAIN pages : pages[p] = b}

\* The block is modified; journal_dirty_metadata(), journal_stop().  If its
\* page is being written to the log, the write may take the change up.
journal_dirty_metadata(b) ==
  LET x == [buf[b] EXCEPT !.data = j.running, !.jd = TRUE] IN
  /\ b \in access \ Opening
  /\ buf' = [buf EXCEPT ![b] = IF x.tr = j.running THEN File(x, j.running, "Metadata") ELSE x]
  /\ logio' \in {logio} \cup {[logio EXCEPT ![p].data = j.running] : p \in InLog(b)}
  /\ access' = access \ {b} /\ use' = [use EXCEPT ![b] = 0]
  /\ UNCHANGED <<disk, sbio, j, revoke, stage, desc, copying, pages, crevoke, start, batch, iolist,
                 machine, freedBy, dq, snap, stable>>

\* The handle is closed and has not modified the block.
journal_release_buffer(b) ==
  /\ b \in access \ Opening /\ use[b] # FRESH
  /\ access' = access \ {b}
  /\ UNCHANGED <<disk, sbio, buf, j, revoke, commit, batch, iolist, machine, fs, snap, stable>>

\* journal_forget() of a block of the running transaction.
Forget(x) ==
  LET y == [x EXCEPT !.d = FALSE, !.jd = FALSE]
  IN  IF x.cp # 0 THEN File(y, y.tr, "Forget") ELSE Unfile(y)

\* The file system frees metadata block b: journal_revoke().
journal_revoke(b) ==
  LET x == buf[b] IN
  /\ use[b] >= 0 /\ b \notin access /\ Cardinality(revoke \cup {b}) <= MaxRevoke
  /\ StartHandle(b)
  /\ \/ x.tr = Tid /\ buf' = [buf EXCEPT ![b] = Forget(x)]
     \/ /\ x.tr # Tid /\ ("forget" \in Races \/ x.nxt = 0)
        /\ buf' = [buf EXCEPT ![b].nxt = 0]
  /\ revoke' = revoke \cup {b}
  /\ use' = [use EXCEPT ![b] = FREE] /\ freedBy' = [freedBy EXCEPT ![b] = Tid]
  /\ UNCHANGED <<disk, sbio, access, commit, batch, iolist, machine, dq, snap, stable>>

\* A freed block becomes data: unmap_underlying_metadata() cleans the old
\* buffer, the page is dirtied and its buffer filed for the commit to write.
ReuseAsData(b) ==
  /\ MayReuse(b) /\ ~buf[b].lk
  /\ StartHandle(b)
  /\ buf' = [buf EXCEPT ![b].d = FALSE]
  /\ use' = [use EXCEPT ![b] = DATA] /\ dq' = [dq EXCEPT ![b] = Tid]
  /\ UNCHANGED <<disk, sbio, access, revoke, commit, batch, iolist, machine, freedBy, snap, stable>>

-----------------------------------------------------------------------------
(* journal_commit_transaction() *)

SbNow == [start |-> j.tail, seq |-> j.tailSeq]

\* Erase the effects of journal_flush(): the log is in use again.
UpdateFlushed == sb' = IF j.flushed THEN SbNow ELSE sb

\* T_LOCKED: no more handles.
CommitLock ==
  /\ mode = "up" /\ stage = "idle" /\ j.running # 0
  /\ UpdateFlushed /\ j' = [j EXCEPT !.flushed = FALSE]
  /\ stage' = "locked"
  /\ UNCHANGED <<home, log, sbio, buf, access, revoke, desc, copying, pages, logio, crevoke, start,
                 batch, iolist, machine, fs, snap, stable>>

\* Once the handles are closed: reserved buffers leave, clean ones may leave
\* their checkpoint list, the revoke tables are switched; T_FLUSH.
CommitFlush ==
  LET T == j.running
      Release(b) == IF b \in On(T, "Reserved") THEN Refile(buf[b]) ELSE buf[b]
      Idle == {b \in Block : buf[b].cp # 0 /\ Release(b).jl = "None" /\ ~Release(b).d /\ ~Release(b).lk}
  IN
  /\ stage = "locked" /\ access = {}
  /\ \E S \in SUBSET Idle :
       /\ buf' = [b \in Block |-> IF b \in S THEN [Release(b) EXCEPT !.cp = 0] ELSE Release(b)]
       /\ iolist' = iolist \ S
  /\ crevoke' = revoke /\ revoke' = {}
  /\ j' = [j EXCEPT !.committing = T, !.running = 0]
  /\ start' = [start EXCEPT ![T] = j.head]
  /\ stage' = "data"
  /\ snap' = [snap EXCEPT ![T] = [b \in Block |-> IF use[b] < 0 THEN use[b] ELSE buf[b].data]]
  /\ UNCHANGED <<disk, sbio, access, desc, copying, pages, logio, batch, machine, fs, stable>>

DataBlocks == {b \in Block : dq[b] = j.committing}

\* journal_next_log_block(), n times: the positions, and what is left.
Wrap(p) == ((p - 1) % LogSize) + 1
NextLogBlock(n) == j' = [j EXCEPT !.head = Wrap(@ + n), !.free = @ - n]
MayAllocate == "tail" \in Races \/ sbio = NoSb

\* The blocks that n revoke records fill, and which block each record goes to:
\* all but the last are full.
RevokeBlocks(n) == (n + RevokesPerBlock - 1) \div RevokesPerBlock
RevokeOrders ==
  LET K == RevokeBlocks(Cardinality(crevoke)) IN
  {f \in [crevoke -> 1..K] :
     \A k \in 1..K : LET n == Cardinality({b \in crevoke : f[b] = k})
                     IN  n <= RevokesPerBlock /\ (k < K => n = RevokesPerBlock)}

RevokeRecords(order) ==
  [p \in {Wrap(j.head + k - 1) : k \in 1..RevokeBlocks(Cardinality(crevoke))} |->
     [Header("revoke", j.committing) EXCEPT
        !.revs = {b \in crevoke : Wrap(j.head + order[b] - 1) = p}]]

\* The transaction's data goes to the disk first; then
\* journal_write_revoke_records() sends the revocations.
CommitData ==
  /\ stage = "data" /\ MayAllocate
  /\ home' = [b \in Block |-> IF b \in DataBlocks THEN DATA ELSE home[b]]
  /\ dq' = [b \in Block |-> IF b \in DataBlocks THEN 0 ELSE dq[b]]
  /\ \E order \in RevokeOrders : logio' = RevokeRecords(order)
  /\ NextLogBlock(RevokeBlocks(Cardinality(crevoke)))
  /\ crevoke' = {}
  /\ stage' = "write"
  /\ UNCHANGED <<log, sb, sbio, buf, access, revoke, desc, copying, pages, start, batch, iolist,
                 machine, use, freedBy, snap, stable>>

\* What the log block is written from: the frozen copy, which a block that
\* must be escaped gets now, or (None) the page of the buffer itself.
CopyOut(x) == IF x.fz = None /\ x.data \in Magic THEN x.data ELSE x.fz

\* One turn of the loop over t_buffers, up to jbd_unlock_bh_state() in
\* journal_write_metadata_buffer(): the log blocks, and where to copy from.
Unwritten == On(j.committing, "Metadata") \ copying
WriteBuffer(b) ==
  LET n == IF desc = <<>> THEN 2 ELSE 1 IN
  /\ stage = "write" /\ copying = {} /\ b \in Unwritten /\ MayAllocate
  /\ NextLogBlock(n)
  /\ desc' = Append(desc, [blk |-> b, pos |-> Wrap(j.head + n - 1), copy |-> CopyOut(buf[b])])
  /\ buf' = [buf EXCEPT ![b].fz = CopyOut(buf[b])]
  /\ copying' = {b}
  /\ UNCHANGED <<disk, sbio, access, revoke, stage, pages, logio, crevoke, start, batch, iolist,
                 machine, fs, snap, stable>>

\* The rest of it: the buffer is filed, and the I/O sent if the descriptor is
\* full or this was the last buffer.
TagAt(p) == desc[CHOOSE i \in DOMAIN desc : desc[i].pos = p]
Contents(tag) == IF tag.copy # None THEN tag.copy ELSE buf[tag.blk].data
Submitted == {desc[i].pos : i \in DOMAIN desc}
ShadowBuffer(b) ==
  /\ b \in copying
  /\ buf' = [buf EXCEPT ![b] = File(@, j.committing, "Shadow")] /\ copying' = {}
  /\ IF Len(desc) = TagsPerBlock \/ Unwritten = {}
       THEN /\ desc' = <<>>
            /\ logio' = logio
                 @@ [p \in Submitted |-> [Blank EXCEPT !.data = Contents(TagAt(p)), !.type = "data"]]
                 @@ Wrap(desc[1].pos + LogSize - 1) :>
                       [Header("desc", j.committing) EXCEPT !.tags = [i \in DOMAIN desc |-> desc[i].blk]]
            /\ pages' = pages @@ [p \in {q \in Submitted : TagAt(q).copy = None} |-> TagAt(p).blk]
       ELSE UNCHANGED <<desc, logio, pages>>
  /\ UNCHANGED <<disk, sbio, j, access, revoke, crevoke, start, stage, batch, iolist, machine, fs,
                 snap, stable>>

Written(io) == [p \in Pos |-> IF p \in DOMAIN io THEN io[p] ELSE log[p]]

\* Mutation: the commit record is sent with the rest.
AfterWaitNothing(record) == logio' = logio @@ record /\ UNCHANGED log

AfterWait(record) == log' = Written(logio) /\ logio' = record

\* Wait for the metadata and the control blocks, release the shadow buffers,
\* and only then journal_write_commit_record().
CommitWait ==
  /\ stage = "write" /\ On(j.committing, "Metadata") = {} /\ MayAllocate
  /\ AfterWait(j.head :> Header("commit", j.committing)) /\ NextLogBlock(1)
  /\ buf' = [b \in Block |-> IF b \in On(j.committing, "Shadow")
                               THEN File(buf[b], j.committing, "Forget") ELSE buf[b]]
  /\ stage' = "record" /\ pages' = <<>>
  /\ UNCHANGED <<home, sb, sbio, access, revoke, crevoke, desc, copying, start, batch, iolist, machine,
                 fs, snap, stable>>

CommitRecordDone ==
  /\ stage = "record"
  /\ log' = Written(logio) /\ logio' = <<>>
  /\ stage' = "forget"
  /\ UNCHANGED <<home, sb, sbio, buf, j, access, revoke, crevoke, desc, copying, pages, start, batch,
                 iolist, machine, fs, snap, stable>>

\* The checkpoint list that the buffer goes to: the old one is left, since the
\* block is in the log again, or its revocation is.
CheckpointedBy(x) == IF x.jd THEN j.committing ELSE 0

\* One turn of the loop over t_forget.
ForgetBuffer(b) ==
  LET x == buf[b] IN
  /\ stage = "forget" /\ b \in On(j.committing, "Forget")
  /\ buf' = [buf EXCEPT ![b] = Refile([x EXCEPT !.fz = None, !.cp = CheckpointedBy(x)])]
  /\ iolist' = iolist \ {b}
  /\ UNCHANGED <<disk, sbio, j, access, revoke, commit, batch, machine, fs, snap, stable>>

\* T_FINISHED: log_wait_commit() returns.
CommitFinish ==
  /\ stage = "forget" /\ On(j.committing, "Forget") = {}
  /\ stable' = j.committing
  /\ j' = [j EXCEPT !.committing = 0] /\ stage' = "idle"
  /\ UNCHANGED <<disk, sbio, buf, access, revoke, desc, copying, pages, logio, crevoke, start, batch,
                 iolist, machine, fs, snap>>

-----------------------------------------------------------------------------
(* Writing home and checkpointing *)

\* j_checkpoint_transactions: finished transactions with buffers on their list.
Checkpoints == {buf[b].cp : b \in Block} \ {0, j.committing}

\* The flusher threads, or a full batch, submit a dirty buffer ...
Submit(x) == IF x.d THEN [x EXCEPT !.d = FALSE, !.lk = TRUE] ELSE x

Writeback(b) ==
  /\ buf[b].d /\ ~buf[b].lk /\ ("writeout" \in Races \/ b \notin Opening)
  /\ buf' = [buf EXCEPT ![b] = Submit(@)]
  /\ UNCHANGED <<disk, sbio, j, access, revoke, commit, batch, iolist, machine, fs, snap, stable>>

\* ... and the write completes.
WriteDone(b) ==
  /\ buf[b].lk
  /\ home' = [home EXCEPT ![b] = buf[b].data]
  /\ buf' = [buf EXCEPT ![b].lk = FALSE]
  /\ UNCHANGED <<log, sb, sbio, j, access, revoke, commit, batch, iolist, machine, fs, snap, stable>>

WriteData(b) ==
  /\ dq[b] # 0
  /\ home' = [home EXCEPT ![b] = DATA] /\ dq' = [dq EXCEPT ![b] = 0]
  /\ UNCHANGED <<log, sb, sbio, buf, j, access, revoke, commit, batch, iolist, machine, use, freedBy,
                 snap, stable>>

\* Mutation: a buffer that no transaction has counts as clean.
IsCleanUnfiled(x) == x.tr = 0

IsClean(x) == ~x.d /\ x.tr = 0

\* __process_buffer() for a buffer of the oldest transaction: one that is in
\* a transaction is left until that has committed.
__process_buffer(b) ==
  LET x == buf[b] IN
  /\ Checkpoints # {} /\ x.cp = Min(Checkpoints) /\ b \notin iolist \cup Opening /\ ~x.lk
  /\ \/ IsClean(x) /\ buf' = [buf EXCEPT ![b].cp = 0] /\ UNCHANGED <<batch, iolist>>
     \/ /\ x.d /\ x.tr = 0
        /\ batch' = batch \cup {b} /\ iolist' = iolist \cup {b} /\ UNCHANGED buf
  /\ UNCHANGED <<disk, sbio, j, access, revoke, commit, machine, fs, snap, stable>>

\* ll_rw_block(SWRITE): what is still dirty is submitted.
__flush_batch ==
  /\ batch # {} /\ \A b \in batch : ~buf[b].lk
  /\ "writeout" \in Races \/ batch \cap Opening = {}
  /\ buf' = [b \in Block |-> IF b \in batch THEN Submit(buf[b]) ELSE buf[b]] /\ batch' = {}
  /\ UNCHANGED <<disk, sbio, j, access, revoke, commit, iolist, machine, fs, snap, stable>>

\* __wait_cp_io(): whatever state the buffer is in, it leaves the list.
__wait_cp_io(b) ==
  /\ b \in iolist \ Opening /\ batch = {} /\ ~buf[b].lk
  /\ \A c \in Block : buf[c].cp = buf[b].cp => c \in iolist
  /\ buf' = [buf EXCEPT ![b].cp = 0] /\ iolist' = iolist \ {b}
  /\ UNCHANGED <<disk, sbio, j, access, revoke, commit, batch, machine, fs, snap, stable>>

\* The oldest transaction that the log must keep.
OldestTid == IF Checkpoints # {} THEN Min(Checkpoints)
             ELSE IF j.committing # 0 THEN j.committing ELSE Tid
OldestBlock == IF Checkpoints # {} \/ j.committing # 0 THEN start[OldestTid] ELSE j.head

\* cleanup_journal_tail(): free the space; write the superblock.
cleanup_journal_tail ==
  /\ mode = "up" /\ sbio = NoSb /\ j.tailSeq # OldestTid
  /\ j' = [j EXCEPT !.free = @ + ((OldestBlock - j.tail) % LogSize),
                    !.tailSeq = OldestTid, !.tail = OldestBlock]
  /\ sbio' = IF sb.start = 0 /\ OldestTid = j.nextTid THEN NoSb
             ELSE [start |-> OldestBlock, seq |-> OldestTid]
  /\ UNCHANGED <<disk, buf, access, revoke, commit, batch, iolist, machine, fs, snap, stable>>

SuperblockDone ==
  /\ sbio # NoSb
  /\ sb' = sbio /\ sbio' = NoSb
  /\ j' = [j EXCEPT !.flushed = FALSE]
  /\ UNCHANGED <<home, log, buf, access, revoke, commit, batch, iolist, machine, fs, snap, stable>>

\* journal_flush(), its last part: everything is home, the log is empty.
journal_flush ==
  /\ mode = "up" /\ sbio = NoSb /\ ~j.flushed
  /\ j.running = 0 /\ j.committing = 0 /\ Checkpoints = {} /\ j.tailSeq = j.nextTid
  /\ sb' = [start |-> 0, seq |-> j.tailSeq] /\ j' = [j EXCEPT !.flushed = TRUE]
  /\ UNCHANGED <<home, log, sbio, buf, access, revoke, commit, batch, iolist, machine, fs, snap, stable>>

-----------------------------------------------------------------------------
(* Crash and recovery *)

\* journal_test_revoke(): freed by that transaction or a later one.
IsRevoked(revs, b, t) == \E r \in revs : r[1] = b /\ r[2] >= t

\* The escape is undone in the wrong buffer: the first word stays 0.
Replayed(data) == IF data \in Magic THEN -10 - data ELSE data

Belongs(blk, seq) == blk.seq = seq

\* do_one_pass() over the log: the expected transaction, the tags of the
\* descriptor being worked off, the blocks and the revocations found.
ScanStep(w) ==
  LET blk == log[w.pos] IN
  IF w.tags # <<>>
    THEN [w EXCEPT !.pos = Wrap(@ + 1), !.tags = Tail(@),
                   !.found = Append(@, [blk |-> Head(w.tags), tid |-> w.seq,
                                        data |-> Replayed(blk.data)])]
  ELSE IF w.end \/ ~Belongs(blk, w.seq) THEN [w EXCEPT !.end = TRUE]
  ELSE [w EXCEPT !.pos = Wrap(@ + 1),
                 !.seq = IF blk.type = "commit" THEN @ + 1 ELSE @,
                 !.tags = blk.tags,
                 !.revs = @ \cup (blk.revs \X {w.seq})]

ScanLog ==
  LET scan[n \in 0..LogSize] ==
        IF n = 0 THEN [pos |-> sb.start, seq |-> sb.seq, tags |-> <<>>, found |-> <<>>, revs |-> {},
                       end |-> sb.start = 0]
                 ELSE ScanStep(scan[n - 1])
  IN scan[LogSize]

\* journal_recover(): end_transaction, the copies written to each block on the
\* way, and the last one.
Recovery ==
  LET w == IF sb.start = 0 THEN [seq |-> sb.seq, found |-> <<>>, revs |-> {}] ELSE ScanLog
      revs == {r \in w.revs : r[2] < w.seq}
      Replay(b) == {i \in DOMAIN w.found : /\ w.found[i].blk = b /\ w.found[i].tid < w.seq
                                           /\ ~IsRevoked(revs, b, w.found[i].tid)}
  IN [end |-> w.seq,
      copies |-> [b \in Block |-> {w.found[i].data : i \in Replay(b)}],
      home |-> [b \in Block |-> IF Replay(b) = {} THEN home[b] ELSE w.found[Max(Replay(b))].data]]

Crash ==
  /\ mode = "up" /\ crashes < MaxCrash
  /\ crashes' = crashes + 1 /\ mode' = "down"
  /\ \E L \in SUBSET DOMAIN logio, B \in SUBSET {b \in Block : buf[b].lk} :
       /\ log' = IF L = {} THEN log ELSE Written(Restrict(logio, L))
       /\ home' = [b \in Block |-> IF b \in B THEN buf[b].data ELSE home[b]]
  /\ sb' = sb \/ (sbio # NoSb /\ sb' = sbio)
  /\ logio' = <<>> /\ sbio' = NoSb /\ buf' = [b \in Block |-> Clean(0)] /\ j' = Reset(0)
  /\ access' = {} /\ revoke' = {} /\ crevoke' = {} /\ stage' = "idle" /\ desc' = <<>>
  /\ copying' = {} /\ pages' = <<>> /\ start' = [t \in 0..MaxTid |-> 0] /\ batch' = {} /\ iolist' = {}
  /\ use' = [b \in Block |-> 0] /\ freedBy' = use' /\ dq' = use'
  /\ UNCHANGED <<snap, stable>>

\* The machine stops during recovery: some blocks have been written, with the
\* last copy or an earlier one.
RecoveryCrash ==
  /\ mode = "down" /\ crashes < MaxCrash
  /\ crashes' = crashes + 1
  /\ LET r == Recovery
         copies == UNION {r.copies[b] : b \in Block}
     IN  \E h \in [Block -> copies \cup {None}] :
           /\ \A b \in Block : h[b] \in r.copies[b] \cup {None}
           /\ home' = [b \in Block |-> IF h[b] = None THEN home[b] ELSE h[b]]
  /\ UNCHANGED <<log, sb, sbio, buf, j, access, revoke, commit, batch, iolist, mode, fs, snap, stable>>

\* journal_load(): replay, wait for it, journal_reset().  The last crash that
\* MaxCrash allows ends the run.
journal_load ==
  LET r == Recovery  s == snap[r.end - 1] IN
  /\ mode = "down" /\ r.end < MaxTid /\ crashes < MaxCrash
  /\ mode' = "up" /\ home' = r.home
  /\ j' = [Reset(r.end + 1) EXCEPT !.flushed = sb.start = 0]
  /\ sb' = IF sb.start = 0 THEN sb ELSE [start |-> 1, seq |-> r.end + 1]
  /\ buf' = [b \in Block |-> Clean(r.home[b])]
  /\ use' = [b \in Block |-> IF s[b] < 0 THEN s[b] ELSE 0]
  /\ snap' = [snap EXCEPT ![r.end] = s] /\ stable' = r.end - 1
  /\ UNCHANGED <<log, sbio, access, revoke, commit, batch, iolist, crashes, freedBy, dq>>

-----------------------------------------------------------------------------
Commit ==
  \/ CommitLock \/ CommitFlush \/ CommitData \/ CommitWait \/ CommitRecordDone \/ CommitFinish
  \/ \E b \in Block : WriteBuffer(b) \/ ShadowBuffer(b) \/ ForgetBuffer(b)

Next ==
  \/ Commit \/ __flush_batch \/ cleanup_journal_tail \/ SuperblockDone \/ journal_flush
  \/ Crash \/ RecoveryCrash \/ journal_load
  \/ \E b \in Block :
       \/ journal_get_write_access(b) \/ FileReserved(b) \/ journal_get_create_access(b)
       \/ journal_dirty_metadata(b) \/ journal_release_buffer(b)
       \/ journal_revoke(b) \/ ReuseAsData(b)
       \/ Writeback(b) \/ WriteDone(b) \/ WriteData(b)
       \/ __process_buffer(b) \/ __wait_cp_io(b)

Spec == Init /\ [][Next]_vars

-----------------------------------------------------------------------------
(* Properties *)

\* Wherever the machine stops, recovery brings back exactly what some
\* transaction left behind, and no transaction that log_wait_commit() has
\* reported finished is missing: its blocks are replayed or were home before
\* the log forgot them, older copies of freed blocks overwrite nothing, and
\* data blocks hold data.
Durable ==
  mode = "down" =>
    LET r == Recovery  s == snap[r.end - 1]
    IN  /\ r.end > stable
        /\ \A b \in Block : s[b] = FREE \/ r.home[b] = s[b]

\* The write-ahead rule: a block, in use or freed, is open for writing home
\* only if what it holds has been committed.
WriteAhead == \A b \in Block : buf[b].d \/ buf[b].lk =>
                 buf[b].data <= IF stage = "forget" THEN j.committing ELSE stable

\* "The commit code assumes that it can get enough log space without forcing
\* a checkpoint": J_ASSERT(journal->j_free > 1) holds whenever it allocates.
LogSpace ==
  stage \in {"data", "write"} =>
    j.free > Credits(j.committing) + RevokeBlocks(Cardinality(crevoke))
               + (IF Credits(j.committing) > 0 /\ desc = <<>> THEN 1 ELSE 0) + 1

\* Checkpointing: a block leaves its checkpoint list only when its committed
\* contents are home, and as long as it is on one, the log that the superblock
\* on the disk names still has the transaction.
Checkpointed ==
  mode = "up" =>
    \A b \in Block :
      /\ buf[b].cp # 0 => sb.seq <= buf[b].cp
      /\ use[b] >= 0 /\ buf[b].tr = 0 /\ buf[b].cp = 0 => home[b] = buf[b].data

-----------------------------------------------------------------------------
(* The inductive invariant behind LogSpace and WriteAhead (JbdProofs)       *)

Lists == {"None", "Reserved", "Metadata", "Shadow", "Forget"}
Stages == {"idle", "locked", "data", "write", "record", "forget"}

\* A buffer, whatever its contents are.
IsBuffer(x) ==
  /\ x = [data |-> x.data, tr |-> x.tr, nxt |-> x.nxt, jl |-> x.jl, jd |-> x.jd, d |-> x.d,
          fz |-> x.fz, cp |-> x.cp, lk |-> x.lk]
  /\ x.tr \in 0..MaxTid /\ x.nxt \in 0..MaxTid /\ x.jl \in Lists /\ x.cp \in 0..MaxTid
  /\ x.jd \in BOOLEAN /\ x.d \in BOOLEAN /\ x.lk \in BOOLEAN

JournalType ==
  j \in [head : Int, free : Int, tail : Int, tailSeq : Nat, nextTid : Nat, running : 0..MaxTid,
         committing : 0..MaxTid, flushed : BOOLEAN]
BufferType == DOMAIN buf = Block /\ \A b \in Block : IsBuffer(buf[b])
TypeInv ==
  /\ JournalType /\ BufferType
  /\ sb \in [start : Int, seq : Nat] /\ sbio \in [start : Int, seq : Nat]
  /\ start \in [0..MaxTid -> Int] /\ stable \in Int
  /\ access \subseteq Block /\ revoke \subseteq Block /\ crevoke \subseteq Block /\ stage \in Stages /\ mode \in {"up", "down"}
  /\ \E S : desc \in Seq(S)
  /\ DOMAIN use = Block /\ freedBy \in [Block -> Nat]

\* What the running transaction may come to.
Claims == {b \in Block : buf[b].nxt = j.running} \cup On(j.running, "Metadata") \cup access

\* kjournald works on the committing transaction, handles on the running one,
\* which is younger, and both are younger than what has been finished.
ControlInv ==
  /\ j.committing # 0 <=> stage \in {"data", "write", "record", "forget"}
  /\ stage = "locked" => j.running # 0
  /\ j.running # 0 => j.running < j.nextTid /\ j.committing < j.running /\ stable < j.running
  /\ j.committing # 0 => j.committing < j.nextTid /\ stable < j.committing
  /\ mode = "up" => stable < j.nextTid /\ 0 < j.nextTid
  /\ mode = "down" => stage = "idle" /\ j.running = 0
  /\ access # {} => j.running # 0

\* At most one buffer is being copied out, and its tag is in the descriptor.
\* Otherwise an open descriptor has room, and a buffer to come will close it.
DescInv ==
  /\ copying # {} => /\ stage = "write" /\ desc # <<>> /\ Len(desc) <= TagsPerBlock
                     /\ \E b \in On(j.committing, "Metadata") : copying = {b}
  /\ copying = {} => /\ Len(desc) < TagsPerBlock
                     /\ desc # <<>> => stage = "write" /\ Unwritten # {}

\* The lists of the two transactions.
CommitLists == CASE stage = "data" -> {"Metadata", "Forget"}
                 [] stage = "write" -> {"Metadata", "Shadow", "Forget"}
                 [] OTHER -> {"Forget"}
Filed(x, running, committing, lists) ==
  /\ x.tr = 0 <=> x.jl = "None"
  /\ x.tr # 0 => x.tr \in {running, committing}
  /\ x.tr # 0 /\ x.tr = running => x.jl \in {"Reserved", "Metadata", "Forget"}
  /\ x.tr # 0 /\ x.tr = committing => x.jl \in lists
  /\ x.nxt # 0 => x.nxt = running /\ x.tr = committing /\ x.tr # 0

\* A handle's block is in the running transaction or about to be filed there, a
\* freed one at most in the transaction that freed it.
ListInv ==
  \A b \in Block : /\ Filed(buf[b], j.running, j.committing, CommitLists)
                   /\ b \in access => buf[b].tr = 0 \/ j.running \in {buf[b].tr, buf[b].nxt}
                   /\ use[b] = FREE => b \notin access /\ buf[b].nxt = 0 /\ buf[b].tr <= freedBy[b]

SizeInv ==
  /\ j.running # 0 => Cardinality(Claims) <= MaxTransaction
  /\ j.committing # 0 => Cardinality(Unwritten) <= MaxTransaction
  /\ Cardinality(revoke) <= MaxRevoke /\ Cardinality(crevoke) <= MaxRevoke

\* The commit needs a block for each buffer, for each of m descriptors (one
\* may have its block), for the revocations and for its record.
Writing == stage \in {"data", "write"}
Suffices(m) == Cardinality(Unwritten) + Len(desc) <= m * TagsPerBlock
Needs(m) == Cardinality(Unwritten) + (IF desc = <<>> THEN m ELSE m - 1)
              + RevokeBlocks(Cardinality(crevoke)) + 1

\* There is space for the committing transaction, and behind it for all that
\* the running one may become.
SpaceInv ==
  /\ Writing => \E m \in Nat : Suffices(m) /\ j.free > Needs(m)
  /\ j.running # 0 =>
       \E k, m \in Nat : /\ MaxTransaction <= k * TagsPerBlock
                         /\ Writing => Suffices(m)
                         /\ j.free > (IF Writing THEN Needs(m) ELSE 0) + MaxTransaction + k
                                      + RevokeBlocks(MaxRevoke) + 1

\* __log_space_left() holds an eighth and a fixed number of blocks back.  The
\* eighth is enough for the descriptors of two transactions if each has eight
\* tags (the code: more than a hundred); nothing but the fixed number, 32, pays
\* for their revoke blocks.
Ample == TagsPerBlock >= 8 /\ Reserved >= 5 + 2 * RevokeBlocks(MaxRevoke)

\* The last transaction whose commit record is on the disk.
Committed == IF stage = "forget" THEN j.committing ELSE stable

\* A buffer that a transaction has is not written home; what it holds comes
\* from that transaction, the one it goes on to, or an older one.
Ahead(x, committed) ==
  /\ x.tr # 0 => ~x.d /\ ~x.lk
  /\ x.tr = 0 => ~x.jd
  /\ x.jd \/ x.d \/ x.lk => x.data \in Int
  /\ x.d \/ x.lk => x.data <= committed
  /\ x.jd => x.data <= IF x.nxt # 0 THEN x.nxt ELSE x.tr
  /\ x.jd /\ x.jl = "Reserved" => x.data <= committed
AheadInv == \A b \in Block : Ahead(buf[b], Committed) /\ (b \in Opening => ~buf[b].lk)

\* Neither of the defects that concern the write-ahead rule happens.
Orderly == "forget" \notin Races /\ "writeout" \notin Races

IInv ==
  /\ TypeInv /\ ControlInv /\ DescInv /\ ListInv /\ SizeInv
  /\ Ample => SpaceInv
  /\ Orderly => AheadInv

-----------------------------------------------------------------------------
(* The inductive invariant behind Checkpointed (JbdCheckpointProofs)        *)

\* A buffer with something to write home is on a checkpoint list; one that the
\* commit has to log is modified, one that it only forgets has been freed, and
\* one of a block that is being allocated belongs to a transaction.
Listed(x, u) ==
  /\ x.d \/ x.lk \/ (x.jl = "Reserved" /\ x.jd) => x.cp # 0
  /\ x.jl \in {"Metadata", "Shadow"} => x.jd
  /\ x.jl = "Forget" /\ ~x.jd => ~(u >= 0) \/ u = FRESH
  /\ u = FRESH => x.tr # 0

\* A metadata block that is neither dirty, under way nor modified is home.
AtHome(x, h, u) ==
  u >= 0 /\ u # FRESH /\ ~x.d /\ ~x.lk /\ (x.tr = 0 \/ (x.jl = "Reserved" /\ ~x.jd)) => h = x.data

HomeInv ==
  /\ DOMAIN home = Block /\ DOMAIN dq = Block
  /\ \A b \in Block : /\ Listed(buf[b], use[b])
                      /\ mode = "up" => AtHome(buf[b], home[b], use[b])
                      /\ use[b] = FRESH => b \in access
                      /\ use[b] = DATA => b \notin access
                      /\ dq[b] # 0 => use[b] = DATA /\ mode = "up"

\* A batch is taken by no transaction; what log_do_checkpoint() has submitted
\* is not dirtied again before it leaves the list.
IoInv ==
  /\ batch \subseteq Block /\ iolist \subseteq Block
  /\ \A b \in Block :
       /\ b \in batch => buf[b].tr = 0 /\ b \notin access
       /\ b \in iolist \ batch => ~buf[b].d /\ ~(buf[b].jl = "Reserved" /\ buf[b].jd)

\* The log's tail, in memory, under way and on the disk, is not ahead of what
\* has still to be checkpointed, committed or started.
TailInv ==
  /\ mode = "down" => sbio = NoSb
  /\ mode = "up" =>
       /\ sb.seq <= j.tailSeq /\ sbio.seq <= j.tailSeq /\ j.tailSeq <= j.nextTid
       /\ j.running # 0 => j.tailSeq <= j.running
       /\ j.committing # 0 => j.tailSeq <= j.committing
       /\ \A b \in Block : buf[b].cp # 0 => j.tailSeq <= buf[b].cp /\ buf[b].cp <= Committed

\* None of the defects that concern checkpoints happens.
Undisturbed == "batch" \notin Races /\ Orderly
CheckpointInv == Undisturbed => HomeInv /\ IoInv /\ TailInv
=============================================================================
