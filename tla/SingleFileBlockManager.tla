---------------------- MODULE SingleFileBlockManager ----------------------
(***************************************************************************)
(* The blocks of the database file: SingleFileBlockManager                  *)
(* (storage/single_file_block_manager.cpp) with the handles of BlockManager *)
(* (storage/buffer/block_manager.cpp) and those who use blocks:             *)
(* transactions that write row groups before they commit, dropped tables,   *)
(* checkpoints that rewrite columns, and readers of old row groups.         *)
(*                                                                         *)
(* A segment is a piece of a column in a block; a block that holds several  *)
(* segments is a multi-use block.  The contents of a block are the ids of   *)
(* the segments last written to it.  Each function that takes               *)
(* single_file_block_lock is an operator on the manager's record and is     *)
(* applied in one step; WriteHeader, which releases the lock meanwhile, is  *)
(* several.  A checkpoint is a sequence of steps; commits, rollbacks,       *)
(* optimistic writes and scans may come between them.  Metadata blocks,     *)
(* index blocks, encryption and the trimming of free blocks are left out.   *)
(***************************************************************************)
EXTENDS Naturals, Sequences, FiniteSets, FiniteSetsExt, SequencesExt

CONSTANTS
    Txns,            \* transactions that write optimistically; each runs once
    MaxBlocks,       \* bound: blocks of the file
    MaxSegments,     \* bound: segments ever written
    MaxCheckpoints,  \* bound: checkpoints
    MaxReads,        \* bound: reads of a table
    MaxCrashes,      \* bound: crashes
    Scenarios        \* sets of behaviours that may happen together

\* "share": two segments may share a block; "overflow": segments may be overflow
\* string blocks, registered when they are read; "fail": a commit may fail while or
\* after it writes to the WAL; "write_in_header": blocks may be taken between the
\* writing of the free list and of the header; "commit_in_checkpoint": a
\* transaction may commit while a checkpoint runs; "crash": there may be crashes;
\* "crash_in_checkpoint": also while a checkpoint runs; "late_unregister": other
\* threads may run between the end of the last reference to a handle and the
\* destructor's access to the map of handles.
AllBehaviours == {"share", "overflow", "fail", "write_in_header", "commit_in_checkpoint", "crash",
                  "crash_in_checkpoint", "late_unregister"}

ASSUME ConstantsAssumption ==
    /\ MaxBlocks \in Nat \ {0}
    /\ {MaxSegments, MaxCheckpoints, MaxReads, MaxCrashes} \subseteq Nat
    /\ Scenarios \subseteq SUBSET AllBehaviours

Blocks == 0 .. MaxBlocks - 1
Segments == [id : 1 .. MaxSegments, block : Blocks, overflow : BOOLEAN]

VARIABLES
    manager,     \* the SingleFileBlockManager
    disk,        \* disk[b]: ids of the segments in block b
    synced,      \* the contents of the blocks at the last sync
    header,      \* the active database header and what it leads to
    wal,         \* the commits in the WAL and in the checkpoint WAL
    table,       \* the committed segments
    status,      \* "idle", "running", "written", "failing", "reverted", "rolledback", "done"
    local,       \* local[t]: the segments transaction t has written, also those it lost
    reading,     \* the segments of a row group that a scan holds
    checkpoint,  \* the checkpoint under way
    phase,       \* "up" or "down"
    bounds,      \* segments, checkpoints, reads and crashes so far
    behaviours   \* what may happen in this behaviour; chosen once, in Scenarios

vars == <<manager, disk, synced, header, wal, table, status, local, reading, checkpoint,
          phase, bounds, behaviours>>

BlockOf(S) == {s.block : s \in S}
IdsOf(S) == {s.id : s \in S}

-----------------------------------------------------------------------------
(* BlockManager: the map of handles.  A handle is known by the segments that *)
(* hold it; an expired entry is one whose destructor has not run yet.        *)

EmptyManager ==
    [max_block |-> 0, free_list |-> {}, free_blocks_in_use |-> {}, newly_used_blocks |-> {},
     modified_blocks |-> {}, multi_use_blocks |-> [b \in Blocks |-> 0],
     handles |-> {}, orphans |-> {}, expired |-> {}, error |-> FALSE]

BlockIsRegistered(m, b) == b \in BlockOf(m.handles)

RegisterBlock(m, S) == [m EXCEPT !.handles = @ \cup (S \ m.orphans)]

\* Mutant: a freed block that is no longer in use does not get to the free list.
UnregisterBlockForgets(m, b) ==
    LET erased == {s \in m.handles : s.block = b}
    IN  [m EXCEPT !.expired = @ \ {b}, !.handles = @ \ erased, !.orphans = @ \cup erased,
            !.free_blocks_in_use = @ \ {b}]

\* The entry is erased by block id, whichever handle it belongs to by now.
UnregisterBlock(m, b) ==
    LET erased == {s \in m.handles : s.block = b}
    IN  [m EXCEPT !.expired = @ \ {b}, !.handles = @ \ erased, !.orphans = @ \cup erased,
            !.free_list = @ \cup (m.free_blocks_in_use \cap {b}),
            !.free_blocks_in_use = @ \ {b}]

\* The column segments S are destroyed and with them the handles only they hold.
Destroyed(m, S) ==
    LET kept == m.handles \ S
        expired == (BlockOf(S \cap m.handles) \ BlockOf(kept)) \cup BlockOf(S \cap m.orphans)
        n == [m EXCEPT !.handles = kept, !.orphans = @ \ S]
    IN  IF "late_unregister" \in behaviours THEN [n EXCEPT !.expired = @ \cup expired]
        ELSE FoldSet(LAMBDA b, r : UnregisterBlock(r, b), n, expired)

-----------------------------------------------------------------------------
(* SingleFileBlockManager *)

NextFreeBlock(m) == IF m.free_list # {} THEN Min(m.free_list) ELSE m.max_block

\* newly: the block is for an optimistic write, and not for a checkpoint.
GetFreeBlockIdInternal(m, newly) ==
    LET b == NextFreeBlock(m)
    IN  [m EXCEPT !.free_list = @ \ {b},
            !.max_block = IF m.free_list = {} THEN @ + 1 ELSE @,
            !.newly_used_blocks = IF newly THEN @ \cup {b} ELSE @,
            !.error = @ \/ BlockIsRegistered(m, b)]

IncreaseBlockReferenceCount(m, b) ==
    [m EXCEPT !.multi_use_blocks[b] = IF @ = 0 THEN 2 ELSE @ + 1]

MarkBlockAsCheckpointed(m, B) == [m EXCEPT !.newly_used_blocks = @ \ B]

MarkBlockAsUsed(m, b) ==
    IF m.max_block <= b
    THEN [m EXCEPT !.free_list = @ \cup (m.max_block .. b - 1), !.max_block = b + 1]
    ELSE IF b \in m.free_list THEN [m EXCEPT !.free_list = @ \ {b}]
    ELSE IncreaseBlockReferenceCount(m, b)

\* Mutant: a freed block goes to the free list although a reader has its handle.
AddFreeBlockAlways(m, b) == [m EXCEPT !.free_list = @ \cup {b}]

AddFreeBlock(m, b) ==
    IF BlockIsRegistered(m, b) THEN [m EXCEPT !.free_blocks_in_use = @ \cup {b}]
    ELSE [m EXCEPT !.free_list = @ \cup {b}]

\* Mutant: a block of the file is free as soon as its last segment is dropped.
MarkBlockAsModifiedFrees(m, b) ==
    IF m.multi_use_blocks[b] > 0
    THEN [m EXCEPT !.multi_use_blocks[b] = IF @ <= 2 THEN 0 ELSE @ - 1]
    ELSE AddFreeBlock([m EXCEPT !.newly_used_blocks = @ \ {b}], b)

MarkBlockAsModified(m, b) ==
    IF m.multi_use_blocks[b] > 0
    THEN [m EXCEPT !.multi_use_blocks[b] = IF @ <= 2 THEN 0 ELSE @ - 1]
    ELSE IF b \in m.modified_blocks \cup m.free_list THEN [m EXCEPT !.error = TRUE]
    ELSE IF b \in m.newly_used_blocks
    THEN AddFreeBlock([m EXCEPT !.newly_used_blocks = @ \ {b}], b)
    ELSE [m EXCEPT !.modified_blocks = @ \cup {b}]

\* BlockIdVisitor: every segment visits its block.
DropBlocks(m, S) == FoldSet(LAMBDA s, r : MarkBlockAsModified(r, s.block), m, S)

\* Blocks at the end of the file that are free.
Truncated(m) ==
    LET cut == Min({n \in 0 .. m.max_block : (n .. m.max_block - 1) \subseteq m.free_list})
    IN  [m EXCEPT !.max_block = cut, !.free_list = {b \in @ : b < cut}]

-----------------------------------------------------------------------------

NoCheckpoint == [pc |-> "idle", segments |-> {}, free |-> {}, multi |-> [b \in Blocks |-> 0],
                 block_count |-> 0, visited |-> {}]

Init ==
    /\ manager = EmptyManager
    /\ disk = [b \in Blocks |-> {}]
    /\ synced = disk
    /\ header = [root |-> 0, segments |-> {}, free |-> {}, multi |-> [b \in Blocks |-> 0],
                 block_count |-> 0]
    /\ wal = [main |-> <<>>, checkpoint |-> <<>>, marker |-> 0]
    /\ table = {}
    /\ status = [t \in Txns |-> "idle"]
    /\ local = [t \in Txns |-> {}]
    /\ reading = {}
    /\ checkpoint = NoCheckpoint
    /\ phase = "up"
    /\ bounds = [segments |-> 0, checkpoints |-> 0, reads |-> 0, crashes |-> 0]
    /\ behaviours \in Scenarios

\* New segments, which share the next free block.
NewSegments(n, overflow) ==
    [id : bounds.segments + 1 .. bounds.segments + n, block : {NextFreeBlock(manager)},
     overflow : {overflow}]

\* The block of n new segments is taken, referred to n times, registered and written.
WriteBlock(n, overflow, newly) ==
    LET b == NextFreeBlock(manager)
        m == GetFreeBlockIdInternal(manager, newly)
        counted == IF n = 1 THEN m ELSE IncreaseBlockReferenceCount(m, b)
    IN  RegisterBlock(counted, NewSegments(n, overflow))

MayTakeBlock(n) ==
    /\ NextFreeBlock(manager) \in Blocks
    /\ bounds.segments + n <= MaxSegments

Sizes == IF "share" \in behaviours THEN {1, 2} ELSE {1}

WALLockFree == \A t \in Txns : status[t] \notin {"written", "failing"}

\* A transaction writes a row group to disk before it commits.
OptimisticWrite(t, n, overflow) ==
    /\ phase = "up" /\ status[t] = "idle"
    /\ checkpoint.pc \in {"freeing", "listed", "counted"} => "write_in_header" \in behaviours
    /\ MayTakeBlock(n)
    /\ manager' = WriteBlock(n, overflow, TRUE)
    /\ local' = [local EXCEPT ![t] = NewSegments(n, overflow)]
    /\ disk' = [disk EXCEPT ![NextFreeBlock(manager)] = IdsOf(NewSegments(n, overflow))]
    /\ bounds' = [bounds EXCEPT !.segments = @ + n]
    /\ status' = [status EXCEPT ![t] = "running"]
    /\ UNCHANGED <<synced, header, wal, table, reading, checkpoint, phase, behaviours>>

\* The references to the blocks are written to the WAL, then the blocks are synced.
WriteToWAL(t) ==
    /\ phase = "up" /\ status[t] = "running" /\ WALLockFree
    /\ checkpoint.pc # "idle" => "commit_in_checkpoint" \in behaviours
    /\ manager' = MarkBlockAsCheckpointed(manager, BlockOf(local[t]))
    /\ synced' = disk
    /\ status' = [status EXCEPT ![t] = "written"]
    /\ UNCHANGED <<disk, header, wal, table, local, reading, checkpoint, phase, bounds, behaviours>>

\* An exception, before or after the blocks were marked as checkpointed.
WriteToWALFails(t) ==
    /\ "fail" \in behaviours
    /\ phase = "up" /\ status[t] = "running" /\ WALLockFree
    /\ checkpoint.pc # "idle" => "commit_in_checkpoint" \in behaviours
    /\ \E marked \in {{}, BlockOf(local[t])} : manager' = MarkBlockAsCheckpointed(manager, marked)
    /\ status' = [status EXCEPT ![t] = "failing"]
    /\ UNCHANGED <<disk, synced, header, wal, table, local, reading, checkpoint, phase, bounds,
                   behaviours>>

\* The WAL that commits are written to.
Logged(entry) ==
    IF wal.marker = 0 THEN [wal EXCEPT !.main = Append(@, entry)]
    ELSE [wal EXCEPT !.checkpoint = Append(@, entry)]

FlushCommit(t) ==
    /\ phase = "up" /\ status[t] = "written"
    /\ wal' = Logged([type |-> "row_group_data", segments |-> local[t]])
    /\ table' = table \cup local[t]
    /\ local' = [local EXCEPT ![t] = {}]
    /\ status' = [status EXCEPT ![t] = "done"]
    /\ UNCHANGED <<manager, disk, synced, header, reading, checkpoint, phase, bounds, behaviours>>

RevertCommit(t) ==
    /\ "fail" \in behaviours
    /\ phase = "up" /\ status[t] = "written"
    /\ status' = [status EXCEPT ![t] = "failing"]
    /\ UNCHANGED <<manager, disk, synced, header, wal, table, local, reading, checkpoint, phase,
                   bounds, behaviours>>

\* The local storage of a failed commit is empty: its row groups have been merged
\* into the table, are left out of it again and destroyed.  No block is given back.
RevertAppend(t) ==
    /\ phase = "up" /\ status[t] = "failing"
    /\ manager' = Destroyed(manager, local[t])
    /\ status' = [status EXCEPT ![t] = "reverted"]
    /\ UNCHANGED <<disk, synced, header, wal, table, local, reading, checkpoint, phase, bounds,
                   behaviours>>

\* LocalTableStorage::Rollback gives the blocks back, then the segments are destroyed.
Rollback(t) ==
    /\ phase = "up" /\ status[t] = "running"
    /\ manager' = DropBlocks(manager, local[t])
    /\ status' = [status EXCEPT ![t] = "rolledback"]
    /\ UNCHANGED <<disk, synced, header, wal, table, local, reading, checkpoint, phase, bounds,
                   behaviours>>

DestroyLocalStorage(t) ==
    /\ phase = "up" /\ status[t] = "rolledback"
    /\ manager' = Destroyed(manager, local[t])
    /\ local' = [local EXCEPT ![t] = {}]
    /\ status' = [status EXCEPT ![t] = "done"]
    /\ UNCHANGED <<disk, synced, header, wal, table, reading, checkpoint, phase, bounds, behaviours>>

\* The destructor of a handle, when others have run since it was released.
UnregisterPersistentBlock(b) ==
    /\ phase = "up" /\ b \in manager.expired
    /\ manager' = UnregisterBlock(manager, b)
    /\ UNCHANGED <<disk, synced, header, wal, table, status, local, reading, checkpoint, phase,
                   bounds, behaviours>>

-----------------------------------------------------------------------------
(* Scans.  A column is loaded when it is scanned, which registers its blocks; *)
(* an overflow block is registered when a string in it is read.              *)

Loaded(S) == {s \in S : ~s.overflow}

StartScan(S) ==
    /\ phase = "up" /\ reading = {} /\ S # {} /\ S \subseteq table
    /\ bounds.reads < MaxReads
    /\ reading' = S
    /\ manager' = RegisterBlock(manager, Loaded(S))
    /\ bounds' = [bounds EXCEPT !.reads = @ + 1]
    /\ UNCHANGED <<disk, synced, header, wal, table, status, local, checkpoint, phase, behaviours>>

ReadOverflowString(s) ==
    /\ phase = "up" /\ s \in reading /\ s.overflow
    /\ s \notin manager.handles \cup manager.orphans
    /\ manager' = RegisterBlock(manager, {s})
    /\ UNCHANGED <<disk, synced, header, wal, table, status, local, reading, checkpoint, phase,
                   bounds, behaviours>>

EndScan ==
    /\ phase = "up" /\ reading # {}
    /\ manager' = Destroyed(manager, reading \ table)
    /\ reading' = {}
    /\ UNCHANGED <<disk, synced, header, wal, table, status, local, checkpoint, phase, bounds,
                   behaviours>>

\* A transaction that drops the segments S commits.  It holds the shared
\* checkpoint lock, so no checkpoint runs.
CommitDrop(S) ==
    /\ phase = "up" /\ checkpoint.pc = "idle" /\ WALLockFree
    /\ S # {} /\ S \subseteq table
    /\ wal' = Logged([type |-> "drop", segments |-> S])
    /\ table' = table \ S
    /\ manager' = Destroyed(DropBlocks(RegisterBlock(manager, Loaded(S)), S), S \ reading)
    /\ UNCHANGED <<disk, synced, header, status, local, reading, checkpoint, phase, bounds,
                   behaviours>>

-----------------------------------------------------------------------------
(* The checkpoint *)

Root == bounds.checkpoints

WALStartCheckpoint ==
    /\ phase = "up" /\ checkpoint.pc = "idle" /\ WALLockFree
    /\ wal.main # <<>>
    /\ bounds.checkpoints < MaxCheckpoints
    /\ bounds' = [bounds EXCEPT !.checkpoints = @ + 1]
    /\ wal' = [wal EXCEPT !.marker = bounds.checkpoints + 1]
    /\ checkpoint' = [NoCheckpoint EXCEPT !.pc = "tables", !.segments = table]
    /\ UNCHANGED <<manager, disk, synced, header, table, status, local, reading, phase, behaviours>>

\* Nothing of the tables has changed: their blocks are kept.
KeepSegments ==
    /\ phase = "up" /\ checkpoint.pc = "tables"
    /\ manager' = MarkBlockAsCheckpointed(manager, BlockOf(checkpoint.segments))
    /\ checkpoint' = [checkpoint EXCEPT !.pc = "tables_written"]
    /\ UNCHANGED <<disk, synced, header, wal, table, status, local, reading, phase, bounds,
                   behaviours>>

\* The columns with the segments S have changes: they are read, overflow strings
\* included, and one block with as many new segments takes their place.
RewriteSegments(S) ==
    LET new == NewSegments(Cardinality(S), FALSE)
        kept == checkpoint.segments \ S
        written == WriteBlock(Cardinality(S), FALSE, FALSE)
        dropped == DropBlocks(RegisterBlock(written, S), S)
    IN  /\ phase = "up" /\ checkpoint.pc = "tables"
        /\ S # {} /\ S \subseteq checkpoint.segments /\ Cardinality(S) \in Sizes
        /\ MayTakeBlock(Cardinality(S))
        /\ manager' = Destroyed(MarkBlockAsCheckpointed(dropped, BlockOf(kept)), S \ reading)
        /\ disk' = [disk EXCEPT ![NextFreeBlock(manager)] = IdsOf(new)]
        /\ table' = (table \ S) \cup new
        /\ checkpoint' = [checkpoint EXCEPT !.pc = "tables_written", !.segments = kept \cup new]
        /\ bounds' = [bounds EXCEPT !.segments = @ + Cardinality(S)]
        /\ UNCHANGED <<synced, header, wal, status, local, reading, phase, behaviours>>

\* WriteHeader, first part: the free list that will be written, and the modified
\* blocks that the loop has not come to.
AllFreeBlocks == IF checkpoint.pc = "tables_written" THEN manager.free_list ELSE checkpoint.free
ModifiedLeft == manager.modified_blocks \ checkpoint.visited

FreeBlocks(m, B) == FoldSet(LAMBDA b, r : AddFreeBlock(r, b), m, B)

\* The loop goes over the modified blocks in any order, here over B and then b.
\* AddFreeBlock releases the lock when it has seen that b is registered.
FreeModifiedBlocks(B, b) ==
    /\ phase = "up" /\ checkpoint.pc \in {"tables_written", "freeing"}
    /\ b \in ModifiedLeft /\ BlockIsRegistered(manager, b)
    /\ B \subseteq ModifiedLeft /\ \A a \in B : ~BlockIsRegistered(manager, a)
    /\ manager' = FreeBlocks(manager, B \cup {b})
    /\ checkpoint' = [checkpoint EXCEPT !.pc = "freeing", !.free = AllFreeBlocks \cup B \cup {b},
                                        !.visited = @ \cup B \cup {b}]
    /\ UNCHANGED <<disk, synced, header, wal, table, status, local, reading, phase, bounds,
                   behaviours>>

\* The loop ends with blocks that are not registered; the list is written.
WriteFreeList ==
    LET m == manager
    IN  /\ phase = "up" /\ checkpoint.pc \in {"tables_written", "freeing"}
        /\ \A b \in ModifiedLeft : ~BlockIsRegistered(m, b)
        /\ checkpoint' = [checkpoint EXCEPT !.pc = "listed", !.visited = {},
                            !.free = AllFreeBlocks \cup ModifiedLeft \cup m.newly_used_blocks,
                            !.multi = [b \in Blocks |-> IF b \in m.newly_used_blocks THEN 0
                                                        ELSE m.multi_use_blocks[b]]]
        /\ manager' = [FreeBlocks(m, ModifiedLeft) EXCEPT !.modified_blocks = {}]
        /\ UNCHANGED <<disk, synced, header, wal, table, status, local, reading, phase, bounds,
                       behaviours>>

CountBlocks ==
    /\ phase = "up" /\ checkpoint.pc = "listed"
    /\ checkpoint' = [checkpoint EXCEPT !.pc = "counted", !.block_count = manager.max_block]
    /\ UNCHANGED <<manager, disk, synced, header, wal, table, status, local, reading, phase,
                   bounds, behaviours>>

\* WriteHeader, last part: sync, the other header, sync.
WriteHeader ==
    /\ phase = "up" /\ checkpoint.pc = "counted"
    /\ synced' = disk
    /\ header' = [root |-> Root, segments |-> checkpoint.segments, free |-> checkpoint.free,
                  multi |-> checkpoint.multi, block_count |-> checkpoint.block_count]
    /\ checkpoint' = [checkpoint EXCEPT !.pc = "header"]
    /\ UNCHANGED <<manager, disk, wal, table, status, local, reading, phase, bounds, behaviours>>

Truncate ==
    LET n == Truncated(manager)
        Cut(f) == [b \in Blocks |-> IF b < n.max_block THEN f[b] ELSE {}]
    IN  /\ phase = "up" /\ checkpoint.pc = "header"
        /\ manager' = n
        /\ disk' = Cut(disk) /\ synced' = Cut(synced)
        /\ checkpoint' = [checkpoint EXCEPT !.pc = "truncated"]
        /\ UNCHANGED <<header, wal, table, status, local, reading, phase, bounds, behaviours>>

WALFinishCheckpoint ==
    /\ phase = "up" /\ checkpoint.pc = "truncated" /\ WALLockFree
    /\ wal' = [main |-> wal.checkpoint, checkpoint |-> <<>>, marker |-> 0]
    /\ checkpoint' = NoCheckpoint
    /\ UNCHANGED <<manager, disk, synced, header, table, status, local, reading, phase, bounds,
                   behaviours>>

-----------------------------------------------------------------------------
(* Crash and restart *)

\* A block that was not synced has its old or its new contents.
Crash ==
    /\ "crash" \in behaviours
    /\ phase = "up" /\ bounds.crashes < MaxCrashes
    /\ checkpoint.pc # "idle" => "crash_in_checkpoint" \in behaviours
    /\ phase' = "down"
    /\ bounds' = [bounds EXCEPT !.crashes = @ + 1]
    /\ \E lost \in SUBSET {b \in Blocks : disk[b] # synced[b]} :
         disk' = [b \in Blocks |-> IF b \in lost THEN synced[b] ELSE disk[b]]
    /\ synced' = disk'
    /\ manager' = EmptyManager
    /\ table' = {} /\ reading' = {}
    /\ local' = [t \in Txns |-> {}]
    /\ status' = [t \in Txns |-> IF status[t] = "idle" THEN "idle" ELSE "done"]
    /\ checkpoint' = NoCheckpoint
    /\ UNCHANGED <<header, wal, behaviours>>

LoadFreeList ==
    [EmptyManager EXCEPT !.max_block = header.block_count, !.free_list = header.free,
                         !.multi_use_blocks = header.multi]

SegmentsOf(log, type) ==
    UNION {log[i].segments : i \in {j \in DOMAIN log : log[j].type = type}}

\* Mutant: the blocks that a WAL refers to are not reserved before it is replayed.
DeserializeOnlyReserves(m, log) == m

\* The first pass over a WAL marks the blocks of its row groups as used.
DeserializeOnly(m, log) ==
    FoldSet(LAMBDA s, r : MarkBlockAsUsed(r, s.block), m, SegmentsOf(log, "row_group_data"))

\* What is replayed: the checkpoint WAL if the checkpoint of the marker has
\* succeeded, both if it has not.
ReplayedLog ==
    IF wal.marker = 0 THEN wal.main
    ELSE IF wal.marker = header.root THEN wal.checkpoint
    ELSE wal.main \o wal.checkpoint

\* ReplayLog: the WAL is read once for its checkpoint marker; then either it is
\* replayed, or the checkpoint WAL or both in one file are read and replayed.
Replay ==
    LET read == DeserializeOnly(LoadFreeList, wal.main)
        log == ReplayedLog
        marked == IF wal.marker # 0 /\ wal.checkpoint # <<>> THEN DeserializeOnly(read, log)
                  ELSE read
        added == SegmentsOf(log, "row_group_data")
        dropped == SegmentsOf(log, "drop")
    IN  /\ phase = "down"
        /\ phase' = "up"
        /\ manager' = DropBlocks(marked, dropped)
        /\ table' = (header.segments \cup added) \ dropped
        /\ wal' = [main |-> log, checkpoint |-> <<>>, marker |-> 0]
        /\ UNCHANGED <<disk, synced, header, status, local, reading, checkpoint, bounds, behaviours>>

Next ==
    \/ \E t \in Txns :
         \/ \E n \in Sizes : OptimisticWrite(t, n, FALSE)
         \/ "overflow" \in behaviours /\ OptimisticWrite(t, 1, TRUE)
         \/ WriteToWAL(t) \/ FlushCommit(t)
         \/ WriteToWALFails(t) \/ RevertCommit(t) \/ RevertAppend(t)
         \/ Rollback(t) \/ DestroyLocalStorage(t)
    \/ \E b \in Blocks : UnregisterPersistentBlock(b)
    \/ \E S \in SUBSET table : StartScan(S) \/ CommitDrop(S)
    \/ (\E s \in reading : ReadOverflowString(s)) \/ EndScan
    \/ WALStartCheckpoint \/ KeepSegments
    \/ \E S \in SUBSET checkpoint.segments : RewriteSegments(S)
    \/ \E B \in SUBSET ModifiedLeft, b \in ModifiedLeft : FreeModifiedBlocks(B, b)
    \/ WriteFreeList \/ CountBlocks \/ WriteHeader \/ Truncate \/ WALFinishCheckpoint
    \/ Crash \/ Replay

Spec == Init /\ [][Next]_vars

-----------------------------------------------------------------------------
(* Properties *)

\* Every variable keeps its type: blocks in the lists exist, and only blocks
\* with at least two references are multi-use blocks.
TypeOK ==
    /\ manager.max_block \in 0 .. MaxBlocks
    /\ \A f \in {"free_list", "free_blocks_in_use", "newly_used_blocks", "modified_blocks"} :
         manager[f] \subseteq 0 .. manager.max_block - 1
    /\ manager.multi_use_blocks \in [Blocks -> (0 .. 2 * MaxSegments) \ {1}]
    /\ manager.handles \cup manager.orphans \subseteq Segments
    /\ disk \in [Blocks -> SUBSET (1 .. MaxSegments)]
    /\ synced \in [Blocks -> SUBSET (1 .. MaxSegments)]
    /\ table \subseteq Segments /\ reading \subseteq Segments
    /\ local \in [Txns -> SUBSET Segments]

Written(s) == s.id \in disk[s.block] /\ s.id \in synced[s.block]

\* What the database would be opened with after a crash is on disk: no block of
\* the active header or of a commit in the WAL has been written over or is
\* waiting to be synced (single_file_block_manager.cpp, WriteHeader and
\* MarkBlockAsModified; duck_transaction.cpp, WriteToWAL).
RecoverableBlocksIntact ==
    \A s \in header.segments \cup SegmentsOf(ReplayedLog, "row_group_data") : Written(s)

\* Where an old reader is sure to be in the map of handles: its entry is not
\* erased by the destructor of an earlier handle, and it does not start after a
\* restart with overflow blocks that nobody has registered yet.
ReadersHaveHandles ==
    "late_unregister" \notin behaviours /\ ~({"overflow", "crash"} \subseteq behaviours)

\* A scan of segments that have been dropped or rewritten meanwhile still finds
\* their contents: a block is not given away while a handle is out
\* (single_file_block_manager.hpp, free_blocks_in_use).
ScannedBlocksIntact ==
    ReadersHaveHandles => \A s \in reading : s.id \in disk[s.block]

Users ==
    table \cup UNION {local[t] : t \in {u \in Txns : status[u] \notin {"rolledback", "reverted"}}}

\* What failed commits have written and not given back.
Lost == UNION {local[t] : t \in {u \in Txns : status[u] = "reverted"}}

\* No block of a segment can be taken or freed: it is not listed as free, and as
\* many drops as it has segments are needed before it is (multi_use_blocks,
\* MarkBlockAsUsed and MarkBlockAsModified; a count may be too high after a
\* restart).
UsedBlocksReserved ==
    phase = "up" =>
        \A b \in BlockOf(Users) :
            LET users == Cardinality({s \in Users : s.block = b})
            IN  /\ b < manager.max_block
                /\ b \notin manager.free_list \cup manager.free_blocks_in_use
                            \cup manager.modified_blocks
                /\ users > 1 => manager.multi_use_blocks[b] >= users

\* Types hold.  Every block of the file is used or free, or will be free when a
\* reader or the next checkpoint lets it, or is one of those that a failed commit
\* took with it, and the reference count of a block is the number of segments
\* written to it and not dropped: no other course of commits, rollbacks, drops, scans
\* and checkpoints loses a block or a count (WriteHeader, UnregisterBlock and
\* MarkBlockAsModified).  (A restart from a free list that was written while a freed
\* block was still read loses that block, and replaying a WAL may count a block twice.)
BlocksAccountedFor ==
    /\ TypeOK
    /\ phase = "up" /\ bounds.crashes = 0 =>
        LET m == manager
            kept == Users \cup Lost
            free == m.free_list \cup m.free_blocks_in_use \cup m.modified_blocks
        IN  /\ BlockOf(kept) \cup free \cup m.newly_used_blocks = 0 .. m.max_block - 1
            /\ BlockOf(kept) \cap free = {}
            /\ \A b \in Blocks :
                 LET users == Cardinality({s \in kept : s.block = b})
                 IN  m.multi_use_blocks[b] = IF users > 1 THEN users ELSE 0

\* VerifyBlocks, which a checkpoint calls after WriteHeader: "all blocks should be
\* accounted for - either in the block_usage_count, or in the free list"
\* (single_file_block_manager.cpp:969).  The blocks of a failed commit are not.
AllBlocksReferenced ==
    checkpoint.pc = "header" =>
        BlockOf(Users) \cup manager.newly_used_blocks \cup manager.free_list
            \cup manager.free_blocks_in_use = 0 .. manager.max_block - 1

\* No InternalException: a block taken from the free list is not registered, and
\* no block is marked as modified when it is modified or free already.
NoInternalException == ReadersHaveHandles => ~manager.error
=============================================================================
