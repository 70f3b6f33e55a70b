# Verification of haybarn's transaction, storage and execution core

haybarn is a distribution of DuckDB, an in-process analytical database. This
directory holds TLA+ models of its transactional core and of the execution of a
query, TLC configurations
that check them on small instances, and theorems that TLAPS proves for every
instance. Source paths below are relative to the repository's `src/` directory
(in `PROJECT.json`, where paths start above the repository, `src/src/...`).

## 1. The system

One process; every client connection runs its statements in a thread of its own,
with worker threads for parallel pipelines. Everything hard about the system is
in what these threads share.

| component | state | operations | correct when |
|---|---|---|---|
| `StorageLock` (storage/storage_lock.cpp) | a mutex, an atomic reader count | shared, exclusive, try-exclusive, upgrade, release | readers or one writer; a waiting writer gets in |
| `DuckTransactionManager` (transaction/duck_transaction_manager.cpp) | timestamps, active and recently committed transactions, cleanup queue, four mutexes, two StorageLocks, the id of the running checkpoint | start, commit, rollback, cleanup, CHECKPOINT, FORCE CHECKPOINT | old versions live as long as somebody needs them; WAL and commit order agree; commits are durable; no deadlock |
| `DuckTransaction`, `UndoBuffer` | what the transaction changed, its shared locks | SetModifications, WriteToWAL, Commit, Rollback, Cleanup | all or nothing |
| `StorageManager`, `SingleFileCheckpointWriter` | WAL, checkpoint WAL, database file | CreateCheckpoint, WALStartCheckpoint, WALFinishCheckpoint | file plus WAL hold exactly the committed transactions |
| row versions (`ChunkVectorInfo`, `RowVersionManager`, `UpdateSegment`) | insert and delete ids per row, update chains | append, delete, update, commit, revert, cleanup, compress | snapshot isolation, first writer wins |
| `LocalStorage`, `OptimisticDataWriter` | rows appended by an open transaction | append, flush, rollback | invisible until commit |
| `DataTable`, `TableIndexList` | row groups, indexes and delta indexes, a table checkpoint lock | append during checkpoint, merge deltas | index and table agree |
| `WriteAheadLog`, replay | entries, checkpoint marker | write, flush, truncate, replay | recovery restores a prefix of the commits |
| `SingleFileBlockManager`, `MetadataManager` | free list, modified blocks, two headers | allocate, free, write header, truncate | no block of the last valid checkpoint is overwritten |
| `BufferPool`, `BlockHandle` | pins, eviction queue, reservations | pin, unpin, evict | a pinned block stays |
| `TaskScheduler`, `Executor`, `Event`, interrupts | task queues, counters, blocked tasks | schedule, block, unblock, cancel | no lost wake-up |
| `CatalogSet`, `DependencyManager` | version chains of entries, dependency edges | create, alter, drop, undo | no dangling dependency |
| `MetaTransaction`, `TransactionContext` | one transaction per attached database | begin, commit in order | one failing commit rolls the rest back |
| `DatabaseManager`, `AttachedDatabase`, `ClientContext` | attached databases, active query | attach, detach, interrupt | no use after detach |

How they interact: a statement calls `SetModifications`, which takes a shared
checkpoint lock (updates, catalog changes) or a shared vacuum lock (inserts and
deletes) that the *transaction object* owns. The transaction manager commits: it
may take the exclusive checkpoint lock, writes to the WAL under the WAL lock and
outside its own lock, draws the commit id, retires the transaction, and runs
cleanup and an automatic checkpoint in the committing thread. The checkpoint
calls back into the manager for its id and runs beside new commits, which go to
a second WAL. Row versions and catalog sets read `lowest_active_start` and the
active checkpoint to decide what can be forgotten. A statement runs as the events
and tasks of an `Executor`: the thread of the connection and the workers of the
`TaskScheduler` take tasks from one queue, and whatever a task waits for (an
asynchronous read, room in the result buffer) calls back into the executor.

The hard behaviours are therefore: decisions taken under `transaction_lock`,
which is dropped and taken again; two atomics read one after the other; undo
information destroyed after the lock is gone; four mutexes and two
reader/writer locks held across functions; a WAL that changes under
committers; transaction objects, and their locks, that outlive their
transactions; crashes between the steps of a checkpoint or of a recovery; blocks
that are freed while a scan, a header or a WAL still leads to them; wake-ups that
come before the sleeper sleeps or after the query was given up. `PROJECT.json` lists each hazard with its line and the properties
that would catch it.

## 2. Modules

| module | models |
|---|---|
| `ReadWriteLock` | abstract reader/writer lock with upgrade: what a StorageLock promises |
| `StorageLock` | storage_lock.cpp, one action per access to the mutex or the counter |
| `StorageLockProofs` | invariance and refinement |
| `MCStorageLock` | instance for TLC |
| `DuckTransactionManager` | the manager, the parts of DuckTransaction it uses, and the checkpoint it starts; instantiates `ReadWriteLock` twice |
| `DuckTransactionManagerProofs` | types, order of `recently_committed`, safety and order of cleanup; checkpoints, WAL and durability |
| `MCDuckTransactionManager` | instance for TLC, with symmetry |
| `SnapshotTable` | abstract table with snapshot isolation and first-writer-wins deletes |
| `RowVersions` | storage/table/chunk_info.cpp and row_version_manager.cpp under transactions and checkpoints |
| `RowVersionsProofs` | the shape of the version information, cached compression |
| `RowVersionsSnapshotProofs` | checkpoints and the refinement of `SnapshotTable`, on top of it |
| `DurableLog` | abstract log: what was acknowledged is there after a crash |
| `CheckpointRecovery` | database file, WAL, checkpoint WAL and recovery WAL with crashes and replay |
| `CheckpointRecoveryProofs` | what the replay reads from the files of any crash; durability, and that they can be opened |
| `SingleFileBlockManager` | the blocks of the database file, their handles and those who use them |
| `Executor` | the events, tasks and callbacks of one query, the scheduler's queue and threads, and the client with its pending or streaming result |
| `ExecutorProofs` | tasks, wakeups and teardown, for every plan |
| `ExecutorEventProofs` | order of events and completeness of the result, on top of it |
| `TableIndexList` | a table and its unique index: row groups, delta indexes and table lock under commits, failures and checkpoints |
| `TableIndexListProofs` | what the index, its deltas and a checkpoint have, for any table and number of checkpoints |
| `MCRowVersions`, `MCCheckpointRecovery`, `MCSingleFileBlockManager`, `MCExecutor`, `MCTableIndexList` | instances for TLC; `MCExecutor` has the plans |

`RowVersions`, `CheckpointRecovery`, `SingleFileBlockManager`, `Executor` and
`TableIndexList` have a constant `Scenarios`, sets of behaviours that may happen together. `Init`
chooses one of them as `behaviours`, so that one run covers several instances and
a cause that makes a property false in the code can be kept apart (section 4).

### StorageLock

`exclusive_lock` is the owner of the mutex, `read_count` the counter, `keys[h]`
the StorageLockKeys of thread `h`, `pc[h]` where it is inside a function. A
failed `try_lock` and a round of the spin loop change nothing, so they are
stuttering. `TryUpgradeCheckpointLock` keeps the shared key: the owner then has
both, which is why `ReadWriteLock` lets a writer be one of the readers.

### DuckTransactionManager

Each transaction is a thread, and so is each CHECKPOINT statement (a
*checkpointer*). `pc` is the place in `CommitTransaction`, `Checkpoint` or
`CreateCheckpoint`; an action is the code between two accesses to state
that other threads can change. So the critical sections of `CommitTransaction`
are split where the atomics `last_commit` and `lowest_active_start`, read by
others without a lock, are written:

| action | code |
|---|---|
| `Begin`, `StartTransaction` | StartTransaction; `Begin` is its caller, MetaTransaction::GetTransaction |
| `SetModifications`, `Modify` | the lock a statement needs, then the change itself (a statement may also change nothing) |
| `CommitTransaction` | up to `t_lock.unlock()`: CanCheckpoint and skip_wal_write_due_to_checkpoint |
| `CommitWAL`, `CommitDecide`, `CommitBackpedal`, `CommitBackpedalled` | the WAL write, GetCheckpointType and the second chance to write to the WAL |
| `CommitSucceeds`, `CommitFails` | the commit id, DuckTransaction::Commit, rollback after an error |
| `CommitRemove`, `CommitUnlockWAL` | RemoveTransaction and release of the locks |
| `CleanupPop`, `CleanupRun`, `CleanupDone` | CleanupTransactions; destroying a transaction releases its shared locks |
| `RollbackTransaction` | the same for a rollback |
| `Checkpoint`, `ForceCheckpoint`, `ForceObtainsLock`, `ForceInterrupted`, `CheckpointLastCommit`, `CheckpointLowestActiveStart` | DuckTransactionManager::Checkpoint |
| `CreateCheckpoint`, `WALStartCheckpoint`, `SetCheckpointId`, `CheckpointBind`, `WriteTables`, `WALFinishCheckpoint`, `ResetCheckpointId`, `CheckpointReturn` | SingleFileStorageManager::CreateCheckpoint and SingleFileCheckpointWriter::CreateCheckpoint |

The bind transaction that a CHECKPOINT statement opens is kept under the
checkpointer's own name and commits through the same actions as any other; an
automatic checkpoint has none, because its thread has no active transaction any
more (checkpoint_manager.cpp:181).

Abstractions:

- A transaction's changes are a set of kinds of modification, as coarse as
  `UndoBufferProperties` and `SetModifications` are: insert, delete, delete from
  an indexed table, update, create, drop.
- The sizes that decide about automatic checkpoints and about skipping the WAL
  write are nondeterministic choices.
- `wal` is one sequence for the WAL and the checkpoint WAL behind it, and
  `wal_start` is where the second begins. An entry counts from the write, before
  it is flushed: the entry of a transaction that has not committed yet is always
  the last one.
- `file` is the set of transactions whose changes are in the database file. A
  checkpoint writes the commits up to its id, and possibly deletes that lost
  their commit id when their vector was compressed (`DeletesCompressed`).
- `last_commit` starts with the constant `InitialLastCommit`, as the constructor
  leaves it uninitialised.

### RowVersions

One vector of one row group. `version_info` is its `RowVersionManager`: the
`ChunkVectorInfo` (insert and delete id of every row, with a flag for how each
side is stored: constant, mask or array), `needs_compression_check`,
`uncheckpointed_delete_commit`, and `storage`, the rows that the last checkpoint
wrote as deleted. Every function of the two classes is an operator on these
records; actions are the critical sections of `version_lock`, or of
`transaction_lock` where a commit or rollback walks through the whole undo
buffer. Transaction ids and timestamps are numbers with the code's comparisons
(`TRANSACTION_ID_START` above every timestamp, `NOT_DELETED_ID` above every
transaction id). How far apart they have to be follows from the bounds on
transactions and checkpoints: `ConstantsAssumption` asks for room for two timestamps of each,
the code has 2^62 of them. A pending cleanup is its `lowest_start_time`, and
`MAX_TRANSACTION_ID` where there is none (`NoCleanup`). The walk through an undo
buffer is a function over its entries (`CommitDeletes`).

| action | code |
|---|---|
| `StartTransaction`, `CommitTransaction`, `RollbackTransaction`, `CleanupTransaction` | DuckTransactionManager with UndoBuffer, CommitState, RollbackState, CleanupState |
| `DeleteStatement` | PhysicalDelete, VersionDeleteState::Flush, RowVersionManager::DeleteRows; row ids may repeat |
| `FlushAppend` | LocalStorage::Flush at the beginning of a commit |
| `CommitFails`, `FlushFails` | the WAL write or its flush fails: revert, then rollback |
| `DecideCheckpoint` ... `FinishCheckpoint` | a checkpoint, split where it reads `lowest_active_start`, compresses, writes and ends |
| `Restart` | close with a checkpoint, and Deserialize |

What a transaction sees is no action: it is `GetSelVector` in the current state,
and the refinement mapping to `SnapshotTable` says that it may only change
by what the transaction itself does.

### CheckpointRecovery

A WAL file is a sequence of entries (version with iteration, changes of a
commit, flush, checkpoint marker, a torn one), `disk[p]` what has been written to
path `p` and `synced[p]` how much of it is certain to survive. `file` is the
database file: root, iteration and the commits up to the checkpoint id. `wal` is
the `WriteAheadLog` object with its lazily opened file (`init_state`) and its
size, which follows the file only at a flush. `phase` is "open", "down", or
where opening the database is.

| action | code |
|---|---|
| `WriteToWAL`, `FlushCommit`, `EndCommit`, `RevertCommit` | a commit under the WAL lock, with SingleFileStorageCommitState |
| `SkipWALWrite` | a large commit that checkpoints instead |
| `CreateCheckpoint`, `WALStartCheckpoint`, `FlushMarker`, `SwitchWAL`, `IncrementIteration`, `WriteHeader`, `WALFinishCheckpoint`, `EndCheckpoint` | a checkpoint |
| `Crash` | any prefix of what was not synced remains, its last entry possibly in part |
| `LoadDatabase`, `ReplayRemove`, `ReplayEntries`, `ReplayTruncate`, `MoveCheckpointWAL`, `MergeIntoRecoveryWAL`, `SyncRecoveryWAL`, `MoveRecoveryWAL`, `RemoveCheckpointWAL`, `ReplayError` | WriteAheadLogReplayer, each file operation a step of its own; `ReplayDecision` is what the deserialize-only pass finds |

Assumed of the file system: the header of the database file, a move, a removal
and a truncation are atomic and durable; an entry is either whole, torn or
missing. A checkpoint that throws invalidates the database, and Close may skip
its checkpoint; both are covered by `Crash`. The behaviour "iteration" tells file
versions above 66, whose WAL header names the checkpoint it belongs to
(write_ahead_log.cpp:263), from the older ones. With "crash_before_remove", a crash
may come between the last two steps of a merge; `CrashLimit` then allows one
crash less.

### SingleFileBlockManager

`manager` is the block manager's record: `free_list`, `free_blocks_in_use`,
`newly_used_blocks`, `modified_blocks`, `multi_use_blocks`, `max_block`, and the
map of handles. Each function that takes `single_file_block_lock` is an operator
on it. A segment (id, block, overflow or not) stands for what refers to a block:
of the table, of a transaction that wrote it optimistically, of a scan that holds
an old row group. `disk[b]` is the set of segments last written to block `b`.
`header` is the active database header with what it leads to, `wal` the commits
since.

| action | code |
|---|---|
| `OptimisticWrite`, `WriteToWAL`, `FlushCommit` | OptimisticDataWriter and LocalStorage of a transaction that commits |
| `Rollback`, `DestroyLocalStorage` | LocalTableStorage::Rollback of one that does not: its blocks are dropped, then its row groups destroyed |
| `WriteToWALFails`, `RevertCommit`, `RevertAppend` | a commit that fails while it writes to the WAL or afterwards. LocalStorage::Commit has moved the row groups into the table; RevertAppendInternal leaves them out of it again and gives no block back (section 4, 4) |
| `CommitDrop` | RowGroup::CommitDrop through CommitDropState |
| `StartScan`, `ReadOverflowString`, `EndScan`, `UnregisterPersistentBlock` | handles: registered when a column is loaded, overflow blocks when a string is read, unregistered by the destructor |
| `WALStartCheckpoint`, `KeepSegments`, `RewriteSegments`, `FreeModifiedBlocks`, `WriteFreeList`, `CountBlocks`, `WriteHeader`, `Truncate`, `WALFinishCheckpoint` | a checkpoint. WriteHeader releases the lock for every modified block that is still registered (`FreeModifiedBlocks`: the loop up to such a block, in any order), after the free list and after the block count; others run in between |
| `Crash`, `Replay` | unsynced blocks have old or new contents; LoadFreeList, then both passes over the WALs |

### Executor

A plan is a set of pipelines grouped in meta pipelines, with the dependencies that
the planner gives them. `IsPlan` says what every plan has: a meta pipeline has a
base pipeline, which is in no finish group, and the leader of a finish group is a
pipeline of the same meta pipeline with finish events of its own. The last part
holds because `AddFinishEvent` is called once for a meta pipeline
(PhysicalIEJoin and PhysicalAsOfJoin::BuildPipelines). `Dependencies` computes what `ScheduleEventsInternal`
builds: initialize, event, prepare-finish, finish and complete events with their
dependencies. A task is an event and a number. A thread has a `pc`, the task it
executes, and `finishing`, the stack of `Event::Finish` calls it is in, each with
the parents it still has to tell. `callback[t]` is whoever will wake task `t`.

| action | code |
|---|---|
| `Init` | Executor::InitializeInternal up to the scheduled initial events |
| `PassInterruptTest`, `TaskBlocks`, `TaskError` | PipelineExecutor::Execute and ExecutorTask::Execute: go on, block, or throw and PushError |
| `Sink`, `BlockSink`, `Deschedule` | PhysicalBufferedCollector::Sink, and what follows TASK_BLOCKED |
| `FinishTask`, `CompleteDependency`, `FinishReturns` | Event::FinishTask, Finish, CompleteDependency and Schedule; Finalize may insert an event |
| `Callback`, `CallbackReturns` | InterruptState::Callback with Executor::RescheduleTask, which spins until the task has been put aside or the query was cancelled |
| `SemaphoreWait`, `Dequeue`, `DequeueFails` | TaskScheduler::ExecuteForever |
| `ExecuteTask`, `NoTaskAvailable`, `ExecutionFinished` | Executor::ExecuteTask for the client |
| `Fetch`, `Fetched`, `UnblockSinks`, `UnblockSink` | StreamQueryResult and SimpleBufferedData |
| `Interrupt`, `CloseResult`, `CancelTasks`, `WorkOnTasks`, `DestroyEvents` | interrupt, close, and Executor::CancelTasks |

Abstractions: a chunk stands for as many as a task may process before it goes back
to the queue (PARTIAL_CHUNK_COUNT); the time limit of WaitForTask is no step, as
the client only tries again; the parents of an event are told in any order;
putting a task aside and dropping the thread's reference to it are one step. Two
details are below the model's grain: ~ExecutorTask counts the task as gone before
its reference to the event is released, and tasks do not test `cancelled`
themselves, they are stopped by `interrupted` or run to their end.

### TableIndexList

`rows` are the rows of a table with their key, insert and delete ids, `row_groups`
the first rows of the row groups, `entry` the `IndexEntry` of a unique ART index:
`index`, `deleted_rows_in_use` and the deltas `added` and `removed` of a checkpoint.
An index is a set of pairs of key and row id; all but `index` are pointers, `<<>>` or
`<<index>>`. `commit` is the one commit that holds
the WAL lock, `checkpoint` the checkpoint under way with the rows and entries that
it has written. `undo_buffer[t]` has the DeleteInfos of a transaction and
`local_storage[t]` the keys it has inserted.

| action | code |
|---|---|
| `Delete`, `Insert` | a DELETE of rows of one row group; an INSERT with VerifyUniqueIndexes, which does not look at `added` |
| `BeginCommit`, `AppendLock`, `GetActiveCheckpoint`, `AppendToIndexes`, `AppendToTable` | CommitTransaction to LocalStorage::Flush: AppendRequiresNewRowGroup, the index chunk by chunk, then the row groups; a duplicate key leads to RevertIndexAppend |
| `StartUndoCommit`, `CommitDelete`, `FlushCommit` | the undo buffer under the transaction lock, with RemoveFromIndexes for each DeleteInfo |
| `AppendFails`, `WriteFails`, `FlushFails` | a duplicate key, a failing WAL write or a failing flush: RevertCommit, then the rollback with DataTable::RevertAppend |
| `CommitReadOnly`, `RollbackTransaction`, `Cleanup` | the end of a transaction, and of what `deleted_rows_in_use` keeps for others |
| `CheckpointStatement`, `WALStartCheckpoint`, `StartBindTransaction`, `GetCheckpointLock`, `CheckpointRowGroups`, `SerializeToDisk`, `WALFinishCheckpoint`, `MergeCheckpointDeltas`, `CommitBindTransaction`, `ResetCheckpointId` | a checkpoint as far as the table, its index and the manager's ids are concerned |

Abstractions: the table has one bound unique index on one column. A chunk has one
row. A commit that skips its WAL write holds the WAL lock during the checkpoint and
so never runs beside it; such commits and full checkpoints are left out. The table
lock of a DELETE lasts for one step: a checkpoint waits for it either way. Row
groups are not vacuumed (a table with indexes is not, unless
`vacuum_rebuild_indexes` allows it). An InternalException or FatalException of
index maintenance sets `fatal`, which ends the behaviour.

## 3. Runs

In all modules every actor acts a bounded number of times, so every run ends;
`CHECK_DEADLOCK FALSE` is there because a finished system has no next step
(threads that use a `StorageLock` never finish, and `TableIndexList` has a step for
the end; `storage_lock` and `table_indexes` check deadlock).

| run | instance | shows |
|---|---|---|
| `storage_lock` | 5 holders, fair | `TypeOK`, `CounterMatchesKeys`, `ExclusiveMeansAlone`, `ImplementsReadWriteLock`, `WriterNotStarved` |
| `manager_safety` | 2 transactions with up to 2 kinds of changes, 1 checkpointer, automatic checkpoints | the invariants below but `DurableOrAlone`, and `TypeOK` |
| `manager_three_transactions` | 3 transactions that delete from an indexed table, automatic checkpoints, `InitialLastCommit = 7` | `DurableOrAlone` |
| `manager_liveness` | 2 updating transactions, 2 checkpointers, fair | `CommitsEnd`, `ForceCheckpointEnds` |
| `row_versions` | 3 transactions on a vector of 2 rows and one checkpoint: 2 stored rows and a CHECKPOINT; 1 stored row with appends and a CHECKPOINT or an automatic checkpoint and restarts, or with commits that fail | `ImplementsSnapshotTable`, `CheckpointSound`, `CachedCompressionHolds`, `SkippedWriteIsCurrent` |
| `recovery` | 4 commits, 2 checkpoints, 3 crashes with torn tails, four scenarios: with and without iterations, a crash inside the end of a merge, and everything | `ImplementsDurableLog`, `ReadOnlySeesAcknowledged`, `DatabaseOpens` |
| `blocks` | 2 writing transactions, 3 blocks, 2 checkpoints, a scan; without crashes, with a crash at any step, and everything | `RecoverableBlocksIntact`, `ScannedBlocksIntact`, `BlocksAccountedFor`, `UsedBlocksReserved`, `NoInternalException` |
| `executor` | a worker, the client and callbacks on 3 plans (a join with two builds, a union, a scan), fair; blocking with failures, an interrupt, a result that is given up | `EventOrder`, `TaskInOnePlace`, `SignalPerTask`, `BlockedWillBeWoken`, `ResultComplete`, `SafeTeardown`, `QueryEnds` |
| `table_indexes` | 3 transactions on a table of up to 3 rows with 2 keys, row groups of 2 rows, 2 checkpoints; CHECKPOINT statements with WAL writes that fail, automatic checkpoints with flushes that fail | `IndexScanComplete`, `IndexEntriesExact`, `CheckpointImageExact`, `UniqueKeys`, `NoIndexError` |
| `full_checkpoint_old_data`, `force_checkpoint_stuck`, `lost_checkpointed_delete` | smallest instances that reach it | violations, section 4 |

The type invariant `TypeOK` of `RowVersions`, `CheckpointRecovery`,
`SingleFileBlockManager`, `Executor` and `TableIndexList` is the first conjunct of
`CachedCompressionHolds`, `DatabaseOpens`, `BlocksAccountedFor`, `TaskInOnePlace`
and `IndexEntriesExact`.

The invariants of the manager:

- `CleanupSafe`: undo information that is scheduled to be, or is being, thrown
  away is needed neither by an active transaction nor by the checkpoint under way.
- `CleanupInOrder`: stored transactions are cleaned up in commit order.
- `LowestActiveStartSafe`: the atomic is never above an active start.
- `RecentlyCommittedOrdered`: what RemoveTransaction's early break relies on.
- `OneCheckpointAtATime`: GetNewCheckpointId never throws.
- `WALInCommitOrder`: WAL order and commit-id order agree.
- `DurableOrAlone`: a committed transaction is in the WAL or in the file, or it
  is running the checkpoint that replaces its WAL write and nobody has committed
  on top of it.
- `NoOldVersionsNeeded`: while tables are written, updates and drops (which
  change data in place) are finished and visible to all.

Row versions:

- `ImplementsSnapshotTable`: a transaction sees the rows committed when it
  started and its own changes, whatever others commit, roll back, clean up,
  compress or write; a delete succeeds exactly when nobody else has deleted the
  row; a failed commit leaves no trace.
- `CheckpointSound`: a checkpoint writes no committed row as deleted, and a full
  one, or one that compressed nothing newer than its id, writes exactly the rows
  committed at its id.
- `SkippedWriteIsCurrent`: when a checkpoint may reuse the pointers of an
  earlier one, these are still right.
- `CachedCompressionHolds`: a disarmed compression check means there is nothing
  left to compress (the code's own VerifyCachedCompressionState).

Recovery:

- `ImplementsDurableLog`: after any crash the database opens with every
  acknowledged commit, once, in order, and possibly the interrupted one.
- `ReadOnlySeesAcknowledged`: so does a read-only connection, which must not
  change the files.
- `DatabaseOpens`: no file that a crash can leave is refused, except where
  `MayBeRefused` says so (deviations 9 to 11 below).

Blocks:

- `RecoverableBlocksIntact`: everything the active header and the WAL lead to is
  on disk.
- `ScannedBlocksIntact`: a scan that outlives a drop or checkpoint reads what it
  expects, where readers have handles (deviations 14 and 15).
- `BlocksAccountedFor`: no block is lost but those of failed commits, none is both
  used and free, and reference counts are exact, until a WAL is replayed (deviations
  4, 12 and 13).
- `UsedBlocksReserved`: also after a restart, no block in use can be taken or freed.
- `NoInternalException`: no block is registered, modified or freed twice, if none is
  taken while the header is written (deviation 12).

Execution:

- `EventOrder`: while a task of an event exists, all that the plan makes it wait
  for has finished, also what was inserted meanwhile; no event finishes twice.
- `TaskInOnePlace`: a task is queued once, or blocked, or executed by one thread.
- `SignalPerTask`: no task waits in the queue while all workers sleep.
- `BlockedWillBeWoken`: a blocked task of a running query has somebody who
  will wake it.
- `ResultComplete`: "finished" means all events have finished without an error, and
  a stream has lost no chunk.
- `SafeTeardown`: nobody has a task or an event when they are destroyed.
- `QueryEnds`: every query ends, with blocked tasks, full buffers, errors,
  interrupts and callbacks that come late.

Table and index:

- `IndexScanComplete`: an index scan (index, `deleted_rows_in_use` and `added`)
  finds every row that its transaction sees, at every step of commits, reverts,
  checkpoints and cleanup.
- `IndexEntriesExact`: between commits the index with its deltas has the committed
  rows and nothing else, whichever commits failed, and `deleted_rows_in_use` has
  what awaits cleanup.
- `CheckpointImageExact`: the rows and the index entries a checkpoint writes are
  those of the commits up to its id; later ones are in the WAL that is kept.
- `UniqueKeys`: no two rows with one key are ever visible together.
- `NoIndexError`: the exceptions of index maintenance, which invalidate the
  database, are never thrown.

Bounds of these. Two rows tell a fully from a partly deleted vector and have room
for an append behind a loaded row; three transactions are a deleter, a second
deleter or appender, and a reader whose snapshot is between them. Three crashes
interrupt a commit or checkpoint, the recovery from it and the recovery from that.
Two checkpoints free a block and give it to somebody else; three blocks hold an
old version, a new one and a shared block. A worker and the client are two threads
that take tasks, and each blocked task has a callback as a third actor; one
blocked task, one failure and a buffer of one chunk reach every wait of the
executor. In `table_indexes`, a row group has two rows, so a third one is in a group
of its own and an append to a half-full group differs from one behind it; two
checkpoints leave ids of the first to be mistaken for the second's; two keys and
three transactions are a deleter, an inserter of the same or of another key, and a
reader that still sees the deleted row. `MaxSegments`, `MaxReads`, `MaxCommits`, `MaxBlocks`, `MaxFailures` and
the others of that form cap counters.

Bounds of the manager. Two transactions and a checkpointer reach every pair of roles: a
committer that checkpoints beside a committer or a reader, an explicit checkpoint
beside an automatic one, and a bind transaction as a third reader. The kinds of
modification left out of `manager_safety` act like ones that are in: insert like
delete, drop like update. Three transactions are needed for a committer that
checkpoints, one that commits meanwhile and an older reader; a delete from an
indexed table is the one change that can commit during a checkpoint and is stored. `MaxMods = 2` lets
one transaction own both shared locks. `TRANSACTION_ID_START = 100` is never
reached, as in practice. Symmetry is used only in runs without liveness.

Fairness. `FairSpec` assumes that a thread inside the manager keeps running
(weak fairness of its steps) and that a client ends its transaction at some point
(the wait of FORCE CHECKPOINT has no meaning otherwise). Nobody has to begin,
change, checkpoint or interrupt. Mutexes need no fairness of their own here,
because every thread passes through finitely many critical sections. In
`StorageLock`, a spinning writer gets the mutex at some point and keys are released.
In `Executor`, threads run, the client goes on executing or fetching until it has
the result or gives it up, and what a task waits for happens; nobody has to
interrupt, close, block or fail.

Every property has a mutant: a plausible bug in a definition (next to it in the
module, marked "Mutant") under which TLC finds the property violated.

## 4. Disagreements between comments and code

Shown by a run each:

1. **Full checkpoints and old data** (`full_checkpoint_old_data`).
   `checkpoint_type.hpp:31`: full checkpoints
   "can only be run if no transaction need to read old data". `Checkpoint`
   compares `last_commit` with `lowest_active_start` without a lock
   (duck_transaction_manager.cpp:266) and tries the vacuum lock later
   (storage_manager.cpp:674). A reader can start, and a deleter can start,
   commit and be cleaned up, in between. Deletes take the shared vacuum lock only
   until their cleanup, which is immediate for tables without indexes.
2. **FORCE CHECKPOINT** (`force_checkpoint_stuck`).
   duck_transaction_manager.cpp:257: "wait until any active
   transactions are finished". A transaction that creates an entry and then runs
   an automatic checkpoint is kept in `recently_committed_transactions` as long as
   its commit id is not below the checkpoint id, which is that same id. If the
   last other transaction ends during the checkpoint, nobody cleans it up:
   `ResetCheckpointId` does not. FORCE CHECKPOINT then spins for a lock held by a
   finished transaction and blocks the starts that would end the wait; only a
   read-only transaction or an interrupt ends it. `manager_liveness` shows that
   the wait ends where the cause is absent (updates: these do not
   checkpoint beside other transactions).
3. **A checkpointed delete that is not written** (`lost_checkpointed_delete`).
   storage_manager.cpp:212: "everything in this commit will be written to the
   file". `StartTransaction` sets `lowest_active_start` without looking at
   `active_checkpoint` (duck_transaction_manager.cpp:91; `RemoveTransaction` does
   look). With a `lowest_active_start` above the checkpoint id, a vector whose last
   rows were deleted during the checkpoint is compressed to the largest of its
   ids. HasDeletes then finds no delete up to the checkpoint id, nothing is
   written, and the older deletes are only in the WAL that the checkpoint drops.

Deviations that are kept out of the passing runs by a behaviour or named in the
property. Where a configuration is given, it ends in the violation:

4. **Blocks of a failed commit** ("fail", `MCFailedCommitBlocks.cfg`,
   property `AllBlocksReferenced`).
   single_file_block_manager.cpp:969: "all blocks should be accounted for - either in
   the block_usage_count, or in the free list". WriteRowGroupData
   (write_ahead_log.cpp:486) has taken the blocks of optimistically written row groups
   out of `newly_used_blocks`, and LocalStorage::Commit (local_storage.cpp:609) has
   emptied the local storage, so LocalStorage::Rollback drops nothing. If the commit
   fails later, RevertAppend (data_table.cpp:1362) leaves the row groups out of the
   table and calls no CommitDrop. The blocks are in no set; they are missing in every
   free list written later, so a restart does not find them either. If the commit
   failed before the blocks were marked, they stay in `newly_used_blocks` until the
   database is closed. `blocks` has "fail", and `BlocksAccountedFor` counts these blocks
   as lost: a failed commit loses its own blocks and no others.
5. **A reverted append** (`MCRevertedAppend.cfg`,
   property `AppendsNeedNoCheckpoint`). row_version_manager.cpp:250: after a
   checkpoint that wrote every delete there is "nothing to checkpoint in future
   commits until more deletes appear". RevertAppend (line 146) resets whole vectors
   only, so an append that was reverted inside a vector leaves its insert ids, and the
   next checkpoint that has a delete to write stores the row as deleted. When
   the row is appended again (into the existing row group, which needs an index that
   a vacuum cannot rebuild, row_group_collection.cpp:515), no delete is waiting and the
   checkpoint after that reuses the pointers: the committed row is deleted in
   the file. `SkippedWriteIsCurrent` therefore excludes "fail". With two checkpoints
   `CheckpointSound` fails for the same reason; `row_versions` has "fail" with one
   checkpoint only, and the theorem excludes it (`NoFailedCommit`). After a restart from such
   a file the row stays deleted for those who append it again; no scenario has
   both "fail" and "restart".
6. **An error reported as an interrupt** (`MCErrorMasked.cfg`, property
   `ErrorReported`). client_context.cpp:673 tells "Interrupted by an exception
   caused in a worker thread" from an interrupt by the user and reports the
   worker's error. The test that simple_buffered_data.cpp:59 has for "cancel
   requests" comes first and sees the flag that `PushError` sets, so the client of a
   stream may get an InterruptException instead of the error.
7. **A repeated delete and a conflict** (behaviour "repeat",
   `MCRepeatedDelete.cfg`). chunk_info.cpp:421: "unset any deleted tuples we set in
   this loop". The loop at line 422 unsets `rows[0 .. i-1]`, among them rows that an
   earlier chunk of the same transaction had deleted. The transaction can only
   roll back afterwards, so the harm is limited to the time until then.
8. **Optimistic rows** ("optimistic", `MCOptimisticAppend.cfg`).
   duck_transaction_manager.cpp:51 says what transaction ids are there to prevent.
   Row groups that PhysicalInsert::Combine finalised have the insert id 0 and are in
   the table from the flush at the beginning of a commit until CommitAppend gives
   them the commit id.
9. **A WAL without commits outlives a checkpoint** ("skip_wal"; `MayBeRefused`).
   storage_manager.cpp:223: "no WAL - we don't need to do anything here". The
   size is 0, but the file is there with a version entry, which no longer fits
   the new header.
10. **A forced checkpoint of an empty WAL** ("force_checkpoint"; `MayBeRefused`), the
   same line: commits made meanwhile create the main WAL with the old iteration.
11. **A torn checkpoint WAL** ("torn_header"; `MayBeRefused`). wal_replay.cpp:450:
   "ignore serialization exceptions - they signal a torn WAL"; the version entry of
   the checkpoint WAL is read without that handler. And **a checkpoint WAL
   merged twice** (`MCDoubleReplay.cfg`, one crash more than in `recovery`): nothing
   removes a checkpoint WAL that was left behind by a crash after the merged WAL
   took the place of the main one.
12. **Blocks reused early** ("write_in_header", `MCBlockReusedEarly.cfg`). The header
    file says modified blocks "cannot be re-used until the next checkpoint";
    WriteHeader frees them before the new header is on disk, and
    optimistic writers take blocks meanwhile. A block that is taken while the loop over
    `modified_blocks` has released the lock is still in that set, so rolling its
    writer back there ends in "MarkBlockAsModified called with already modified block".
    `free_blocks_in_use` is not part of the free list that is written, and neither are
    blocks that a rollback frees during the loop, so a restart loses those blocks.
13. **Blocks counted twice**: the first pass over a WAL increases the count of blocks
    that the header does not list as free. They are never freed afterwards.
14. **Overflow blocks** (`ReadersHaveHandles`): a block without a handle is freed
    although a scan will read it.
15. **Late unregistration** ("late_unregister"; `ReadersHaveHandles`): the destructor
    of a handle erases the entry of a newer handle of the same block.
16. **A reverted index append** ("late_conflict", `MCRevertedIndexAppend.cfg`).
    local_storage.cpp:221: "Revert all appended row IDs". RevertIndexAppend
    (data_table.cpp:1482) deletes from the main index. If a checkpoint is under way,
    the earlier chunks are in `added_data_during_checkpoint`; they stay there and
    are merged, entries of rows that do not exist.
17. **A replaced key and a failing flush** ("replace", `MCReplacedKey.cfg`). The
    transaction deleted a key and inserted it again, and the flush of the WAL fails.
    UndoBuffer::RevertCommit goes through the entries from the first to the last
    (undo_buffer.cpp:203), so the deleted row is put back into the unique index while
    the inserted one is still there: the append conflicts, and the FatalException
    leaves DuckTransaction::Commit, which is noexcept.

## 5. Proofs

All theorems hold for every value of the constants that satisfies the named
assumptions of the modules, which TLC evaluates in every run. Every inductive
invariant was checked with TLC on the instances of section 3 before it was proved.

`StorageLockProofs`, for every finite set of holders. The inductive invariant
adds `MutexHeld` (a thread inside a function, or with an exclusive key, owns the
mutex) to the type, the counter and the exclusion. Without it, a test of
`read_count` could not be related to the key granted on its strength.
Theorems: `TypeCorrect`, `CounterExact`, `ExclusiveKeyIsExclusive`, and `Refinement`
(`Spec => ReadWriteLock!Spec`; the shared key counts from the increment, the
exclusive key from its creation).

`DuckTransactionManagerProofs`, for all finite sets of transactions and
checkpointers, any modifications, with or without automatic checkpoints, and
any initial `last_commit`. Theorems `TypeCorrect`, `LowestActiveStartIsSafe`,
`RecentlyCommittedIsOrdered`, `CleanupIsSafe`. The inductive invariant `Inv`:

- `LocksHeld`: who owns `transaction_lock` and the WAL lock at which label;
- `RunningActive`, `OnlyChangesFail`, `Retired`: a running transaction is active,
  only one with changes can fail, one awaiting cleanup has ended;
- `Timestamps`: all timestamps come from one counter and `last_commit` bounds the
  commit ids;
- `RemovedIsLatest`: whoever is about to be removed has the highest commit id
  (it has held `transaction_lock` since drawing it), which keeps
  `recently_committed` ordered;
- `CheckpointIdCovers`: between the two halves of WALStartCheckpoint the value
  read covers every commit with changes, because such a commit needs the WAL
  lock. This is what makes `CleanupSafe` survive a checkpoint that starts
  after RemoveTransaction looked at `active_checkpoint`;
- the three properties themselves.

The argument for `CleanupSafe`: what RemoveTransaction schedules has a commit id
below `lowest_start_time`, which is at most every other active start and the
checkpoint id; later transactions start above every commit id and later
checkpoint ids are at least `last_commit`. What is scheduled at once without
being stored has nothing to keep (`Stored`).

The second half of the module proves another invariant,
`CheckpointInv`, on top of `Inv`. Theorems `OneCheckpointIsRun`,
`WALIsInCommitOrder`, `DurableOrIsAlone`, `NoOldVersionsAreNeeded`. Its parts:

- `CheckpointLockOwned`, `IdPublishedByOwner`: whoever has decided to checkpoint
  owns the exclusive checkpoint lock until it has cleared `active_checkpoint`, so
  no second checkpoint finds an id set;
- `WALEntries`, `WALInCommitOrder`: only the last entry of the WAL may lack a
  commit id, and then its owner is between writing it and drawing its id and
  holds the WAL lock; the id it will draw is the highest;
- `WrittenOrSkipped`, `CheckpointerCommitted`: a commit with changes has written
  to the WAL, or keeps the WAL lock for the checkpoint that replaces the write;
- `WALStartCommitted`, `CheckpointCovers`: what the checkpoint will drop from the
  WAL was committed when it took its id, and is in what it writes;
- `ActiveIsRunning`, `InPlaceChangesLocked`: a transaction with updates or drops
  keeps its shared checkpoint lock while anybody may need its old versions; a
  committer that upgraded the lock checkpoints only if it was alone.

It also proves `CleanupIsInOrder`, with `CleanupInv`:
the owner of the cleanup lock has the only batch that is being cleaned up
(`OneCleaner`), and the batches are ordered, from that one over the queue to
`recently_committed` (`BatchesOrdered`). The queue is filled under
`transaction_lock`, in the order in which RemoveTransaction takes a prefix of
`recently_committed`, which is why its order is needed.

`ExecutorProofs` and `ExecutorEventProofs`, for every plan that satisfies `IsPlan`,
any finite set of workers, any buffer size and any behaviours. Every invariant that
the run checks is proved:

- `TeardownIsSafe` and `SignalForEachTask`, from `TypeInv`, which also says at which
  label a thread has a task: CancelTasks may destroy the events when no task is
  alive, since each thread that is in Event::Finish has one, and RescheduleTask gives a
  cancelled task up. A task in the queue has a signal that nobody has taken, or a
  worker that took the signal and has not looked yet;
- `BlockedTasksAreWoken`, with `PlacesInv`: tasks exist only of events that are
  ready (`OnlyReady`), each in one place (`OnePlace`), and a task that waits is
  neither in the queue nor with a thread, except one that has still to put it
  aside (`BlockedTasks`): this is the window for which RescheduleTask spins;
- `EventsAreInOrder`, with `EventsInv`: an event has no more tasks than it has still to
  count (`TasksCounted`), there is one call of Event::Finish for each event
  (`CallsOfFinish`), and an event has counted no more dependencies than events
  that have finished and told it (`DependenciesCounted`). An event is ready when all
  have been counted, so all of them have finished;
- `ResultIsComplete`, with `ResultInv`: chunks delivered, buffered and left in the
  tasks add up (`ChunksCounted`), no task is lost before it has sunk its
  chunks (`NoneLost`), and no more pipelines are counted as complete than complete
  events have finished (`PipelinesCounted`). The complete events of a plan depend,
  directly or not, on all the others (`PlanShape`), so when they have finished
  everything has;
- `TaskIsInOnePlace`, which includes the type invariant.

`CheckpointRecoveryProofs`, for any number of commits, checkpoints
and crashes, any set of at least two roots and any scenario in which no crash comes
between the move of the recovery WAL and the removal of the checkpoint WAL
(`NoCrashBeforeRemove`, a condition on the initial state; the violation
run `MCDoubleReplay.cfg` shows that durability needs it). Theorems `AnyCrashIsRecoverable`,
`ReadOnlyIsComplete` and `StorageIsDurable` (the refinement of `DurableLog`), from the
invariant `RecoveryInv`:

- a file is described by the commits that it holds: `Clean` (nothing else), `Open` (and
  the changes of one more), `Dead` (and something that the replay will not count),
  `Marked` and `Closed` (and a checkpoint marker, without and with its WAL_FLUSH).
  The lemmas of the first part say how writing, truncating, cutting by a crash and merging change the
  shapes, and what `ReplayDecision` and `Replayed` make of each. `Applied` is a recursive
  function; what it yields for a file follows from its being the only function that
  satisfies its equation;
- `OpenFiles`: which of these shapes the two WALs have at each step of a checkpoint
  (`OneWAL`, `MarkerWritten`, `TwoWALs`), such that the commits in the database file,
  the main WAL and the checkpoint WAL, one after the other, are the acknowledged ones.
  The checkpoint changes its place in that list in one step, `WriteHeader`: the
  marker names a root that is not in the header before and is in it after;
- `Locks`: the commit under way, the checkpoint and the WAL lock. Since the marker is
  written under the lock, no commit is ever between it and the switch;
- `OpenVersions`, `Versions`: which iteration the version entry of each WAL names.
  Without it a replay could take a WAL for one that belongs to another database file;
- `DownFiles`: what a crash leaves (`LeftNothing`, `LeftCommits`, `LeftMarker`,
  `LeftBoth`) and what the steps of the recovery make of it (`Merged`, `Moved`). Each
  still says with which commits the database will open, and this is the acknowledged
  log or that and the interrupted commit (`Outcome`). So a crash during
  recovery leaves nothing new, which is why the number of crashes does not matter.

`RowVersionsProofs` and `RowVersionsSnapshotProofs`, for any finite set of transactions,
any size of the vector and any number of checkpoints. `RowVersionsProofs` is about how
ids are stored and holds for all behaviours: `CachedCompressionIsCurrent`, from the
invariant `ShapeInv`. Its core is `Shape`: what each flag of a `ChunkVectorInfo` says
about the ids, and that a disarmed vector has nothing to compress. A lemma for each operation
(Delete, CommitDelete, Append, CommitAppend, Cleanup, CompressVersionIds, Write, Read) has
what it makes of the ids and that the result has the shape again.

`RowVersionsSnapshotProofs` is about what the ids mean, in behaviours that satisfy `Regular`, a
condition on the initial state: no row deleted twice by a transaction, no optimistic
append, and not both failing commits and restarts. Deviations 5, 7 and 8 of section 4
show that the conditions are needed. Theorems
`SkippedWritesAreCurrent`, `CheckpointsAreSound` (also without "fail") and
`RowVersionsAreSnapshots`, the refinement of `SnapshotTable`. The invariant is
`VersionInv`, which was checked with TLC on the scenarios of `row_versions` first:

- `Clocks`, `InsertIds`, `DeleteIds`: where each id comes from. A row in use was
  committed or is of the transaction that is flushing, and insert ids grow with the row; a
  delete id is that of a commit or of the running transaction in whose undo buffer the row
  is, and only of committed rows. No id equals the start of a running transaction, so
  `<` and `<=` agree, which Cleanup and GetSelVector do not use alike;
- `CleanupSafe`: a cleanup that may drop the whole vector has a `lowest_start_time` up to
  which everything is visible to all who run, also when others started after it was scheduled;
- `Lowest`: `lowest_active_start` is a bound on the starts of all who run, and what is below the
  value that a checkpoint has *read* stays visible to all until it compresses, although
  `lowest_active_start` itself may change in between. This is what makes the
  compression unnoticeable: the id that replaces others is as visible as these;
- `Stored`: a committed delete is in the file or bounded by
  `uncheckpointed_delete_commit`, and what is in the file is committed;
- `FullAlone`, `Image`: a full checkpoint runs while no delete does, and until it
  writes, the rows that a checkpoint is to write are those that the ids show at its
  checkpoint id, commits during the checkpoint included.

The refinement: what a transaction sees is a function of the two ids of each row and
of its own start and id (`Sees`). A step that no transaction may notice (compression,
cleanup, write, start and end of a checkpoint) keeps for every row and every running
transaction which of these it is (`QuietSight`), although it changes the ids themselves. A commit
changes it for those who start later only, because the commit id is above all starts.

`TableIndexListProofs`, for any transactions, keys, row group size, initial rows and number of
checkpoints, in behaviours that satisfy `Regular`, a condition on the initial state: neither
"late_conflict" nor "replace", which deviations 16 and 17 of section 4 show to be necessary.
Statements and automatic checkpoints, failing WAL writes and failing flushes may all happen together.
Theorems `IndexesAreExact`, `IndexScansAreComplete`, `CheckpointImagesAreExact`,
`KeysAreUnique` and `NoIndexErrors`, every invariant that the run checks, from the
invariant `TableInv`:

- `Indexed` is the core: the content of each index as a function of the ids of the
  rows. Without a checkpoint `index` has the rows that are not deleted and what the commit under
  way has appended so far (`Pending`). From the start of a checkpoint to the merge `index` is frozen at
  the checkpoint id, `removed` has the rows of it that were deleted since, and `added` the
  others that are not deleted. `deleted_rows_in_use` has the rows deleted by commits that others
  had to see past (`InUse`). No operation looks at all of these; each keeps this description;
- `CheckpointIds`: when the delta indexes are used. `last_written_checkpoint` and
  `last_seen_checkpoint` are ids of earlier checkpoints, and a checkpoint has an id of its own,
  since one starts only when something was committed after the last one. So a commit that read the
  id of a checkpoint before it appends still agrees with RemoveFromIndexes about which index is
  meant;
- `Split`: the rows of a checkpoint and later ones are in different row groups, and so
  is every DeleteInfo. RemoveFromDeltas decides with `added` for a whole DeleteInfo, and would
  throw for one that has both;
- `Written`: what the checkpoint has written so far is what `Indexed` says of its id;
- `Times`, `OneCommit`, `Deletes`, `Ended`, `Groups`: where each id comes from, how far the
  commit is, which undo buffers have which rows, and that rows are appended in order;
- `Kept`: a row that was deleted by a commit after a running transaction had started is in
  `InUse`, and a scheduled cleanup is of a commit before all who run;
- `Distinct`: of the rows that are not deleted, those of one key are at most a row that the
  commit deletes and the one it inserts instead. `UniqueKeys` for committed rows follows,
  since AppendToIndexes finds the first of the two unless the commit itself deleted it;
- `NoLateConflict`: what "late_conflict" excludes, kept while the commit appends.

The recursion in `FlushFails`, over the entries of an undo buffer, is followed by looking at the first
entry after which the indexes are not as they should; what a step does (`Readded`) is a lemma about RemoveFromIndexes, as is what a
committed delete does (`Removed`).

For TLC the logs in the quantifiers of `RecoveryInv` were replaced by those that occur
in a state. The attempt to prove `AnyCrashIsRecoverable` corrected `MayBeRefused`: a torn
version entry of a checkpoint WAL is refused also where WALs name no iteration, a
combination that no scenario has.

For the proofs a few things changed in the models. `Replayed` is a function over the
entries instead of a filter, and `CommitDeletes` one over an undo buffer instead of a fold, as is the revert in `FlushFails`. Pointers to
indexes in `TableIndexList` are sequences instead of sets or a model value, `Infinity` is a constant, and `RowGroupsFrom`
gives the row groups by a formula instead of sorting a set. `Executor` states what it assumes of
a plan (`IsPlan`). In `Executor`, `CheckpointRecovery` and the mapping to `SnapshotTable`, CASE expressions whose
arms overlapped are IF/ELSE, in the order in which the code tests: TLC takes the first
arm that is true, the meaning of TLA+ allows any.

Assumptions (named in the modules): the sets are finite and disjoint,
`2 < TRANSACTION_ID_START < MAX_TRANSACTION_ID`, the bounds are natural numbers,
plans are plans in the sense of `IsPlan`, there are two roots or more, and `NoTask`,
`NoCommit`, `NoFile` and `NoInfo` are no task, commit, file and version information;
the vector has a row, and there are timestamps for all transactions and checkpoints
below `TRANSACTION_ID_START`; row groups have a row, and the keys a table is loaded with
differ (`ConstantsAssumption`).

Only model-checked:

- durability when a crash may come before the removal of a merged checkpoint WAL (with
  one crash less, section 3);
- the invariants of `SingleFileBlockManager`, which counts the references of blocks with
  folds over sets: what such a fold yields needs an induction over data that the
  provers do not do;
- all liveness (fairness and ENABLED are beyond the prover).

## 6. Not modelled

In-memory, temporary and system databases (no WAL; VACUUM_ONLY);
`lowest_active_id`; catalog versions; what other connections do between a
checkpoint that throws and the invalidation of the database; `CHECKPOINT` issued
inside an open read transaction; recovery modes without WAL writes, encrypted
WALs and WALs of version 1; a torn database header; updates
(update_segment.cpp); row groups of several vectors, vacuum of row groups and the
rebuild of indexes after it; several, non-unique and unbound indexes, ON CONFLICT;
index and metadata blocks; trimming of free blocks; recursive CTEs (pipelines that are
scheduled again), `scheduler_process_partial`, a changing number of threads,
TaskExecutor, the progress bar, blocking InterruptStates, BatchedBufferedData and the
context lock of a connection. Parser, planner, optimizer, operators,
functions, compression, serialization, extensions and vendored code: data
transformations with little shared state. The remaining components of section 1
are in the plan.

## 7. Plan

In this order, most important first:

1. `MetadataManager`: metadata pieces, in-place flush and the blocks of the
   active header.
2. Unbound indexes: the buffered changes that are replayed when the index is bound.
3. `CatalogSet`, `MetaTransaction`, `BufferPool`.

Theorems to come: the invariants of `SingleFileBlockManager`, once its counts are kept
without folds.
