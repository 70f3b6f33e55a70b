--------------------------- MODULE RowVersions ---------------------------
(***************************************************************************)
(* The row versions of one vector: ChunkVectorInfo                         *)
(* (storage/table/chunk_info.cpp) and the RowVersionManager around it       *)
(* (storage/table/row_version_manager.cpp), driven by transactions that     *)
(* delete, append, commit and roll back and by checkpoints that compress    *)
(* the ids and write the deleted rows.                                      *)
(*                                                                         *)
(* A row has an insert id and a delete id: the id of a running transaction  *)
(* (TRANSACTION_ID_START or more) or a commit id.  How the ids are stored   *)
(* is kept as a flag per side; the ids themselves are kept per row, so the  *)
(* constant and the mask are functions with one and with two values.        *)
(*                                                                         *)
(* Every operation on the version info holds version_lock and is one        *)
(* action.  Commit and rollback apply the whole undo buffer under the       *)
(* transaction manager's transaction_lock.  A scan is no action: what a     *)
(* transaction sees is GetSelVector in the current state.  The table has an *)
(* index, so appends go on in a row group that has been checkpointed.       *)
(***************************************************************************)
EXTENDS Naturals, Sequences, FiniteSets, FiniteSetsExt, SequencesExt

CONSTANTS
    Txns,                 \* transactions; each runs once
    VectorSize,           \* STANDARD_VECTOR_SIZE
    InitialCounts,        \* numbers of rows that the vector may have been loaded with
    TRANSACTION_ID_START, \* first transaction id, above every timestamp
    NoInfo,               \* an empty unique_ptr<ChunkVectorInfo>
    MaxDeleteCount,       \* bound: row ids in one call of Delete
    MaxCheckpoints,       \* bound: checkpoints
    Scenarios             \* sets of behaviours that may happen together

Rows == 0 .. VectorSize - 1

\* "append": the vector is not full, and transactions append to it;
\* "statement": CHECKPOINT statements; "automatic": checkpoints of a commit;
\* "fail": a commit may fail after its append; "restart": the database may be
\* closed and opened; "repeat": a statement may delete a row in several chunks;
\* "optimistic": an append may be a merge of optimistically written row groups.
AllBehaviours == {"append", "statement", "automatic", "fail", "restart", "repeat", "optimistic"}

ASSUME ConstantsAssumption ==
    /\ IsFiniteSet(Txns)
    /\ VectorSize \in Nat \ {0}
    /\ InitialCounts \subseteq 0 .. VectorSize
    /\ TRANSACTION_ID_START \in Nat
    /\ TRANSACTION_ID_START > 2 + 2 * Cardinality(Txns) + 2 * MaxCheckpoints
    /\ MaxDeleteCount \in Nat \ {0}
    /\ MaxCheckpoints \in Nat
    /\ Scenarios \subseteq SUBSET AllBehaviours

NOT_DELETED_ID == 2 * TRANSACTION_ID_START
MAX_TRANSACTION_ID == NOT_DELETED_ID + 1
NoCleanup == MAX_TRANSACTION_ID

VARIABLES
    \* DuckTransactionManager, as far as row versions depend on it
    current_start_timestamp, current_transaction_id, last_commit,
    lowest_active_start, active_checkpoint,
    \* transactions: "idle", "active", "invalidated", "flushed", "done"
    status, start_time, transaction_id,
    undo_buffer,     \* undo_buffer[t]: the DeleteInfos of t, in order
    append_info,     \* append_info[t]: first and last row appended, <<>> if none
    cleanup,         \* cleanup[t]: lowest_start_time of its pending cleanup, if there is one
    count,           \* rows of the vector in use
    version_info,    \* the RowVersionManager
    checkpoint,      \* the checkpoint under way
    behaviours       \* what may happen in this behaviour; chosen once, in Scenarios

manager == <<current_start_timestamp, current_transaction_id, last_commit,
             lowest_active_start, active_checkpoint>>
transactions == <<status, start_time, transaction_id, undo_buffer, append_info, cleanup>>
vars == <<manager, transactions, count, version_info, checkpoint, behaviours>>

-----------------------------------------------------------------------------
(* ChunkVectorInfo *)

Ids == 0 .. MAX_TRANSACTION_ID

VectorInfos ==
    [inserted : [Rows -> Ids], constant_insert : BOOLEAN,
     deleted : [Rows -> Ids], delete_state : {"CONSTANT", "MASKED", "ARRAY"},
     recheck_compression : BOOLEAN]

ASSUME NoInfoAssumption == NoInfo \notin VectorInfos

NewInfo(insert_id) ==
    [inserted |-> [r \in Rows |-> insert_id], constant_insert |-> TRUE,
     deleted |-> [r \in Rows |-> NOT_DELETED_ID], delete_state |-> "CONSTANT",
     recheck_compression |-> TRUE]

UseInsertedVersion(start, txn_id, id) == id < start \/ id = txn_id

\* The rows among the first n that a transaction sees.
GetSelVector(info, start, txn_id, n) ==
    IF info = NoInfo THEN 0 .. n - 1
    ELSE {r \in 0 .. n - 1 : /\ UseInsertedVersion(start, txn_id, info.inserted[r])
                             /\ ~UseInsertedVersion(start, txn_id, info.deleted[r])}

\* Every row has the same deleted id, which is stored once.
ConstantDelete(info, id) ==
    [info EXCEPT !.deleted = [r \in Rows |-> id], !.delete_state = "CONSTANT"]

\* One call of Delete: the row ids are a sequence, possibly with repetitions.
\* The loop stops at the first row that somebody else has deleted.
ConflictAt(info, txn_id, rows) ==
    {i \in 1 .. Len(rows) : info.deleted[rows[i]] \notin {txn_id, NOT_DELETED_ID}}

NewlyDeleted(info, rows) ==
    {rows[i] : i \in {j \in 1 .. Len(rows) : info.deleted[rows[j]] = NOT_DELETED_ID}}

\* The rows unset by a conflict at i.  The loop has by then moved the rows it
\* marked to the front of the array; the array entries behind them and before
\* i are still the ones of the input.
UnsetAtConflict(info, rows, i) ==
    LET marked == NewlyDeleted(info, SubSeq(rows, 1, i - 1))
    IN  marked \cup {rows[k] : k \in Cardinality(marked) + 1 .. i - 1}

ConstantlyDeleted(info) == info.delete_state = "CONSTANT" /\ info.deleted[0] # NOT_DELETED_ID

DeleteConflicts(info, txn_id, rows) ==
    IF ConstantlyDeleted(info) THEN info.deleted[0] # txn_id
    ELSE ConflictAt(info, txn_id, rows) # {}

EntireVector == [i \in 1 .. VectorSize |-> i - 1]

Delete(info, txn_id, rows) ==
    LET conflicts == ConflictAt(info, txn_id, rows)
        unset == UnsetAtConflict(info, rows, Min(conflicts))
        new == NewlyDeleted(info, rows)
    IN  IF ConstantlyDeleted(info) THEN info
        ELSE IF info.delete_state = "CONSTANT" /\ rows = EntireVector
        THEN ConstantDelete(info, txn_id)
        ELSE [info EXCEPT
                !.deleted = [r \in Rows |->
                    IF conflicts # {}
                    THEN IF r \in unset THEN NOT_DELETED_ID ELSE @[r]
                    ELSE IF r \in new THEN txn_id ELSE @[r]],
                !.delete_state = "ARRAY", !.recheck_compression = TRUE]

\* DuckTransaction::PushDelete: the rows of the call that were newly deleted,
\* and whether they are the whole vector in ascending order.
DeleteInfo(info, rows) ==
    LET new == NewlyDeleted(info, rows)
        first(r) == Min({i \in 1 .. Len(rows) : rows[i] = r})
    IN  [rows |-> new,
         entire |-> new = Rows /\ \A r, s \in Rows : r < s => first(r) < first(s)]

CommitDelete(info, commit_id, del) ==
    LET deleted == [r \in Rows |-> IF r \in del.rows THEN commit_id ELSE info.deleted[r]]
    IN  IF del.entire THEN ConstantDelete(info, commit_id)
        ELSE IF info.delete_state = "CONSTANT" /\ info.deleted[0] = commit_id THEN info
        ELSE [(IF \A r \in Rows : deleted[r] = commit_id
               THEN ConstantDelete(info, commit_id)
               ELSE [info EXCEPT !.deleted = deleted, !.delete_state = "ARRAY"])
                EXCEPT !.recheck_compression = TRUE]

\* The outcome for the delete side of CompressVersionIds: ids that every
\* transaction from lowest on sees are replaced by one id, and deletes of one
\* committed transaction are kept as a mask with its id.
DeletedRows(info) == {r \in Rows : info.deleted[r] # NOT_DELETED_ID}
PendingDeletes(info, lowest) == {r \in DeletedRows(info) : info.deleted[r] >= lowest}

Masked(info, id) ==
    [info EXCEPT !.deleted = [r \in Rows |-> IF r \in DeletedRows(info) THEN id ELSE NOT_DELETED_ID],
                 !.delete_state = "MASKED"]

\* Mutant: the mask drops the id of a delete that not everybody sees yet.
CompressDeletesToZero(info, lowest) ==
    IF info.delete_state = "ARRAY" /\ PendingDeletes(info, TRANSACTION_ID_START) = {}
       /\ DeletedRows(info) # Rows
    THEN Masked(info, 0) ELSE info

CompressDeletes(info, lowest) ==
    LET dead == DeletedRows(info)
        pending == PendingDeletes(info, lowest)
        ids == {info.deleted[r] : r \in dead}
        uncommitted == \E id \in ids : id >= TRANSACTION_ID_START
    IN  CASE info.delete_state # "ARRAY" -> info
          [] info.delete_state = "ARRAY" /\ dead = Rows /\ pending = {} ->
                ConstantDelete(info, Max(ids))
          [] info.delete_state = "ARRAY" /\ dead = Rows /\ pending # {} -> info
          [] info.delete_state = "ARRAY" /\ dead # Rows /\ pending = {} -> Masked(info, 0)
          [] info.delete_state = "ARRAY" /\ dead # Rows /\ pending # {} ->
                IF Cardinality(ids) = 1 /\ ~uncommitted
                THEN Masked(info, CHOOSE id \in ids : TRUE)
                ELSE info

CompressInserts(info, lowest) ==
    IF ~info.constant_insert /\ \A r \in Rows : info.inserted[r] < lowest
    THEN [info EXCEPT !.inserted = [r \in Rows |-> 0], !.constant_insert = TRUE]
    ELSE info

\* Mutant: the check is disarmed although ids are left that can compress later.
CompressSettlesEarly(info, lowest) ==
    IF ~info.recheck_compression THEN info
    ELSE [CompressInserts(CompressDeletes(info, lowest), lowest)
            EXCEPT !.recheck_compression = FALSE]

CompressVersionIds(info, lowest) ==
    IF ~info.recheck_compression THEN info
    ELSE LET new == CompressInserts(CompressDeletes(info, lowest), lowest)
         IN  [new EXCEPT !.recheck_compression =
                            new.delete_state = "ARRAY" \/ ~new.constant_insert]

AppendIds(info, first, last, id) ==
    IF first = 0 THEN [info EXCEPT !.inserted = [r \in Rows |-> id], !.constant_insert = TRUE]
    ELSE IF info.constant_insert /\ info.inserted[0] = id THEN info
    ELSE [info EXCEPT !.inserted = [r \in Rows |-> IF r \in first .. last THEN id ELSE @[r]],
                      !.constant_insert = FALSE,
                      !.recheck_compression = TRUE]

CommitAppend(info, commit_id, first, last) ==
    IF info.constant_insert
    THEN [info EXCEPT !.inserted = [r \in Rows |-> commit_id]]
    ELSE [info EXCEPT !.inserted = [r \in Rows |-> IF r \in first .. last THEN commit_id ELSE @[r]],
                      !.recheck_compression = TRUE]

AnyDeleted(info) == info.delete_state # "CONSTANT" \/ info.deleted[0] # NOT_DELETED_ID

\* The insert id of the first row is not tested when the ids are per row.
Cleanup(info, lowest) ==
    /\ ~AnyDeleted(info)
    /\ \A r \in IF info.constant_insert THEN Rows ELSE Rows \ {0} : info.inserted[r] <= lowest

HasDeletes(info, checkpoint_id) ==
    \/ info.constant_insert /\ info.inserted[0] >= TRANSACTION_ID_START
    \/ AnyDeleted(info) /\ \E r \in Rows : info.deleted[r] <= checkpoint_id

\* The rows written as deleted: those that a transaction starting right after
\* the checkpoint id does not see.  No row: EMPTY_INFO; all: CONSTANT_INFO.
Write(info, checkpoint_id) ==
    Rows \ GetSelVector(info, checkpoint_id + 1, MAX_TRANSACTION_ID, VectorSize)

-----------------------------------------------------------------------------
(* RowVersionManager *)

\* An optional_idx without a value; no commit has the id 0.
Invalid == 0

GetVectorInfo(m) == IF m.vector_info = NoInfo THEN NewInfo(0) ELSE m.vector_info

AppendVersionInfo(m, first, last, id) ==
    [m EXCEPT !.needs_compression_check = TRUE,
              !.vector_info = IF first = 0 /\ last = VectorSize - 1 THEN NewInfo(id)
                              ELSE AppendIds(GetVectorInfo(m), first, last, id)]

ManagerCommitAppend(m, commit_id, first, last) ==
    [m EXCEPT !.vector_info = CommitAppend(@, commit_id, first, last)]

\* Only an append that reaches the end of the vector cleans it up.
CleanupAppend(m, lowest, first, last) ==
    IF last = VectorSize - 1 /\ m.vector_info # NoInfo /\ Cleanup(m.vector_info, lowest)
    THEN [m EXCEPT !.vector_info = NoInfo]
    ELSE m

\* Vectors from new_count, rounded up, on are dropped: this one if it is empty.
RevertAppend(m, new_count) ==
    IF new_count = 0 THEN [m EXCEPT !.vector_info = NoInfo] ELSE m

DeleteRows(m, txn_id, rows) ==
    [m EXCEPT !.needs_compression_check = TRUE,
              !.vector_info = Delete(GetVectorInfo(m), txn_id, rows)]

ManagerCommitDelete(m, commit_id, del) ==
    [m EXCEPT !.needs_compression_check = TRUE,
              !.uncheckpointed_delete_commit =
                    IF @ = Invalid \/ commit_id > @ THEN commit_id ELSE @,
              !.vector_info = CommitDelete(GetVectorInfo(m), commit_id, del)]

\* The DeleteInfos of an undo buffer get a commit id, one after the other.
CommitDeletes(m, commit_id, dels) ==
    LET after[i \in 0 .. Len(dels)] ==
            IF i = 0 THEN m ELSE ManagerCommitDelete(after[i - 1], commit_id, dels[i])
    IN  after[Len(dels)]

ManagerCompressVersionIds(m, lowest) ==
    IF ~m.needs_compression_check THEN m
    ELSE IF m.vector_info = NoInfo THEN [m EXCEPT !.needs_compression_check = FALSE]
    ELSE LET info == CompressVersionIds(m.vector_info, lowest)
         IN  [m EXCEPT !.vector_info = info,
                       !.needs_compression_check = info.recheck_compression]

\* Mutant: what has been written counts as everything.
ManagerCheckpointForgets(m, checkpoint_id) ==
    IF m.uncheckpointed_delete_commit = Invalid THEN m
    ELSE [m EXCEPT !.storage = IF m.vector_info # NoInfo /\ HasDeletes(m.vector_info, checkpoint_id)
                               THEN Write(m.vector_info, checkpoint_id) ELSE {},
                   !.uncheckpointed_delete_commit = Invalid]

\* storage is the set of rows that storage_pointers say are deleted.
ManagerCheckpoint(m, checkpoint_id) ==
    IF m.uncheckpointed_delete_commit = Invalid THEN m
    ELSE [m EXCEPT !.storage = IF m.vector_info # NoInfo /\ HasDeletes(m.vector_info, checkpoint_id)
                               THEN Write(m.vector_info, checkpoint_id) ELSE {},
                   !.uncheckpointed_delete_commit =
                        IF @ <= checkpoint_id THEN Invalid ELSE @]

\* Deserialize: rows stored as deleted get the ids 0.
Deserialize(m) ==
    LET constant == m.storage = Rows
    IN  [m EXCEPT !.vector_info =
                    IF m.storage = {} THEN NoInfo
                    ELSE [NewInfo(0) EXCEPT
                            !.deleted = [r \in Rows |-> IF r \in m.storage THEN 0 ELSE NOT_DELETED_ID],
                            !.delete_state = IF constant THEN "CONSTANT" ELSE "MASKED",
                            !.recheck_compression = FALSE],
                  !.needs_compression_check = FALSE,
                  !.uncheckpointed_delete_commit = Invalid]

-----------------------------------------------------------------------------
(* DuckTransactionManager *)

\* left: checkpoints left (a bound); statement: it is a CHECKPOINT statement;
\* bind: start time of its bind transaction; rows: the committed rows at its id.
Idle == [pc |-> "idle", type |-> "none", left |-> 0, statement |-> FALSE, id |-> 0,
         bind |-> 0, lowest |-> 0, rows |-> {}]

Init ==
    /\ current_start_timestamp = 2
    /\ current_transaction_id = TRANSACTION_ID_START
    /\ last_commit = 0
    /\ lowest_active_start = MAX_TRANSACTION_ID
    /\ active_checkpoint = MAX_TRANSACTION_ID
    /\ status = [t \in Txns |-> "idle"]
    /\ start_time = [t \in Txns |-> 0]
    /\ transaction_id = [t \in Txns |-> 0]
    /\ undo_buffer = [t \in Txns |-> <<>>]
    /\ append_info = [t \in Txns |-> <<>>]
    /\ cleanup = [t \in Txns |-> NoCleanup]
    /\ count \in InitialCounts
    /\ behaviours \in Scenarios
    /\ "append" \in behaviours <=> count < VectorSize
    /\ version_info = [vector_info |-> NoInfo, needs_compression_check |-> FALSE,
                       uncheckpointed_delete_commit |-> Invalid, storage |-> {}]
    /\ checkpoint = [Idle EXCEPT !.left = MaxCheckpoints]

Running == {t \in Txns : status[t] \in {"active", "invalidated", "flushed"}}

\* The start times in active_transactions; the bind transaction of a
\* CHECKPOINT statement is one of them.
ActiveStarts == {start_time[t] : t \in Running} \cup ({checkpoint.bind} \ {0})

\* What t sees of the vector now.
Visible(t) == GetSelVector(version_info.vector_info, start_time[t], transaction_id[t], count)

\* What a transaction sees that starts now: the committed rows.
Committed == GetSelVector(version_info.vector_info, current_start_timestamp,
                          MAX_TRANSACTION_ID, count)

StartTransaction(t) ==
    /\ status[t] = "idle"
    /\ status' = [status EXCEPT ![t] = "active"]
    /\ start_time' = [start_time EXCEPT ![t] = current_start_timestamp]
    /\ transaction_id' = [transaction_id EXCEPT ![t] = current_transaction_id]
    /\ current_start_timestamp' = current_start_timestamp + 1
    /\ current_transaction_id' = current_transaction_id + 1
    /\ lowest_active_start' = IF ActiveStarts = {} THEN current_start_timestamp
                              ELSE lowest_active_start
    /\ UNCHANGED <<last_commit, active_checkpoint, undo_buffer, append_info, cleanup, count,
                   version_info, checkpoint, behaviours>>

\* Inserts and deletes need a shared vacuum lock, which a full checkpoint holds
\* exclusively.  A transaction gives it up when it is destroyed after cleanup.
VacuumLocked == checkpoint.type = "full" /\ checkpoint.pc # "decided"
VacuumReaders == {t \in Txns : \/ undo_buffer[t] # <<>> /\ t \in Running
                               \/ append_info[t] # <<>> /\ t \in Running
                               \/ cleanup[t] # NoCleanup}

\* A delete holds the table's checkpoint lock shared; a checkpoint holds it
\* exclusively from before it reads LowestActiveStart until the table is written.
TableLocked == checkpoint.pc \in {"table", "compressed", "written"}

\* The rows that t has deleted, from its undo buffer.
DeletedBy(t) == UNION {undo_buffer[t][i].rows : i \in DOMAIN undo_buffer[t]}

\* A statement deletes rows that it saw when it started, in chunks.  A row that
\* joins several times occurs several times, also in a later chunk.
DeleteInputs(t) ==
    LET seen == Visible(t) \cup (IF "repeat" \in behaviours THEN DeletedBy(t) ELSE {})
    IN  UNION {[1 .. n -> seen] : n \in 1 .. MaxDeleteCount}

\* PhysicalDelete::Sink, VersionDeleteState::Flush.  A conflict is an
\* exception that invalidates the transaction: it can only roll back.
DeleteStatement(t, rows) ==
    LET info == GetVectorInfo(version_info)
        conflict == DeleteConflicts(info, transaction_id[t], rows)
        del == DeleteInfo(info, rows)
    IN  /\ status[t] = "active"
        /\ ~VacuumLocked
        /\ ~TableLocked
        /\ version_info' = DeleteRows(version_info, transaction_id[t], rows)
        /\ status' = [status EXCEPT ![t] = IF conflict THEN "invalidated" ELSE @]
        /\ undo_buffer' = [undo_buffer EXCEPT ![t] =
                            IF conflict \/ ConstantlyDeleted(info) \/ del.rows = {}
                            THEN @ ELSE Append(@, del)]
        /\ UNCHANGED <<manager, start_time, transaction_id, append_info, cleanup, count, checkpoint,
                   behaviours>>

\* LocalStorage::Flush at the beginning of a commit, with the WAL lock held
\* until the commit is finished.  While a checkpoint is active, appends go to
\* a new row group.  Rows of optimistically written row groups come with the
\* insert id 0 of PhysicalInsert::Combine.
FlushAppend(t, n, optimistic) ==
    LET first == count
        last == count + n - 1
    IN  /\ status[t] = "active"
        /\ \A u \in Txns : status[u] # "flushed"
        /\ ~VacuumLocked
        /\ active_checkpoint = MAX_TRANSACTION_ID
        /\ last < VectorSize
        /\ optimistic => "optimistic" \in behaviours /\ first = 0
        /\ status' = [status EXCEPT ![t] = "flushed"]
        /\ append_info' = [append_info EXCEPT ![t] = <<first, last>>]
        /\ version_info' = AppendVersionInfo(version_info, first, last,
                                IF optimistic THEN 0 ELSE transaction_id[t])
        /\ count' = count + n
        /\ UNCHANGED <<manager, start_time, transaction_id, undo_buffer, cleanup, checkpoint, behaviours>>

\* RemoveTransaction: the lowest start among the others, or the checkpoint id.
LowestStartTime(t) ==
    Min({TRANSACTION_ID_START, active_checkpoint}
        \cup {start_time[u] : u \in Running \ {t}} \cup ({checkpoint.bind} \ {0}))

\* UndoBuffer::Commit: the entries in the order in which they were made; the
\* append is the last one.
ApplyCommit(m, t, commit_id) ==
    LET deletes == CommitDeletes(m, commit_id, undo_buffer[t])
    IN  IF append_info[t] = <<>> THEN deletes
        ELSE ManagerCommitAppend(deletes, commit_id, append_info[t][1], append_info[t][2])

RemoveTransaction(t, pending_cleanup) ==
    /\ status' = [status EXCEPT ![t] = "done"]
    /\ lowest_active_start' = LowestStartTime(t)
    /\ cleanup' = [cleanup EXCEPT ![t] = IF pending_cleanup THEN LowestStartTime(t) ELSE NoCleanup]

\* A commit that starts an automatic checkpoint chooses its type from whether
\* there are other transactions.
AutomaticCheckpoint(t) ==
    IF "automatic" \in behaviours /\ checkpoint.pc = "idle" /\ checkpoint.left > 0
    THEN \/ UNCHANGED checkpoint
         \/ checkpoint' = [checkpoint EXCEPT
                !.pc = "decided", !.type = IF Running = {t} THEN "full" ELSE "concurrent"]
    ELSE UNCHANGED checkpoint

CommitTransaction(t) ==
    /\ status[t] \in {"active", "flushed"}
    \* the WAL lock
    /\ undo_buffer[t] # <<>> => \A u \in Txns \ {t} : status[u] # "flushed"
    /\ current_start_timestamp' = current_start_timestamp + 1
    /\ version_info' = ApplyCommit(version_info, t, current_start_timestamp)
    /\ last_commit' = current_start_timestamp
    /\ RemoveTransaction(t, t \in VacuumReaders)
    /\ IF t \in VacuumReaders THEN AutomaticCheckpoint(t) ELSE UNCHANGED checkpoint
    /\ UNCHANGED <<current_transaction_id, active_checkpoint, start_time, transaction_id,
                   undo_buffer, append_info, count, behaviours>>

\* UndoBuffer::Rollback, in reverse: the append, then the deletes.
ApplyRollback(m, t) ==
    CommitDeletes(IF append_info[t] = <<>> THEN m ELSE RevertAppend(m, append_info[t][1]),
                  NOT_DELETED_ID, Reverse(undo_buffer[t]))

RollbackEffect(t, m) ==
    /\ version_info' = ApplyRollback(m, t)
    /\ count' = IF append_info[t] = <<>> THEN count ELSE append_info[t][1]
    /\ RemoveTransaction(t, FALSE)
    /\ undo_buffer' = [undo_buffer EXCEPT ![t] = <<>>]
    /\ append_info' = [append_info EXCEPT ![t] = <<>>]
    /\ UNCHANGED <<current_transaction_id, active_checkpoint, start_time, transaction_id, checkpoint,
                   behaviours>>

RollbackTransaction(t) ==
    /\ status[t] \in {"active", "invalidated"}
    /\ RollbackEffect(t, version_info)
    /\ UNCHANGED <<current_start_timestamp, last_commit>>

\* The WAL write fails: nothing has got a commit id yet, the transaction is
\* rolled back.  A commit id is drawn all the same.
CommitFails(t) ==
    /\ "fail" \in behaviours
    /\ status[t] = "flushed"
    /\ RollbackEffect(t, version_info)
    /\ current_start_timestamp' = current_start_timestamp + 1
    /\ UNCHANGED last_commit

\* The flush of the WAL fails: RevertCommit writes the transaction id back,
\* then the transaction is rolled back.
FlushFails(t) ==
    LET committed == ApplyCommit(version_info, t, current_start_timestamp)
        reverted == CommitDeletes(committed, transaction_id[t], undo_buffer[t])
    IN  /\ "fail" \in behaviours
        /\ status[t] = "flushed"
        /\ RollbackEffect(t, RevertAppend(reverted, append_info[t][1]))
        /\ current_start_timestamp' = current_start_timestamp + 1
        /\ UNCHANGED last_commit

\* CleanupTransactions, some time after the transaction was removed.
CleanupTransaction(t) ==
    /\ cleanup[t] # NoCleanup
    /\ version_info' = IF append_info[t] = <<>> THEN version_info
                       ELSE CleanupAppend(version_info, cleanup[t], append_info[t][1], append_info[t][2])
    /\ cleanup' = [cleanup EXCEPT ![t] = NoCleanup]
    /\ undo_buffer' = [undo_buffer EXCEPT ![t] = <<>>]
    /\ append_info' = [append_info EXCEPT ![t] = <<>>]
    /\ UNCHANGED <<manager, status, start_time, transaction_id, count, checkpoint, behaviours>>

-----------------------------------------------------------------------------
(* A checkpoint *)

\* DuckTransactionManager::Checkpoint, a CHECKPOINT statement.
DecideCheckpoint ==
    /\ "statement" \in behaviours
    /\ checkpoint.pc = "idle" /\ checkpoint.left > 0
    /\ checkpoint' = [checkpoint EXCEPT
            !.pc = "decided", !.statement = TRUE,
            !.type = IF last_commit > lowest_active_start THEN "concurrent" ELSE "full"]
    /\ UNCHANGED <<manager, transactions, count, version_info, behaviours>>

\* CreateCheckpoint: without the vacuum lock, a full checkpoint becomes a
\* concurrent one.  A running transaction may hold the lock and have done
\* nothing to this vector.
CreateCheckpoint(type) ==
    /\ checkpoint.pc = "decided"
    /\ \/ type = checkpoint.type /\ (type = "full" => VacuumReaders = {})
       \/ type = "concurrent" /\ Running \cup VacuumReaders # {}
    /\ checkpoint' = [checkpoint EXCEPT !.pc = "created", !.type = type]
    /\ UNCHANGED <<manager, transactions, count, version_info, behaviours>>

\* WALStartCheckpoint and GetNewCheckpointId, under the WAL lock.
WALStartCheckpoint ==
    /\ checkpoint.pc = "created"
    /\ \A t \in Txns : status[t] # "flushed"
    /\ active_checkpoint' = last_commit
    /\ checkpoint' = [checkpoint EXCEPT !.pc = "started", !.id = last_commit, !.rows = Committed]
    /\ UNCHANGED <<current_start_timestamp, current_transaction_id, last_commit,
                   lowest_active_start, transactions, count, version_info, behaviours>>

\* A CHECKPOINT statement runs a read-only transaction during the checkpoint.
\* At the end of a commit the client has no transaction and there is none.
StartBindTransaction ==
    /\ checkpoint.pc = "started" /\ checkpoint.statement /\ checkpoint.bind = 0
    /\ checkpoint' = [checkpoint EXCEPT !.bind = current_start_timestamp]
    /\ current_start_timestamp' = current_start_timestamp + 1
    /\ current_transaction_id' = current_transaction_id + 1
    /\ lowest_active_start' = IF ActiveStarts = {} THEN current_start_timestamp
                              ELSE lowest_active_start
    /\ UNCHANGED <<last_commit, active_checkpoint, transactions, count, version_info, behaviours>>

\* WriteTable locks the table; RowGroupCollection::Checkpoint reads
\* LowestActiveStart once for all row groups.
ReadLowestActiveStart ==
    /\ checkpoint.pc = "started"
    /\ checkpoint.statement => checkpoint.bind # 0
    /\ checkpoint' = [checkpoint EXCEPT !.pc = "table", !.lowest = lowest_active_start]
    /\ UNCHANGED <<manager, transactions, count, version_info, behaviours>>

CompressVersionInfo ==
    /\ checkpoint.pc = "table"
    /\ version_info' = ManagerCompressVersionIds(version_info, checkpoint.lowest)
    /\ checkpoint' = [checkpoint EXCEPT !.pc = "compressed"]
    /\ UNCHANGED <<manager, transactions, count, behaviours>>

\* Mutant: the deletes are written as of now, not as of the checkpoint id.
CheckpointDeletesNow ==
    /\ checkpoint.pc = "compressed"
    /\ version_info' = ManagerCheckpoint(version_info, last_commit)
    /\ checkpoint' = [checkpoint EXCEPT !.pc = "written"]
    /\ UNCHANGED <<manager, transactions, count, behaviours>>

CheckpointDeletes ==
    /\ checkpoint.pc = "compressed"
    /\ version_info' = ManagerCheckpoint(version_info, checkpoint.id)
    /\ checkpoint' = [checkpoint EXCEPT !.pc = "written"]
    /\ UNCHANGED <<manager, transactions, count, behaviours>>

UnlockTable ==
    /\ checkpoint.pc = "written"
    /\ checkpoint' = [checkpoint EXCEPT !.pc = "finishing"]
    /\ UNCHANGED <<manager, transactions, count, version_info, behaviours>>

\* The bind transaction commits: it draws a commit id and is removed.
CommitBindTransaction ==
    /\ checkpoint.pc = "finishing" /\ checkpoint.bind # 0
    /\ current_start_timestamp' = current_start_timestamp + 1
    /\ last_commit' = current_start_timestamp
    /\ lowest_active_start' = Min({TRANSACTION_ID_START, active_checkpoint}
                                  \cup {start_time[u] : u \in Running})
    /\ checkpoint' = [checkpoint EXCEPT !.bind = 0]
    /\ UNCHANGED <<current_transaction_id, active_checkpoint, transactions, count, version_info,
                   behaviours>>

\* ActiveCheckpointWrapper::Clear; the vacuum lock is released on return.
FinishCheckpoint ==
    /\ checkpoint.pc = "finishing" /\ checkpoint.bind = 0
    /\ active_checkpoint' = MAX_TRANSACTION_ID
    /\ checkpoint' = [Idle EXCEPT !.left = checkpoint.left - 1]
    /\ UNCHANGED <<current_start_timestamp, current_transaction_id, last_commit,
                   lowest_active_start, transactions, count, version_info, behaviours>>

\* The database is closed with a checkpoint and opened again.  Nothing else
\* runs, so the checkpoint is one step.
Restart ==
    LET compressed == ManagerCompressVersionIds(version_info, lowest_active_start)
    IN  /\ "restart" \in behaviours
        /\ Running = {} /\ checkpoint.pc = "idle"
        /\ \A t \in Txns : cleanup[t] = NoCleanup
        /\ last_commit # 0
        /\ version_info' = Deserialize(ManagerCheckpoint(compressed, last_commit))
        /\ current_start_timestamp' = 2
        /\ current_transaction_id' = TRANSACTION_ID_START
        /\ last_commit' = 0
        /\ lowest_active_start' = MAX_TRANSACTION_ID
        /\ UNCHANGED <<active_checkpoint, transactions, count, checkpoint, behaviours>>

-----------------------------------------------------------------------------

Next ==
    \/ \E t \in Txns :
        \/ StartTransaction(t)
        \/ \E rows \in DeleteInputs(t) : DeleteStatement(t, rows)
        \/ \E n \in 1 .. VectorSize, optimistic \in BOOLEAN : FlushAppend(t, n, optimistic)
        \/ CommitTransaction(t)
        \/ RollbackTransaction(t)
        \/ CommitFails(t)
        \/ FlushFails(t)
        \/ CleanupTransaction(t)
    \/ DecideCheckpoint
    \/ \E type \in {"full", "concurrent"} : CreateCheckpoint(type)
    \/ WALStartCheckpoint
    \/ StartBindTransaction
    \/ ReadLowestActiveStart
    \/ CompressVersionInfo
    \/ CheckpointDeletes
    \/ UnlockTable
    \/ CommitBindTransaction
    \/ FinishCheckpoint
    \/ Restart

Spec == Init /\ [][Next]_vars

-----------------------------------------------------------------------------

\* Every variable has the type the code declares for it.
TypeOK ==
    /\ current_start_timestamp \in 2 .. TRANSACTION_ID_START - 1
    /\ current_transaction_id \in TRANSACTION_ID_START .. NOT_DELETED_ID - 1
    /\ last_commit \in 0 .. TRANSACTION_ID_START - 1
    /\ lowest_active_start \in Ids /\ active_checkpoint \in Ids
    /\ status \in [Txns -> {"idle", "active", "invalidated", "flushed", "done"}]
    /\ start_time \in [Txns -> Nat]
    /\ transaction_id \in [Txns -> {0} \cup TRANSACTION_ID_START .. NOT_DELETED_ID]
    /\ \A t \in Txns : \A i \in DOMAIN undo_buffer[t] : undo_buffer[t][i].rows \subseteq Rows
    /\ \A t \in Txns : append_info[t] # <<>> => append_info[t] \in Rows \X Rows
    /\ cleanup \in [Txns -> Ids]
    /\ count \in 0 .. VectorSize
    /\ version_info.vector_info \in VectorInfos \cup {NoInfo}
    /\ version_info.storage \subseteq Rows
    /\ checkpoint.type \in {"none", "full", "concurrent"}

\* The table is a table with snapshot isolation.  A running transaction sees
\* what GetSelVector selects for it, in every state: nothing that others do,
\* and no cleanup or compression, changes it.
Table == INSTANCE SnapshotTable WITH
    live <- Committed,
    phase <- [t \in Txns |-> IF status[t] = "flushed" THEN "active"
                             ELSE IF status[t] = "invalidated" THEN "doomed" ELSE status[t]],
    view <- [t \in Txns |-> IF t \in Running THEN Visible(t) ELSE {}],
    deleted <- [t \in Txns |-> IF t \in Running THEN DeletedBy(t) ELSE {}],
    appended <- [t \in Txns |-> IF t \in Running /\ append_info[t] # <<>>
                                THEN append_info[t][1] .. append_info[t][2] ELSE {}]

ImplementsSnapshotTable == Table!Spec

\* Types hold.  VerifyCachedCompressionState and the check in the manager: a disarmed
\* compression check means that nothing is left that could ever compress, and
\* a disarmed manager has only disarmed vectors.
CachedCompressionHolds ==
    LET info == version_info.vector_info
    IN  /\ TypeOK
        /\ info # NoInfo =>
            /\ ~info.recheck_compression =>
                    /\ info.constant_insert
                    /\ info.delete_state # "ARRAY"
                    /\ info.delete_state = "MASKED" => DeletedRows(info) \notin {{}, Rows}
            /\ ~version_info.needs_compression_check => ~info.recheck_compression

\* No committed row is written as deleted.  A full checkpoint, and a concurrent
\* one that compressed nothing younger than its id, writes exactly the rows
\* that were committed at its id.
Written == (0 .. count - 1) \ version_info.storage

CheckpointSound ==
    checkpoint.pc = "written" =>
        /\ Committed \subseteq Written
        /\ checkpoint.type = "full" \/ checkpoint.lowest <= checkpoint.id + 1 =>
                Written = checkpoint.rows

\* storage_manager.cpp:212 of the checkpoint id: "everything in this commit
\* will be written to the file".  Rows deleted by then are written as deleted.
CheckpointedDeletesWritten ==
    checkpoint.pc = "written" => Written \subseteq checkpoint.rows

\* row_version_manager.cpp:250: a checkpoint that has written everything has
\* "nothing to checkpoint in future commits until more deletes appear", and
\* the next one reuses its pointers.  As long as no delete is waiting to be
\* written, the file has every committed delete and no committed row.  (Not so
\* once an append was reverted: its insert ids are written as deletes.)
SkippedWriteIsCurrent ==
    version_info.uncheckpointed_delete_commit = Invalid /\ "fail" \notin behaviours =>
        /\ Committed \cap version_info.storage = {}
        /\ version_info.vector_info # NoInfo =>
                \A r \in 0 .. count - 1 :
                    version_info.vector_info.deleted[r] < TRANSACTION_ID_START =>
                        r \in version_info.storage

\* row_version_manager.cpp:250 once more, of the rows of the table alone: "nothing to
\* checkpoint in future commits until more deletes appear".  Without a delete to be
\* written, no committed row is deleted in the file.
AppendsNeedNoCheckpoint ==
    version_info.uncheckpointed_delete_commit = Invalid => Committed \cap version_info.storage = {}
=============================================================================
