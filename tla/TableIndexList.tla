-------------------------- MODULE TableIndexList --------------------------
(***************************************************************************)
(* A table with a unique ART index while transactions commit and a          *)
(* checkpoint runs: the row groups of the DataTable (storage/data_table.cpp,*)
(* storage/table/row_group_collection.cpp), the IndexEntry with its delta    *)
(* indexes (storage/table_index_list.cpp) and the commit that maintains     *)
(* both (storage/local_storage.cpp, transaction/commit_state.cpp).           *)
(*                                                                         *)
(* A commit with changes holds the WAL lock from its beginning to its end,  *)
(* so there is one commit at a time; its steps interleave with the          *)
(* statements of other transactions and with the steps of a checkpoint.     *)
(* A step is what happens under one entry.lock.  An index is a set of       *)
(* entries <<key, row id>>.  A chunk has one row.                           *)
(*                                                                         *)
(* A full checkpoint runs while no transaction has changes and does not     *)
(* vacuum a table with indexes; it is a checkpoint here during which        *)
(* nothing is committed.                                                    *)
(***************************************************************************)
EXTENDS Naturals, Sequences, FiniteSets, FiniteSetsExt, SequencesExt

CONSTANTS
    Txns,            \* transactions; each runs once
    Keys,            \* values of the indexed column
    InitialKeys,     \* sequences of keys of the rows that the table is loaded with
    RowGroupSize,    \* rows of a row group
    NoTxn,           \* a null pointer
    Infinity,        \* MAX_TRANSACTION_ID; bound: the timestamps are below it
    MaxRows,         \* bound: rows of the table and of the local storages
    MaxDeletes,      \* bound: DeleteInfos of one transaction
    MaxCheckpoints,  \* bound: checkpoints
    Scenarios        \* sets of behaviours that may happen together

\* "statement": CHECKPOINT statements; "automatic": checkpoints of a commit;
\* "write_fail": a write to the WAL may fail; "flush_fail": its flush may fail;
\* "late_conflict": a duplicate key may be found in a later chunk during a checkpoint;
\* "replace": the flush may fail for a transaction that deleted and inserted a key.
AllBehaviours == {"statement", "automatic", "write_fail", "flush_fail", "late_conflict", "replace"}

RowId == Nat \ {0}
Index == SUBSET (Keys \X RowId)

ASSUME ConstantsAssumption ==
    /\ \A keys \in InitialKeys : keys \in Seq(Keys) /\ IsInjective(keys)
    /\ RowGroupSize \in Nat \ {0}
    /\ NoTxn \notin Txns
    /\ Infinity \in Nat /\ Infinity > 2
    /\ MaxRows \in Nat /\ MaxDeletes \in Nat /\ MaxCheckpoints \in Nat
    /\ Scenarios \subseteq SUBSET AllBehaviours

VARIABLES
    current_start_timestamp, last_commit, active_checkpoint,
    status,         \* status[t]: "idle", "active", "invalidated", "done"
    start_time, commit_id,
    undo_buffer,    \* undo_buffer[t]: the row sets of the DeleteInfos of t, in order
    local_storage,  \* local_storage[t]: the keys that t has inserted, one per chunk
    active_transaction_state, \* of a committed transaction: were there others
    cleanup,        \* cleanup[t]: "none", "stored", "scheduled"
    rows,           \* rows[r]: key, insert and delete id of row r; a sequence from 1
    row_groups,     \* the first rows of the row groups
    require_new,    \* row_group_append_mode is REQUIRE_NEW
    last_seen_checkpoint, checkpoint_row_group_count,
    entry,          \* the IndexEntry
    commit,         \* the commit that holds the WAL lock
    wal, checkpoint_wal, \* whether the WAL, and the checkpoint WAL, has commits
    checkpoint,     \* the checkpoint under way
    fatal,          \* an InternalException or FatalException was thrown
    behaviours      \* what may happen in this behaviour; chosen once, in Scenarios

manager == <<current_start_timestamp, last_commit, active_checkpoint>>
transactions == <<status, start_time, commit_id, undo_buffer, local_storage,
                  active_transaction_state, cleanup>>
table == <<rows, row_groups, require_new, last_seen_checkpoint, checkpoint_row_group_count>>
vars == <<manager, transactions, table, entry, commit, wal, checkpoint_wal, checkpoint,
          fatal, behaviours>>

-----------------------------------------------------------------------------
(* ART *)

Lookup(index, key) == {r \in {e[2] : e \in index} : <<key, r>> \in index}

\* VerifyLeaf: a leaf does not conflict if one of its row ids is deleted.
VerifyAppend(index, key, deleted) ==
    \/ Lookup(index, key) = {}
    \/ Lookup(index, key) \cap Lookup(deleted, key) # {}

\* Insert into a unique index.  A leaf that has two rows already is corrupt.
InsertConflicts(index, key, deleted) == ~VerifyAppend(index, key, deleted)
InsertCorrupts(index, key) == Cardinality(Lookup(index, key)) > 1

\* BoundIndex::Append without a delete index, for several entries.
AppendConflicts(index, entries) ==
    \E e \in entries : Lookup(index, e[1]) # {} \/ \E f \in entries \ {e} : f[1] = e[1]

\* BoundIndex::Delete throws if an entry is not there.
DeleteFails(index, entries) == ~(entries \subseteq index)

\* A delta index is a unique_ptr: <<>>, or <<index>>.
Exists(ptr) == ptr # <<>>
Entries(ptr) == IF Exists(ptr) THEN ptr[1] ELSE {}

-----------------------------------------------------------------------------
(* Rows and transactions *)

Never == Infinity

NewRow(key) == [key |-> key, inserted |-> Infinity, deleter |-> NoTxn, deleted |-> Never]
RowIds == DOMAIN rows
EntryOf(r) == <<rows[r].key, r>>
EntriesOf(R) == {EntryOf(r) : r \in R}

Running == {t \in Txns : status[t] \in {"active", "invalidated"}}

Visible(t) == {r \in RowIds : /\ rows[r].inserted < start_time[t]
                              /\ rows[r].deleter # t
                              /\ ~(rows[r].deleted < start_time[t])}

\* The rows of row group g.
RowGroup(g) == {r \in RowIds : /\ r >= row_groups[g]
                               /\ g < Len(row_groups) => r < row_groups[g + 1]}

DeletedBy(t) == UNION Range(undo_buffer[t])
DeleteIndex(t) == EntriesOf(DeletedBy(t))

\* The transaction lock is held from the commit id to the end of the commit.
TransactionLockFree == commit.pc # "undo"
\* The table's checkpoint lock: shared during an append, exclusive in WriteTable.
TableLockShared == commit.pc \in {"locked", "indexes"}
TableLockExclusive == checkpoint.pc \in {"table", "row_groups"}

\* current_start_timestamp++
DrawTimestamp ==
    /\ current_start_timestamp + 1 < Infinity
    /\ current_start_timestamp' = current_start_timestamp + 1

\* The first rows of row groups, from row first to row last.
RowGroupsFrom(first, last) ==
    IF first > last THEN <<>>
    ELSE [g \in 1 .. (last - first) \div RowGroupSize + 1 |-> first + (g - 1) * RowGroupSize]

NoCommit == [txn |-> NoTxn, pc |-> "none", checkpoint_id |-> Infinity, row_start |-> 0,
             chunks |-> 0, entries |-> 0, appended |-> FALSE]

\* left: checkpoints left (a bound); bind: start time of the bind transaction, 0 if
\* none; written: the rows written; index: the index written.
NoCheckpoint == [pc |-> "idle", left |-> 0, statement |-> FALSE, id |-> 0, bind |-> 0,
                 written |-> {}, index |-> {}]

Init ==
    /\ current_start_timestamp = 2 /\ last_commit = 0 /\ active_checkpoint = Infinity
    /\ status = [t \in Txns |-> "idle"]
    /\ start_time = [t \in Txns |-> 0] /\ commit_id = [t \in Txns |-> 0]
    /\ undo_buffer = [t \in Txns |-> <<>>] /\ local_storage = [t \in Txns |-> <<>>]
    /\ active_transaction_state = [t \in Txns |-> "unset"]
    /\ cleanup = [t \in Txns |-> "none"]
    /\ \E keys \in InitialKeys :
        rows = [r \in DOMAIN keys |-> [NewRow(keys[r]) EXCEPT !.inserted = 0]]
    /\ row_groups = RowGroupsFrom(1, Len(rows))
    /\ require_new = FALSE
    /\ last_seen_checkpoint = Infinity /\ checkpoint_row_group_count = 0
    /\ entry = [index |-> EntriesOf(RowIds), deleted_rows_in_use |-> <<>>,
                added |-> <<>>, removed |-> <<>>, last_written |-> Infinity]
    /\ commit = NoCommit
    /\ wal = FALSE /\ checkpoint_wal = FALSE
    /\ checkpoint = [NoCheckpoint EXCEPT !.left = MaxCheckpoints]
    /\ fatal = FALSE
    /\ behaviours \in Scenarios

-----------------------------------------------------------------------------
(* IndexEntry *)

\* While a checkpoint is active and its deltas have not been merged, the index
\* is left alone and the delta indexes take the changes.
UseDeltas(e, checkpoint_id) == checkpoint_id # Infinity /\ e.last_written # checkpoint_id

\* RemoveFromIndexes while the deltas are in use: rows inserted during the
\* checkpoint are taken out of added, all others are noted in removed.
RemoveFromDeltas(e, type, E) ==
    LET found == E \cap Entries(e.added)
        new == [e EXCEPT
            !.added = IF Exists(@) THEN <<Entries(@) \ E>> ELSE @,
            !.removed = <<IF found = {} THEN Entries(@) \cup E ELSE Entries(@)>>,
            !.deleted_rows_in_use = IF type = "MAIN_INDEX" THEN <<Entries(@) \cup E>> ELSE @]
    IN  [entry |-> new,
         error |-> found \notin {{}, E} \/ (found = {} /\ AppendConflicts(Entries(e.removed), E))]

RevertInDeltas(e, type, E) ==
    LET found == E \cap Entries(e.removed)
        readd == Exists(e.added) /\ found = {}
        new == [e EXCEPT
            !.removed = <<Entries(@) \ E>>,
            !.added = IF readd THEN <<Entries(@) \cup E>> ELSE @,
            !.deleted_rows_in_use = IF type = "REVERT_MAIN_INDEX" THEN <<Entries(@) \ E>> ELSE @]
    IN  [entry |-> new,
         error |-> \/ found \notin {{}, E}
                   \/ readd /\ AppendConflicts(Entries(e.added), E)
                   \/ type = "REVERT_MAIN_INDEX" /\ DeleteFails(Entries(e.deleted_rows_in_use), E)]

RemoveFromIndexes(e, type, E, checkpoint_id) ==
    IF type \in {"MAIN_INDEX", "MAIN_INDEX_ONLY"}
    THEN IF UseDeltas(e, checkpoint_id) THEN RemoveFromDeltas(e, type, E)
         ELSE [entry |-> [e EXCEPT
                    !.index = @ \ E,
                    !.deleted_rows_in_use = IF type = "MAIN_INDEX" THEN <<Entries(@) \cup E>> ELSE @],
               error |-> DeleteFails(e.index, E)]
    ELSE IF UseDeltas(e, checkpoint_id) THEN RevertInDeltas(e, type, E)
         ELSE [entry |-> [e EXCEPT
                    !.index = @ \cup E,
                    !.deleted_rows_in_use = IF type = "REVERT_MAIN_INDEX" THEN <<Entries(@) \ E>> ELSE @],
               error |-> \/ AppendConflicts(e.index, E)
                         \/ /\ type = "REVERT_MAIN_INDEX"
                            /\ DeleteFails(Entries(e.deleted_rows_in_use), E)]

\* Mutant: an append is taken back from the index, always.
RemoveAppendedFromIndex(e, E) == [entry |-> [e EXCEPT !.index = @ \ E], error |-> FALSE]

\* RevertAppend: an append is taken back from added if there is one.
RemoveAppended(e, E) ==
    IF Exists(e.added)
    THEN [entry |-> [e EXCEPT !.added = <<Entries(@) \ E>>], error |-> DeleteFails(Entries(e.added), E)]
    ELSE [entry |-> [e EXCEPT !.index = @ \ E], error |-> DeleteFails(e.index, E)]

\* Mutant: deleted rows are not kept for the transactions that still see them.
GetIndexRemovalTypeOnly(state, mode) ==
    IF mode = "COMMIT" THEN "MAIN_INDEX_ONLY" ELSE "REVERT_MAIN_INDEX_ONLY"

GetIndexRemovalType(state, mode) ==
    IF mode = "COMMIT"
    THEN IF state = "none" THEN "MAIN_INDEX_ONLY" ELSE "MAIN_INDEX"
    ELSE IF state = "none" THEN "REVERT_MAIN_INDEX_ONLY" ELSE "REVERT_MAIN_INDEX"

-----------------------------------------------------------------------------
(* Statements *)

StartTransaction(t) ==
    /\ status[t] = "idle"
    /\ TransactionLockFree
    /\ status' = [status EXCEPT ![t] = "active"]
    /\ start_time' = [start_time EXCEPT ![t] = current_start_timestamp]
    /\ DrawTimestamp
    /\ UNCHANGED <<last_commit, active_checkpoint, commit_id, undo_buffer, local_storage,
                   active_transaction_state, cleanup, table, entry, commit, wal, checkpoint_wal,
                   checkpoint, fatal, behaviours>>

\* Rows of one row group, hence of one DeleteInfo.  Somebody else's delete is a
\* conflict, after which the transaction can only roll back.
Delete(t, g, R) ==
    LET conflict == \E r \in R : rows[r].deleter # NoTxn
    IN  /\ status[t] = "active" /\ commit.txn # t
        /\ ~TableLockExclusive
        /\ Len(undo_buffer[t]) < MaxDeletes
        /\ R \subseteq RowGroup(g) \cap Visible(t)
        /\ IF conflict
           THEN /\ status' = [status EXCEPT ![t] = "invalidated"]
                /\ UNCHANGED <<rows, undo_buffer>>
           ELSE /\ rows' = [r \in RowIds |-> IF r \in R THEN [rows[r] EXCEPT !.deleter = t] ELSE rows[r]]
                /\ undo_buffer' = [undo_buffer EXCEPT ![t] = Append(@, R)]
                /\ UNCHANGED status
        /\ UNCHANGED <<manager, start_time, commit_id, local_storage, active_transaction_state, cleanup,
                       row_groups, require_new, last_seen_checkpoint, checkpoint_row_group_count,
                       entry, commit, wal, checkpoint_wal, checkpoint, fatal, behaviours>>

\* VerifyUniqueIndexes looks at the index and not at added; what it misses is
\* found when the insert is committed.
Insert(t, key) ==
    /\ status[t] = "active" /\ commit.txn # t
    /\ Len(rows) + SumFunction([u \in Txns |-> Len(local_storage[u])]) < MaxRows
    /\ IF /\ VerifyAppend(entry.index, key, DeleteIndex(t) \cup Entries(entry.removed))
          /\ ~Contains(local_storage[t], key)
       THEN /\ local_storage' = [local_storage EXCEPT ![t] = Append(@, key)]
            /\ UNCHANGED status
       ELSE /\ status' = [status EXCEPT ![t] = "invalidated"]
            /\ UNCHANGED local_storage
    /\ UNCHANGED <<manager, start_time, commit_id, undo_buffer, active_transaction_state, cleanup, table,
                   entry, commit, wal, checkpoint_wal, checkpoint, fatal, behaviours>>

-----------------------------------------------------------------------------
(* The end of a transaction *)

ActiveStarts(t) == {start_time[u] : u \in Running \ {t}} \cup ({checkpoint.bind} \ {0})

\* RemoveTransaction: a committed transaction whose deletes are in the index is
\* stored; stored transactions that everybody sees are scheduled for cleanup.
RemoveTransaction(t, id) ==
    LET lowest == Min({Infinity, active_checkpoint} \cup ActiveStarts(t))
        stored == {u \in Txns : cleanup[u] = "stored"}
                    \cup (IF id # 0 /\ undo_buffer[t] # <<>> THEN {t} ELSE {})
        committed == [commit_id EXCEPT ![t] = id]
    IN  /\ status' = [status EXCEPT ![t] = "done"]
        /\ commit_id' = [committed EXCEPT ![t] = IF t \in stored THEN id ELSE 0]
        /\ start_time' = [start_time EXCEPT ![t] = 0]
        /\ local_storage' = [local_storage EXCEPT ![t] = <<>>]
        /\ active_transaction_state' = [active_transaction_state EXCEPT ![t] =
                                            IF t \in stored THEN @ ELSE "unset"]
        /\ cleanup' = [u \in Txns |-> IF u \notin stored THEN cleanup[u]
                                      ELSE IF committed[u] < lowest THEN "scheduled" ELSE "stored"]

HasChanges(t) == undo_buffer[t] # <<>> \/ local_storage[t] # <<>>

CommitReadOnly(t) ==
    /\ status[t] = "active" /\ ~HasChanges(t)
    /\ TransactionLockFree
    /\ DrawTimestamp
    /\ last_commit' = current_start_timestamp
    /\ RemoveTransaction(t, current_start_timestamp)
    /\ UNCHANGED <<active_checkpoint, undo_buffer, table, entry,
                   commit, wal, checkpoint_wal, checkpoint, fatal, behaviours>>

\* The rows without the marks of t's deletes.
Undeleted(t) == [r \in RowIds |-> IF rows[r].deleter = t
                                  THEN [rows[r] EXCEPT !.deleter = NoTxn, !.deleted = Never]
                                  ELSE rows[r]]

RollbackTransaction(t) ==
    /\ t \in Running /\ commit.txn # t
    /\ TransactionLockFree
    /\ rows' = Undeleted(t)
    /\ RemoveTransaction(t, 0)
    /\ undo_buffer' = [undo_buffer EXCEPT ![t] = <<>>]
    /\ UNCHANGED <<manager, row_groups, require_new,
                   last_seen_checkpoint, checkpoint_row_group_count, entry, commit, wal,
                   checkpoint_wal, checkpoint, fatal, behaviours>>

\* The cleanup queue: the deletes of t leave deleted_rows_in_use.
CleanupDelete(t, used) ==
    LET E == DeleteIndex(t)
        in_use == entry.deleted_rows_in_use
    IN  /\ cleanup[t] = "scheduled"
        /\ cleanup' = [cleanup EXCEPT ![t] = "none"]
        /\ IF used /\ Exists(in_use)
           THEN /\ entry' = [entry EXCEPT !.deleted_rows_in_use = <<Entries(in_use) \ E>>]
                /\ fatal' = DeleteFails(Entries(in_use), E)
           ELSE UNCHANGED <<entry, fatal>>
        /\ commit_id' = [commit_id EXCEPT ![t] = 0]
        /\ active_transaction_state' = [active_transaction_state EXCEPT ![t] = "unset"]
        /\ undo_buffer' = [undo_buffer EXCEPT ![t] = <<>>]
        /\ UNCHANGED <<manager, status, start_time, local_storage, table, commit, wal,
                       checkpoint_wal, checkpoint, behaviours>>

\* Mutant: without the early return for deletes that are not in it.
CleanupAlways(t) == CleanupDelete(t, TRUE)

Cleanup(t) == CleanupDelete(t, active_transaction_state[t] = "others")

-----------------------------------------------------------------------------
(* A commit with changes *)

T == commit.txn
Chunks == local_storage[T]
LocalRows == commit.row_start + 1 .. commit.row_start + commit.chunks

\* Mutant: only the index that is appended to is looked at.
AppendConflictInTarget(t, key, checkpoint_id) ==
    InsertConflicts(IF UseDeltas(entry, checkpoint_id) THEN Entries(entry.added) ELSE entry.index,
                    key, DeleteIndex(t))

\* VerifyAppend of the index while its deltas are in use, then the insert.
AppendConflict(t, key, checkpoint_id) ==
    LET deltas == UseDeltas(entry, checkpoint_id)
        target == IF deltas THEN Entries(entry.added) ELSE entry.index
    IN  \/ deltas /\ ~VerifyAppend(entry.index, key, DeleteIndex(t) \cup Entries(entry.removed))
        \/ InsertConflicts(target, key, DeleteIndex(t))

\* A later chunk will be a conflict when the chunks before it are in added.  No
\* other transaction commits in between, so that it is known in advance.
LateConflict(t) ==
    /\ UseDeltas(entry, active_checkpoint)
    /\ \E i \in 2 .. Len(local_storage[t]) : AppendConflict(t, local_storage[t][i], active_checkpoint)

\* CommitTransaction takes the WAL lock; LocalStorage::Flush follows if there
\* are inserts.
BeginCommit(t) ==
    /\ status[t] = "active" /\ HasChanges(t)
    /\ commit.txn = NoTxn
    /\ LateConflict(t) => "late_conflict" \in behaviours
    /\ commit' = [NoCommit EXCEPT !.txn = t,
                                  !.pc = IF local_storage[t] = <<>> THEN "written" ELSE "flush"]
    /\ UNCHANGED <<manager, transactions, table, entry, wal, checkpoint_wal, checkpoint, fatal,
                   behaviours>>

\* Mutant: the first append of a checkpoint opens a row group, no other one does.
AppendRequiresNewRowGroupOnce ==
    active_checkpoint # Infinity /\ last_seen_checkpoint # active_checkpoint

AppendRequiresNewRowGroup ==
    /\ active_checkpoint # Infinity
    /\ last_seen_checkpoint = active_checkpoint => Len(row_groups) <= checkpoint_row_group_count

AppendLock ==
    LET first == active_checkpoint # Infinity /\ last_seen_checkpoint # active_checkpoint
    IN  /\ commit.pc = "flush"
        /\ ~TableLockExclusive
        /\ commit' = [commit EXCEPT !.pc = "locked", !.row_start = Len(rows)]
        /\ require_new' = (require_new \/ AppendRequiresNewRowGroup)
        /\ last_seen_checkpoint' = IF first THEN active_checkpoint ELSE last_seen_checkpoint
        /\ checkpoint_row_group_count' = IF first THEN Len(row_groups) ELSE checkpoint_row_group_count
        /\ UNCHANGED <<manager, transactions, rows, row_groups, entry, wal, checkpoint_wal,
                       checkpoint, fatal, behaviours>>

\* LocalTableStorage::AppendToIndexes reads the checkpoint id once.
GetActiveCheckpoint ==
    /\ commit.pc = "locked"
    /\ commit' = [commit EXCEPT !.pc = "indexes", !.checkpoint_id = active_checkpoint]
    /\ UNCHANGED <<manager, transactions, table, entry, wal, checkpoint_wal, checkpoint, fatal,
                   behaviours>>

\* One chunk.  A duplicate key makes the commit fail: RevertIndexAppend takes
\* the chunks before it out of the index, and stops at one that is not there.
AppendToIndexes ==
    LET key == Chunks[commit.chunks + 1]
        row == commit.row_start + commit.chunks + 1
        deltas == UseDeltas(entry, commit.checkpoint_id)
        target == IF deltas THEN Entries(entry.added) ELSE entry.index
        conflict == AppendConflict(T, key, commit.checkpoint_id)
        opened == IF deltas THEN [entry EXCEPT !.added = <<Entries(@)>>] ELSE entry
        appended == {<<Chunks[i], commit.row_start + i>> : i \in 1 .. commit.chunks}
    IN  /\ commit.pc = "indexes" /\ commit.chunks < Len(Chunks)
        /\ fatal' = (~conflict /\ InsertCorrupts(target, key))
        /\ IF conflict
           THEN /\ entry' = [opened EXCEPT !.index = @ \ appended]
                /\ commit' = [commit EXCEPT !.pc = "failed"]
           ELSE /\ entry' = IF deltas THEN [opened EXCEPT !.added = <<Entries(@) \cup {<<key, row>>}>>]
                            ELSE [opened EXCEPT !.index = @ \cup {<<key, row>>}]
                /\ commit' = [commit EXCEPT !.chunks = @ + 1]
        /\ UNCHANGED <<manager, transactions, table, wal, checkpoint_wal, checkpoint, behaviours>>

\* AppendToTable fills up the last row group, unless a new one is required.
\* MergeStorage, for a table that is empty and for a bulk append, moves the row
\* groups of the local storage over.
MergeStorage == Len(rows) = 0 \/ Len(Chunks) >= RowGroupSize

RowGroupStarts ==
    LET n == Len(rows)
        last == row_groups[Len(row_groups)]
        first == IF MergeStorage \/ row_groups = <<>> \/ require_new THEN n + 1 ELSE last + RowGroupSize
    IN  RowGroupsFrom(first, n + Len(Chunks))

\* The rows are invisible until the commit.  AppendRowGroup resets the append
\* mode, and so does MergeStorage of row groups that are on disk.
AppendToTable ==
    /\ commit.pc = "indexes" /\ commit.chunks = Len(Chunks)
    /\ rows' = rows \o [i \in 1 .. Len(Chunks) |-> NewRow(Chunks[i])]
    /\ row_groups' = row_groups \o RowGroupStarts
    /\ require_new' \in (IF MergeStorage THEN {require_new, FALSE} ELSE {FALSE})
    /\ commit' = [commit EXCEPT !.pc = "written", !.appended = TRUE]
    /\ UNCHANGED <<manager, transactions, last_seen_checkpoint, checkpoint_row_group_count, entry,
                   wal, checkpoint_wal, checkpoint, fatal, behaviours>>

\* The transaction lock is taken and a commit id is drawn.
StartUndoCommit ==
    /\ commit.pc = "written"
    /\ commit' = [commit EXCEPT !.pc = "undo"]
    /\ active_transaction_state' = [active_transaction_state EXCEPT ![T] =
                                        IF ActiveStarts(T) = {} THEN "none" ELSE "others"]
    /\ UNCHANGED <<manager, status, start_time, commit_id, undo_buffer, local_storage, cleanup, table,
                   entry, wal, checkpoint_wal, checkpoint, fatal, behaviours>>

\* CommitState::CommitDelete, for the next DeleteInfo.
CommitDelete ==
    LET R == undo_buffer[T][commit.entries + 1]
        removal == RemoveFromIndexes(entry, GetIndexRemovalType(active_transaction_state[T], "COMMIT"),
                                     EntriesOf(R), active_checkpoint)
    IN  /\ commit.pc = "undo" /\ commit.entries < Len(undo_buffer[T])
        /\ rows' = [r \in RowIds |-> IF r \in R THEN [rows[r] EXCEPT !.deleted = current_start_timestamp]
                                     ELSE rows[r]]
        /\ entry' = removal.entry
        /\ fatal' = removal.error
        /\ commit' = [commit EXCEPT !.entries = @ + 1]
        /\ UNCHANGED <<manager, transactions, row_groups, require_new, last_seen_checkpoint,
                       checkpoint_row_group_count, wal, checkpoint_wal, checkpoint, behaviours>>

UndoCommitted == commit.pc = "undo" /\ commit.entries = Len(undo_buffer[T])

\* A commit may start an automatic checkpoint.
AutomaticCheckpoint ==
    \/ UNCHANGED checkpoint
    \/ /\ "automatic" \in behaviours
       /\ checkpoint.pc = "idle" /\ checkpoint.left > 0
       /\ checkpoint' = [checkpoint EXCEPT !.pc = "decided", !.statement = FALSE]

\* The commits are in the checkpoint WAL from the start of a checkpoint to
\* WALFinishCheckpoint.
WALSwitched == checkpoint.pc \in {"started", "table", "row_groups", "tables_written"}

\* CommitAppend, FlushCommit and the end of the transaction.
FlushCommit ==
    LET id == current_start_timestamp
    IN  /\ UndoCommitted
        /\ rows' = [r \in RowIds |-> IF commit.appended /\ r \in LocalRows
                                     THEN [rows[r] EXCEPT !.inserted = id] ELSE rows[r]]
        /\ last_commit' = id
        /\ DrawTimestamp
        /\ RemoveTransaction(T, id)
        /\ AutomaticCheckpoint
        /\ wal' = (wal \/ ~WALSwitched)
        /\ checkpoint_wal' = (checkpoint_wal \/ WALSwitched)
        /\ commit' = NoCommit
        /\ UNCHANGED <<active_checkpoint, undo_buffer, row_groups,
                       require_new, last_seen_checkpoint, checkpoint_row_group_count, entry, fatal,
                       behaviours>>
\* The transaction of a commit that failed is rolled back; an append that is in
\* its undo buffer is taken out of the indexes and the table.
RollbackCommit(e, error) ==
    LET undone == IF commit.appended THEN RemoveAppended(e, EntriesOf(LocalRows))
                  ELSE [entry |-> e, error |-> FALSE]
    IN  /\ commit.appended => ~TableLockExclusive
        /\ entry' = undone.entry
        /\ fatal' = (error \/ undone.error)
        /\ rows' = IF commit.appended THEN SubSeq(Undeleted(T), 1, commit.row_start) ELSE Undeleted(T)
        /\ \E n \in 0 .. Len(row_groups) :
              /\ row_groups' = SubSeq(row_groups, 1, n)
              /\ \A g \in DOMAIN row_groups :
                    g <= n <=> (commit.appended => row_groups[g] <= commit.row_start)
        /\ DrawTimestamp
        /\ RemoveTransaction(T, 0)
        /\ undo_buffer' = [undo_buffer EXCEPT ![T] = <<>>]
        /\ commit' = NoCommit
        /\ UNCHANGED <<last_commit, active_checkpoint, require_new,
                       last_seen_checkpoint, checkpoint_row_group_count, wal, checkpoint_wal,
                       checkpoint, behaviours>>

\* The append to the indexes has found a duplicate key.
AppendFails == commit.pc = "failed" /\ RollbackCommit(entry, FALSE)

WriteFails ==
    /\ "write_fail" \in behaviours
    /\ commit.pc = "written"
    /\ RollbackCommit(entry, FALSE)

\* FlushCommit fails: RevertCommit takes the entries of the undo buffer back in
\* the order in which they were made, then the transaction is rolled back.
\* A key of the transaction is in the index twice: the entry of the row that it
\* has deleted will be appended next to the entry of the row it has inserted.
Replaces(t) ==
    \E r \in DeletedBy(t) : /\ Contains(local_storage[t], rows[r].key)
                            /\ EntryOf(r) \notin Entries(entry.removed)

RevertCommitDelete(acc, R) ==
    LET type == GetIndexRemovalType(active_transaction_state[T], "REVERT_COMMIT")
        removal == RemoveFromIndexes(acc.entry, type, EntriesOf(R), active_checkpoint)
    IN  [entry |-> removal.entry, error |-> acc.error \/ removal.error]

FlushFails ==
    LET after[i \in 0 .. Len(undo_buffer[T])] ==
            IF i = 0 THEN [entry |-> entry, error |-> FALSE]
            ELSE RevertCommitDelete(after[i - 1], undo_buffer[T][i])
        reverted == after[Len(undo_buffer[T])]
    IN  /\ "flush_fail" \in behaviours
        /\ UndoCommitted
        /\ Replaces(T) => "replace" \in behaviours
        /\ RollbackCommit(reverted.entry, reverted.error)

-----------------------------------------------------------------------------
(* A checkpoint *)

\* CHECKPOINT_IF_REQUIRED: there has to be something in the WAL.
CheckpointStatement ==
    /\ "statement" \in behaviours
    /\ checkpoint.pc = "idle" /\ checkpoint.left > 0
    /\ wal
    /\ checkpoint' = [checkpoint EXCEPT !.pc = "decided", !.statement = TRUE]
    /\ UNCHANGED <<manager, transactions, table, entry, commit, wal, checkpoint_wal, fatal,
                   behaviours>>

\* WALStartCheckpoint and GetNewCheckpointId, under the WAL lock.
WALStartCheckpoint ==
    /\ checkpoint.pc = "decided"
    /\ commit.txn = NoTxn
    /\ active_checkpoint' = last_commit
    /\ checkpoint' = [checkpoint EXCEPT !.pc = "started", !.id = last_commit]
    /\ UNCHANGED <<current_start_timestamp, last_commit, transactions, table, entry, commit, wal,
                   checkpoint_wal, fatal, behaviours>>

\* A CHECKPOINT statement has a read-only transaction, a checkpoint at the end of
\* a commit has none.
StartBindTransaction ==
    /\ checkpoint.pc = "started" /\ checkpoint.statement /\ checkpoint.bind = 0
    /\ TransactionLockFree
    /\ checkpoint' = [checkpoint EXCEPT !.bind = current_start_timestamp]
    /\ DrawTimestamp
    /\ UNCHANGED <<last_commit, active_checkpoint, transactions, table, entry, commit, wal,
                   checkpoint_wal, fatal, behaviours>>

\* WriteTable: GetCheckpointLock waits for the appends under way.
GetCheckpointLock ==
    /\ checkpoint.pc = "started" /\ (checkpoint.statement => checkpoint.bind # 0)
    /\ ~TableLockShared
    /\ checkpoint' = [checkpoint EXCEPT !.pc = "table"]
    /\ UNCHANGED <<manager, transactions, table, entry, commit, wal, checkpoint_wal, fatal, behaviours>>

\* DataTable::Checkpoint: row groups appended after the start of the checkpoint
\* are left out.
CheckpointRowGroups ==
    LET n == IF last_seen_checkpoint = checkpoint.id THEN checkpoint_row_group_count
             ELSE Len(row_groups)
    IN  /\ checkpoint.pc = "table"
        /\ checkpoint' = [checkpoint EXCEPT !.pc = "row_groups",
                                            !.written = UNION {RowGroup(g) : g \in 1 .. n}]
        /\ require_new' = FALSE
        /\ UNCHANGED <<manager, transactions, rows, row_groups, last_seen_checkpoint,
                       checkpoint_row_group_count, entry, commit, wal, checkpoint_wal, fatal,
                       behaviours>>

\* FinalizeTable; the table lock is released.
SerializeToDisk ==
    /\ checkpoint.pc = "row_groups"
    /\ checkpoint' = [checkpoint EXCEPT !.pc = "tables_written", !.index = entry.index]
    /\ UNCHANGED <<manager, transactions, table, entry, commit, wal, checkpoint_wal, fatal, behaviours>>

\* WALFinishCheckpoint, under the WAL lock, which is then released.
WALFinishCheckpoint ==
    /\ checkpoint.pc = "tables_written"
    /\ commit.txn = NoTxn
    /\ wal' = checkpoint_wal /\ checkpoint_wal' = FALSE
    /\ checkpoint' = [checkpoint EXCEPT !.pc = "wal_finished"]
    /\ UNCHANGED <<manager, transactions, table, entry, commit, fatal, behaviours>>

\* A unique index takes the added entries with INSERT_DUPLICATES; a leaf that has
\* two rows already is corrupt.
MergeCheckpointDeltas ==
    LET kept == entry.index \ Entries(entry.removed)
    IN  /\ checkpoint.pc = "wal_finished"
        /\ entry' = [entry EXCEPT !.index = kept \cup Entries(entry.added),
                                  !.removed = <<>>, !.added = <<>>,
                                  !.last_written = checkpoint.id]
        /\ fatal' = \/ ~(Entries(entry.removed) \subseteq entry.index)
                    \/ \E e \in Entries(entry.added) : InsertCorrupts(kept, e[1])
        /\ checkpoint' = [checkpoint EXCEPT !.pc = "merged", !.written = {}, !.index = {}]
        /\ UNCHANGED <<manager, transactions, table, commit, wal, checkpoint_wal, behaviours>>

CommitBindTransaction ==
    LET lowest == Min({Infinity, active_checkpoint} \cup {start_time[u] : u \in Running})
    IN  /\ checkpoint.pc = "merged" /\ checkpoint.bind # 0
        /\ TransactionLockFree
        /\ DrawTimestamp
        /\ last_commit' = current_start_timestamp
        /\ cleanup' = [u \in Txns |-> IF cleanup[u] = "stored" /\ commit_id[u] < lowest
                                      THEN "scheduled" ELSE cleanup[u]]
        /\ checkpoint' = [checkpoint EXCEPT !.bind = 0]
        /\ UNCHANGED <<active_checkpoint, status, start_time, commit_id, undo_buffer, local_storage,
                       active_transaction_state, table, entry, commit, wal, checkpoint_wal, fatal,
                       behaviours>>

ResetCheckpointId ==
    /\ checkpoint.pc = "merged" /\ checkpoint.bind = 0
    /\ active_checkpoint' = Infinity
    /\ checkpoint' = [NoCheckpoint EXCEPT !.left = checkpoint.left - 1]
    /\ UNCHANGED <<current_start_timestamp, last_commit, transactions, table, entry, commit, wal,
                   checkpoint_wal, fatal, behaviours>>

-----------------------------------------------------------------------------

Checkpoint ==
    \/ CheckpointStatement
    \/ WALStartCheckpoint
    \/ StartBindTransaction
    \/ GetCheckpointLock
    \/ CheckpointRowGroups
    \/ SerializeToDisk
    \/ WALFinishCheckpoint
    \/ MergeCheckpointDeltas
    \/ CommitBindTransaction
    \/ ResetCheckpointId

CommitStep ==
    \/ AppendLock
    \/ GetActiveCheckpoint
    \/ AppendToIndexes
    \/ AppendToTable
    \/ StartUndoCommit
    \/ CommitDelete
    \/ FlushCommit
    \/ AppendFails
    \/ WriteFails
    \/ FlushFails

Statement(t) ==
    \/ StartTransaction(t)
    \/ \E g \in DOMAIN row_groups : \E R \in SUBSET RowGroup(g) \ {{}} : Delete(t, g, R)
    \/ \E key \in Keys : Insert(t, key)
    \/ CommitReadOnly(t)
    \/ RollbackTransaction(t)
    \/ BeginCommit(t)
    \/ Cleanup(t)

\* Everything has come to an end.
Terminating ==
    /\ \A t \in Txns : status[t] = "done" /\ cleanup[t] # "scheduled"
    /\ checkpoint.pc = "idle"
    /\ UNCHANGED vars

Next == ~fatal /\ (Checkpoint \/ CommitStep \/ (\E t \in Txns : Statement(t)) \/ Terminating)

Spec == Init /\ [][Next]_vars

-----------------------------------------------------------------------------

\* Every variable has the type that its declaration in the code gives it; an
\* index never has an entry without a row id.
TypeOK ==
    /\ {current_start_timestamp, last_commit, active_checkpoint, last_seen_checkpoint,
        checkpoint_row_group_count} \subseteq Nat
    /\ \A t \in Txns :
        /\ status[t] \in {"idle", "active", "invalidated", "done"}
        /\ {start_time[t], commit_id[t]} \subseteq Nat
        /\ DeletedBy(t) \subseteq RowIds
        /\ Range(local_storage[t]) \subseteq Keys
        /\ active_transaction_state[t] \in {"unset", "none", "others"}
        /\ cleanup[t] \in {"none", "stored", "scheduled"}
    /\ \A r \in RowIds : /\ rows[r].key \in Keys
                          /\ {rows[r].inserted, rows[r].deleted} \subseteq 0 .. Infinity
                          /\ rows[r].deleter \in Txns \cup {NoTxn}
    /\ Range(row_groups) \subseteq RowIds
    /\ entry.index \in Index
    /\ \A ptr \in {entry.deleted_rows_in_use, entry.added, entry.removed} :
            Exists(ptr) => Len(ptr) = 1 /\ ptr[1] \in Index
    /\ commit.txn \in Txns \cup {NoTxn}
    /\ commit.pc \in {"none", "flush", "locked", "indexes", "failed", "written", "undo"}
    /\ checkpoint.pc \in {"idle", "decided", "started", "table", "row_groups", "tables_written",
                          "wal_finished", "merged"}
    /\ {require_new, wal, checkpoint_wal, fatal} \subseteq BOOLEAN

\* TryScanIndex: an index scan looks at the index, at deleted_rows_in_use and at
\* added.  For every running transaction it finds every row that the
\* transaction sees, whatever commits, checkpoints and cleanups are under way.
IndexScanComplete ==
    \A t \in Running :
        EntriesOf(Visible(t)) \subseteq
            entry.index \cup Entries(entry.deleted_rows_in_use) \cup Entries(entry.added)

\* Types hold, and when no commit is under way, the index with its deltas has the committed rows
\* and nothing else, and deleted_rows_in_use the deletes that await cleanup.
IndexEntriesExact ==
    /\ TypeOK
    /\ commit.txn = NoTxn =>
        /\ (entry.index \ Entries(entry.removed)) \cup Entries(entry.added) =
                EntriesOf({r \in RowIds : rows[r].deleted = Never})
        /\ Entries(entry.deleted_rows_in_use) =
                UNION {DeleteIndex(t) : t \in {u \in Txns : /\ cleanup[u] # "none"
                                                           /\ active_transaction_state[u] = "others"}}

\* storage_manager.cpp:212 of the checkpoint id: "everything in this commit will
\* be written to the file".  And nothing else is: the WAL that is kept has the
\* later commits and would apply them again.
CheckpointImageExact ==
    LET inserted == {r \in RowIds : rows[r].inserted <= checkpoint.id}
    IN  checkpoint.pc = "tables_written" =>
            /\ checkpoint.written = inserted
            /\ checkpoint.index = EntriesOf({r \in inserted : rows[r].deleted > checkpoint.id})

\* The index is unique: no two rows of a key are ever visible together.
UniqueKeys ==
    \A r, s \in RowIds :
        r # s /\ rows[r].key = rows[s].key /\ rows[r].inserted <= rows[s].inserted =>
            rows[s].inserted = Infinity \/ rows[r].deleted <= rows[s].inserted

\* The InternalExceptions and FatalExceptions of index maintenance ("it should not
\* be possible to get here", row_group_collection.cpp:1043) are never thrown.
NoIndexError == ~fatal
=============================================================================
