---------------------- MODULE TableIndexListProofs ----------------------
(***************************************************************************)
(* The unique index of a table, for any keys, transactions, row groups and *)
(* checkpoints: an index and its delta indexes have exactly the rows that  *)
(* they should, commits that fail and checkpoints under way included, and  *)
(* a checkpoint writes the table as it was at its id.                      *)
(*                                                                         *)
(* The core is Indexed: which rows are in which index, from the ids of the *)
(* rows alone.                                                             *)
(***************************************************************************)
EXTENDS TableIndexList, FiniteSetTheorems, SequenceTheorems, WellFoundedInduction, TLAPS

\* Behaviours without the two deviations that are known.
Regular == behaviours \cap {"late_conflict", "replace"} = {}

-----------------------------------------------------------------------------
(* The invariant *)

Statuses == {"idle", "active", "invalidated", "done"}
CommitPCs == {"none", "flush", "locked", "indexes", "failed", "written", "undo"}
CheckpointPCs == {"idle", "decided", "started", "table", "row_groups", "tables_written",
                  "wal_finished", "merged"}
Ids == 0 .. Infinity
RowRecords == [key : Keys, inserted : Ids, deleter : Txns \cup {NoTxn}, deleted : Ids]
Ptrs == {<<>>} \cup {<<E>> : E \in Index}
IndexEntries == [index : Index, deleted_rows_in_use : Ptrs, added : Ptrs, removed : Ptrs,
                 last_written : Ids]
CommitStates == [txn : Txns \cup {NoTxn}, pc : CommitPCs, checkpoint_id : Ids, row_start : Nat,
                 chunks : Nat, entries : Nat, appended : BOOLEAN]
CheckpointStates == [pc : CheckpointPCs, left : Nat, statement : BOOLEAN, id : Ids, bind : Nat,
                     written : SUBSET RowId, index : Index]

TransactionTypes ==
    /\ status \in [Txns -> Statuses]
    /\ start_time \in [Txns -> Nat] /\ commit_id \in [Txns -> Nat]
    /\ undo_buffer \in [Txns -> Seq(SUBSET RowId)] /\ local_storage \in [Txns -> Seq(Keys)]
    /\ active_transaction_state \in [Txns -> {"unset", "none", "others"}]
    /\ cleanup \in [Txns -> {"none", "stored", "scheduled"}]

TableTypes ==
    /\ rows \in Seq(RowRecords) /\ row_groups \in Seq(Nat) /\ require_new \in BOOLEAN
    /\ last_seen_checkpoint \in Ids /\ checkpoint_row_group_count \in Nat

Types ==
    /\ current_start_timestamp \in Nat /\ last_commit \in Nat /\ active_checkpoint \in Ids
    /\ TransactionTypes /\ TableTypes
    /\ entry \in IndexEntries /\ commit \in CommitStates /\ checkpoint \in CheckpointStates
    /\ wal \in BOOLEAN /\ checkpoint_wal \in BOOLEAN /\ fatal \in BOOLEAN
    /\ checkpoint.pc # "idle" => checkpoint.left > 0

\* All timestamps come from one counter.  Rows that are not committed are those of the commit.
Times ==
    /\ last_commit < current_start_timestamp /\ current_start_timestamp < Infinity
    /\ \A t \in Running : start_time[t] < current_start_timestamp
    /\ \A t \in Txns : commit_id[t] <= last_commit
    /\ \A r \in RowIds : \/ rows[r].inserted <= last_commit
                         \/ rows[r].inserted = Infinity /\ commit.appended /\ r > commit.row_start
    /\ \A r \in RowIds : \/ rows[r].deleted <= last_commit \/ rows[r].deleted = Never
                         \/ /\ rows[r].deleted = current_start_timestamp
                            /\ commit.pc = "undo" /\ rows[r].deleter = T
    /\ \A r, s \in RowIds : r <= s => rows[r].inserted <= rows[s].inserted

\* The commit under way.
Flushing == {"flush", "locked", "indexes", "failed"}

Appended ==
    commit.appended =>
        /\ commit.chunks = Len(Chunks) /\ Len(rows) = commit.row_start + Len(Chunks)
        /\ \A i \in 1 .. Len(Chunks) : LET row == rows[commit.row_start + i] IN
              /\ row.key = Chunks[i] /\ row.inserted = Infinity
              /\ row.deleter = NoTxn /\ row.deleted = Never

OneCommit ==
    /\ commit.txn = NoTxn => commit = NoCommit
    /\ commit.txn # NoTxn =>
        /\ commit.pc # "none" /\ status[T] = "active" /\ HasChanges(T)
        /\ commit.pc \in Flushing => Chunks # <<>> /\ ~commit.appended
        /\ commit.pc \in {"flush", "locked"} => commit.chunks = 0
        /\ commit.pc \in {"locked", "indexes", "failed"} => commit.row_start = Len(rows)
        /\ commit.pc \in {"written", "undo"} /\ ~commit.appended => Chunks = <<>> /\ commit.chunks = 0
        /\ commit.chunks <= Len(Chunks) /\ commit.entries <= Len(undo_buffer[T])
        /\ commit.pc # "undo" => commit.entries = 0
    /\ Appended

\* The deletes of the transactions, in the rows and in the undo buffers.
Deletes ==
    /\ \A t \in Txns : \A i \in DOMAIN undo_buffer[t] : \A r \in undo_buffer[t][i] :
          r \in RowIds /\ rows[r].deleter = t /\ rows[r].inserted <= last_commit
    /\ \A t \in Txns : \A i, j \in DOMAIN undo_buffer[t] :
          i # j => undo_buffer[t][i] \cap undo_buffer[t][j] = {}
    /\ \A r \in RowIds : rows[r].deleter = NoTxn => rows[r].deleted = Never
    /\ \A t \in Txns, r \in RowIds : rows[r].deleter = t =>
          IF t \in Running
          THEN /\ r \in DeletedBy(t)
               /\ ~(t = T /\ commit.pc = "undo") => rows[r].deleted = Never
          ELSE status[t] = "done" /\ rows[r].deleted <= last_commit
    /\ commit.pc = "undo" => \A i \in DOMAIN undo_buffer[T] : \A r \in undo_buffer[T][i] :
          rows[r].deleted = IF i <= commit.entries THEN current_start_timestamp ELSE Never

Ended ==
    \A t \in Txns :
        /\ status[t] = "idle" => undo_buffer[t] = <<>> /\ local_storage[t] = <<>>
        /\ status[t] = "done" => /\ local_storage[t] = <<>>
                                 /\ cleanup[t] = "none" => undo_buffer[t] = <<>>
        /\ cleanup[t] # "none" => /\ status[t] = "done"
                                  /\ \A r \in DeletedBy(t) : rows[r].deleted = commit_id[t]

\* Who has deleted a row that others still see keeps it in deleted_rows_in_use.
InUse == {r \in RowIds : /\ rows[r].deleted # Never
                         /\ \E t \in Txns : r \in DeletedBy(t) /\ active_transaction_state[t] = "others"}

Kept ==
    /\ \A t \in Running, r \in RowIds :
          start_time[t] <= rows[r].deleted /\ rows[r].deleted # Never /\ rows[r].deleter # t => r \in InUse
    /\ \A t \in Running, u \in Txns : cleanup[u] = "scheduled" => commit_id[u] < start_time[t]
    /\ commit.pc = "undo" => active_transaction_state[T] # "unset"
    /\ \A t \in Running : commit.pc = "undo" /\ t # T => active_transaction_state[T] = "others"

\* The rows whose delete, if there is one, is not committed, and the keys.
Alive == {r \in RowIds : rows[r].deleted = Never \/ (T # NoTxn /\ rows[r].deleter = T)}

Distinct ==
    /\ \A t \in Txns : \A i, j \in 1 .. Len(local_storage[t]) :
          local_storage[t][i] = local_storage[t][j] => i = j
    /\ \A r, s \in Alive : r < s /\ rows[r].key = rows[s].key =>
          commit.appended /\ s > commit.row_start /\ r \in DeletedBy(T)
    /\ commit.pc = "indexes" => \A i \in 1 .. commit.chunks, r \in Alive :
          rows[r].key = Chunks[i] => r \in DeletedBy(T)

\* Row groups.
Groups ==
    /\ \A g \in 1 .. Len(row_groups) : row_groups[g] \in 1 .. Len(rows)
    /\ \A g, h \in 1 .. Len(row_groups) : g < h => row_groups[g] < row_groups[h]
    /\ rows # <<>> => row_groups # <<>> /\ row_groups[1] = 1

\* From the start of a checkpoint until the delta indexes are merged.
Delta == checkpoint.pc \in {"started", "table", "row_groups", "tables_written", "wal_finished"}

Earlier(id, bound) == id = Infinity \/ id < bound

\* The ids of checkpoints: one that starts has an id of its own.
CheckpointIds ==
    /\ active_checkpoint = IF checkpoint.pc \in {"idle", "decided"} THEN Infinity ELSE checkpoint.id
    /\ checkpoint.pc \notin {"idle", "decided"} => checkpoint.id <= last_commit
    /\ ~WALSwitched => ~checkpoint_wal
    /\ WALSwitched /\ checkpoint_wal => checkpoint.id < last_commit
    /\ checkpoint.pc \in {"wal_finished", "merged"} /\ wal => checkpoint.id < last_commit
    /\ Earlier(entry.last_written, last_commit + 1) /\ Earlier(last_seen_checkpoint, last_commit + 1)
    /\ checkpoint.pc = "decided" \/ (checkpoint.pc = "idle" /\ wal) =>
          Earlier(entry.last_written, last_commit) /\ Earlier(last_seen_checkpoint, last_commit)
    /\ Delta => Earlier(entry.last_written, checkpoint.id)
    /\ checkpoint.pc = "merged" => entry.last_written = checkpoint.id
    /\ Delta \/ checkpoint.pc = "merged" => Earlier(last_seen_checkpoint, checkpoint.id + 1)
    /\ commit.pc = "indexes" => \/ commit.checkpoint_id = active_checkpoint
                                \/ active_checkpoint = Infinity /\ commit.checkpoint_id = entry.last_written
    /\ TableLockExclusive => ~TableLockShared

\* The rows of a checkpoint, and of no row group that has others.
Old == {r \in RowIds : rows[r].inserted <= checkpoint.id}

NewGroup(r) == checkpoint_row_group_count < Len(row_groups) /\ r >= row_groups[checkpoint_row_group_count + 1]

Split ==
    Delta =>
        /\ last_seen_checkpoint # checkpoint.id => RowIds \subseteq Old
        /\ last_seen_checkpoint = checkpoint.id =>
              /\ checkpoint_row_group_count <= Len(row_groups)
              /\ \A r \in RowIds : r \in Old <=> ~NewGroup(r)
        /\ \A t \in Running : \A i \in DOMAIN undo_buffer[t] :
              undo_buffer[t][i] \subseteq Old \/ undo_buffer[t][i] \cap Old = {}
        /\ TableLockShared => /\ last_seen_checkpoint = checkpoint.id
                              /\ checkpoint_row_group_count = Len(row_groups) => require_new

Written ==
    /\ checkpoint.pc \in {"row_groups", "tables_written"} => checkpoint.written = Old
    /\ checkpoint.pc = "tables_written" => checkpoint.index = entry.index

\* Which rows are in which index.
Pending == IF commit.pc = "indexes" THEN {<<Chunks[i], commit.row_start + i>> : i \in 1 .. commit.chunks}
           ELSE {}

Live == {r \in RowIds : rows[r].deleted = Never}

Indexed ==
    /\ Entries(entry.deleted_rows_in_use) = EntriesOf(InUse)
    /\ ~Delta => /\ entry.index = EntriesOf(Live) \cup Pending
                 /\ entry.added = <<>> /\ entry.removed = <<>>
    /\ Delta => /\ entry.index = EntriesOf({r \in Old : rows[r].deleted > checkpoint.id})
                /\ Entries(entry.removed) =
                      EntriesOf({r \in Old : rows[r].deleted > checkpoint.id /\ rows[r].deleted # Never})
                /\ Entries(entry.added) = EntriesOf(Live \ Old) \cup Pending
                /\ (RowIds \subseteq Old /\ Pending = {}) \/ Exists(entry.added)

\* A conflict of a commit during a checkpoint is found with the first row.
NoLateConflict ==
    Delta /\ commit.pc \in {"flush", "locked", "indexes"} =>
        \A i \in 2 .. Len(Chunks), r \in Live :
            i > commit.chunks /\ rows[r].key = Chunks[i] => r \in DeletedBy(T)

TableInv ==
    /\ Types /\ Times /\ OneCommit /\ Deletes /\ Ended /\ Kept /\ Distinct /\ UniqueKeys /\ Groups
    /\ CheckpointIds /\ Split /\ Written /\ Indexed /\ NoLateConflict /\ Regular /\ ~fatal

-----------------------------------------------------------------------------
(* Frames: a part of the invariant depends on its variables only *)

\* A step that leaves the manager's clock, the rows and the commit alone keeps Times.
LEMMA FrameTimes ==
    ASSUME Times, UNCHANGED <<current_start_timestamp, last_commit, status, start_time, commit_id, rows, commit>>
    PROVE  Times'
BY DEF Times, Running, RowIds, T, Never

\* The commit under way is described by itself, its transaction and the rows.
LEMMA FrameOneCommit ==
    ASSUME OneCommit, UNCHANGED <<commit, status, undo_buffer, local_storage, rows>>
    PROVE  OneCommit'
BY DEF OneCommit, Appended, Chunks, HasChanges, T, NoCommit, Never, Flushing

\* The deletes depend on the undo buffers, the rows and the commit.
LEMMA FrameDeletes ==
    ASSUME Deletes, UNCHANGED <<undo_buffer, rows, last_commit, status, commit, current_start_timestamp>>
    PROVE  Deletes'
BY DEF Deletes, RowIds, Running, DeletedBy, T, Never

\* What ended transactions keep depends on their own state and on the deleted rows.
LEMMA FrameEnded ==
    ASSUME Ended, UNCHANGED <<status, undo_buffer, local_storage, cleanup, rows, commit_id>>
    PROVE  Ended'
BY DEF Ended, DeletedBy

\* Which deleted rows are kept for readers depends on the transactions and the rows.
LEMMA FrameKept ==
    ASSUME Kept, UNCHANGED <<status, start_time, rows, undo_buffer, active_transaction_state, cleanup,
                             commit_id, commit>>
    PROVE  Kept'
BY DEF Kept, Running, InUse, DeletedBy, T, RowIds, Never

\* That keys do not repeat depends on local storage, the rows and the commit.
LEMMA FrameDistinct ==
    ASSUME Distinct, UNCHANGED <<local_storage, rows, commit, undo_buffer>>
    PROVE  Distinct'
BY DEF Distinct, Alive, DeletedBy, Chunks, T, RowIds, Never

\* That committed keys are unique depends on the rows.
LEMMA FrameUniqueKeys ==
    ASSUME UniqueKeys, UNCHANGED rows
    PROVE  UniqueKeys'
BY DEF UniqueKeys, RowIds

\* The row groups depend on where they start and on the number of rows.
LEMMA FrameGroups ==
    ASSUME Groups, UNCHANGED <<row_groups, rows>>
    PROVE  Groups'
BY DEF Groups

\* The ids of checkpoints depend on the manager, the two WALs, the index entry and the locks.
LEMMA FrameCheckpointIds ==
    ASSUME CheckpointIds, UNCHANGED <<active_checkpoint, checkpoint, last_commit, checkpoint_wal, wal, entry,
                                      last_seen_checkpoint, commit>>
    PROVE  CheckpointIds'
BY DEF CheckpointIds, WALSwitched, Earlier, Delta, TableLockExclusive, TableLockShared

\* The split of the row groups depends on the table, the checkpoint and the undo buffers.
LEMMA FrameSplit ==
    ASSUME Split, UNCHANGED <<checkpoint, last_seen_checkpoint, rows, checkpoint_row_group_count, row_groups,
                              status, undo_buffer, commit, require_new>>
    PROVE  Split'
BY DEF Split, Delta, RowIds, Old, NewGroup, Running, TableLockShared

\* What the checkpoint has written depends on it, the rows and the index.
LEMMA FrameWritten ==
    ASSUME Written, UNCHANGED <<checkpoint, rows, entry>>
    PROVE  Written'
BY DEF Written, Old, RowIds

\* What is indexed depends on the index entry, the rows, the commit and the checkpoint.
LEMMA FrameIndexed ==
    ASSUME Indexed, UNCHANGED <<entry, rows, undo_buffer, active_transaction_state, checkpoint, commit,
                                local_storage>>
    PROVE  Indexed'
BY DEF Indexed, Delta, Old, RowIds, Live, Pending, InUse, DeletedBy, EntriesOf, EntryOf, Chunks, T, Entries, Exists, Never

\* Late conflicts depend on the checkpoint, the commit and the rows.
LEMMA FrameNoLateConflict ==
    ASSUME NoLateConflict, UNCHANGED <<checkpoint, commit, local_storage, rows, undo_buffer>>
    PROVE  NoLateConflict'
BY DEF NoLateConflict, Delta, Chunks, Live, RowIds, DeletedBy, T, Never

\* A step that adds no behaviour keeps a regular behaviour regular.
LEMMA FrameRegular ==
    ASSUME Regular, UNCHANGED behaviours
    PROVE  Regular'
BY DEF Regular

-----------------------------------------------------------------------------
(* Constants, fields and entries *)

\* What the proofs use of the constants.
LEMMA Constants ==
    /\ Infinity \in Nat /\ Infinity > 2 /\ Never = Infinity
    /\ RowGroupSize \in Nat /\ RowGroupSize >= 1
    /\ NoTxn \notin Txns
    /\ Ids \subseteq Nat /\ 0 \in Ids /\ Infinity \in Ids
BY ConstantsAssumption DEF Ids, Never

\* A non-empty set of ids has a least element.
LEMMA LeastOfNats ==
    ASSUME NEW S, S \subseteq Nat, S # {}
    PROVE  Min(S) \in S /\ \A y \in S : Min(S) <= y
<1>1. PICK x \in S : \A y \in S : <<y, x>> \notin OpToRel(<, Nat)
  BY NatLessThanWellFounded, WFMin, Zenon
<1>2. \A y \in S : ~(y < x)
  BY <1>1, Zenon DEF OpToRel
<1>3. \A y \in S : x <= y
  BY <1>2
<1> QED
  BY <1>3 DEF Min

\* A non-empty set of numbers up to n has a greatest element.
LEMMA GreatestOfNats ==
    ASSUME NEW n \in Nat, NEW S, S \subseteq 0 .. n, S # {}
    PROVE  \E x \in S : \A y \in S : x >= y
<1> DEFINE D == {n - x : x \in S}
<1>1. D \subseteq Nat /\ D # {}
  <2>1. \A x \in S : n - x \in Nat
    OBVIOUS
  <2> QED
    BY <2>1
<1>2. Min(D) \in D /\ \A y \in D : Min(D) <= y
  BY <1>1, LeastOfNats
<1>3. PICK x \in S : n - x = Min(D)
  BY <1>2
<1>4. ASSUME NEW y \in S PROVE x >= y
  <2>1. n - y \in D
    OBVIOUS
  <2>2. n - x <= n - y
    BY <1>2, <1>3, <2>1
  <2> QED
    BY <2>2
<1> QED
  BY <1>4

\* The fields of rows and row groups have their types.
LEMMA RowFields ==
    ASSUME Types
    PROVE  /\ Len(rows) \in Nat /\ RowIds = 1 .. Len(rows) /\ RowIds \subseteq RowId
           /\ \A r \in RowIds : /\ rows[r] \in RowRecords /\ rows[r].key \in Keys
                                /\ rows[r].inserted \in Nat /\ rows[r].inserted <= Infinity
                                /\ rows[r].deleted \in Nat /\ rows[r].deleted <= Infinity
                                /\ rows[r].deleter \in Txns \cup {NoTxn}
           /\ Len(row_groups) \in Nat /\ DOMAIN row_groups = 1 .. Len(row_groups)
           /\ \A g \in 1 .. Len(row_groups) : row_groups[g] \in Nat
<1>1. rows \in Seq(RowRecords) /\ row_groups \in Seq(Nat)
  BY DEF Types, TableTypes
<1>2. Len(rows) \in Nat /\ RowIds = 1 .. Len(rows) /\ \A r \in RowIds : rows[r] \in RowRecords
  BY <1>1 DEF RowIds
<1>3. \A row \in RowRecords : /\ row.key \in Keys
                              /\ row.inserted \in Nat /\ row.inserted <= Infinity
                              /\ row.deleted \in Nat /\ row.deleted <= Infinity
                              /\ row.deleter \in Txns \cup {NoTxn}
  BY Constants DEF RowRecords, Ids
<1>4. RowIds \subseteq RowId
  BY <1>2 DEF RowId
<1>5. Len(row_groups) \in Nat /\ DOMAIN row_groups = 1 .. Len(row_groups) /\ \A g \in 1 .. Len(row_groups) : row_groups[g] \in Nat
  BY <1>1
<1> QED
  BY <1>2, <1>3, <1>4, <1>5

\* The fields of the index entry have their types (IndexEntry).
LEMMA EntryFields ==
    ASSUME Types
    PROVE  /\ entry.index \in Index /\ entry.deleted_rows_in_use \in Ptrs
           /\ entry.added \in Ptrs /\ entry.removed \in Ptrs /\ entry.last_written \in Ids
           /\ entry = [index |-> entry.index, deleted_rows_in_use |-> entry.deleted_rows_in_use,
                       added |-> entry.added, removed |-> entry.removed,
                       last_written |-> entry.last_written]
BY DEF Types, IndexEntries

\* The fields of the commit under way have their types.
LEMMA CommitFields ==
    ASSUME Types
    PROVE  /\ T \in Txns \cup {NoTxn} /\ commit.txn = T /\ commit.pc \in CommitPCs
           /\ commit.checkpoint_id \in Ids /\ commit.row_start \in Nat /\ commit.chunks \in Nat
           /\ commit.entries \in Nat /\ commit.appended \in BOOLEAN
BY DEF Types, CommitStates, T

\* The fields of the checkpoint, and the ids it is compared with, have their types.
LEMMA CheckpointFields ==
    ASSUME Types
    PROVE  /\ checkpoint.pc \in CheckpointPCs /\ checkpoint.left \in Nat
           /\ checkpoint.statement \in BOOLEAN /\ checkpoint.id \in Nat /\ checkpoint.id \in Ids
           /\ checkpoint.bind \in Nat
           /\ active_checkpoint \in Nat /\ last_commit \in Nat /\ current_start_timestamp \in Nat
           /\ last_seen_checkpoint \in Nat /\ checkpoint_row_group_count \in Nat
BY Constants DEF Types, CheckpointStates, TableTypes

\* The state of a transaction has its types.
LEMMA TxnFields ==
    ASSUME Types, NEW t \in Txns
    PROVE  /\ t # NoTxn /\ status[t] \in Statuses /\ start_time[t] \in Nat /\ commit_id[t] \in Nat
           /\ undo_buffer[t] \in Seq(SUBSET RowId) /\ Len(undo_buffer[t]) \in Nat
           /\ DOMAIN undo_buffer[t] = 1 .. Len(undo_buffer[t])
           /\ local_storage[t] \in Seq(Keys) /\ Len(local_storage[t]) \in Nat
           /\ \A i \in 1 .. Len(local_storage[t]) : local_storage[t][i] \in Keys
           /\ active_transaction_state[t] \in {"unset", "none", "others"}
           /\ cleanup[t] \in {"none", "stored", "scheduled"}
BY Constants DEF Types, TransactionTypes

\* A transaction has deleted the rows that some entry of its undo buffer has.
LEMMA DeletedRows ==
    ASSUME NEW t, undo_buffer[t] \in Seq(SUBSET RowId)
    PROVE  \A r : r \in DeletedBy(t) <=> \E i \in DOMAIN undo_buffer[t] : r \in undo_buffer[t][i]
BY DEF DeletedBy, Range

\* With an empty undo buffer it has deleted none.
LEMMA NoDeletedRows ==
    ASSUME NEW t, undo_buffer[t] = <<>>
    PROVE  DeletedBy(t) = {}
BY DEF DeletedBy, Range

\* An entry is one of a set of rows if its row is there and it has the row's key.
LEMMA InEntries ==
    ASSUME NEW A, NEW e
    PROVE  e \in EntriesOf(A) <=> e = <<rows[e[2]].key, e[2]>> /\ e[2] \in A
BY DEF EntriesOf, EntryOf

\* The entries of sets of rows follow the algebra of the sets, as each row has one entry.
LEMMA EntriesAlgebra ==
    ASSUME NEW A, NEW B
    PROVE  /\ EntriesOf(A \cup B) = EntriesOf(A) \cup EntriesOf(B)
           /\ EntriesOf(A \cap B) = EntriesOf(A) \cap EntriesOf(B)
           /\ EntriesOf(A \ B) = EntriesOf(A) \ EntriesOf(B)
           /\ EntriesOf(A) \subseteq EntriesOf(B) <=> A \subseteq B
           /\ EntriesOf(A) = {} <=> A = {}
<1>1. EntriesOf(A \cup B) = EntriesOf(A) \cup EntriesOf(B)
  BY DEF EntriesOf
<1>2. \A r : EntryOf(r)[2] = r
  BY DEF EntryOf
<1>3. \A S, r : EntryOf(r) \in EntriesOf(S) <=> r \in S
  BY <1>2 DEF EntriesOf
<1>4. EntriesOf(A \cap B) = EntriesOf(A) \cap EntriesOf(B)
  BY <1>3 DEF EntriesOf
<1>5. EntriesOf(A \ B) = EntriesOf(A) \ EntriesOf(B)
  BY <1>3 DEF EntriesOf
<1>6. EntriesOf(A) \subseteq EntriesOf(B) <=> A \subseteq B
  BY <1>3 DEF EntriesOf
<1>7. EntriesOf(A) = {} <=> A = {}
  BY DEF EntriesOf
<1> QED
  BY <1>1, <1>4, <1>5, <1>6, <1>7

\* The keys of rows do not change.
LEMMA EntriesKept ==
    ASSUME NEW A, \A r \in A : rows'[r].key = rows[r].key
    PROVE  {<<rows'[r].key, r>> : r \in A} = EntriesOf(A)
BY DEF EntriesOf, EntryOf

\* The entries of rows make up an index.
LEMMA EntriesType ==
    ASSUME Types, NEW A, A \subseteq RowIds
    PROVE  EntriesOf(A) \in Index
<1>1. \A r \in RowIds : rows[r].key \in Keys /\ r \in RowId
  BY RowFields
<1> QED
  BY <1>1 DEF EntriesOf, EntryOf, Index

\* What a pointer to an index that may not exist (unique_ptr<BoundIndex>) holds.
LEMMA Pointers ==
    /\ Entries(<<>>) = {} /\ ~Exists(<<>>)
    /\ \A E : Entries(<<E>>) = E /\ Exists(<<E>>)
    /\ \A E \in Index : <<E>> \in Ptrs
    /\ <<>> \in Ptrs /\ {} \in Index
    /\ \A p \in Ptrs : Entries(p) \in Index
BY DEF Entries, Exists, Ptrs, Index

\* What is in the index under a key, when the index has the entries of rows.
LEMMA LookupRows ==
    ASSUME NEW A, NEW key
    PROVE  Lookup(EntriesOf(A), key) = {r \in A : rows[r].key = key}
<1>1. \A r : <<key, r>> \in EntriesOf(A) <=> rows[r].key = key /\ r \in A
  BY DEF EntriesOf, EntryOf
<1>2. \A r : <<key, r>> \in EntriesOf(A) => r \in {e[2] : e \in EntriesOf(A)}
  <2> TAKE r
  <2>1. <<key, r>>[2] = r
    OBVIOUS
  <2> QED
    BY <2>1, Zenon
<1> QED
  BY <1>1, <1>2 DEF Lookup

\* A lookup finds a row if the index has an entry for it under the key.
LEMMA LookupIn ==
    ASSUME NEW S, NEW key, NEW r
    PROVE  r \in Lookup(S, key) <=> <<key, r>> \in S
<1>1. <<key, r>>[2] = r
  OBVIOUS
<1>2. <<key, r>> \in S => r \in {e[2] : e \in S}
  BY <1>1, Zenon
<1> QED
  BY <1>2 DEF Lookup

\* The delta indexes are used from the start of a checkpoint until they are merged.
LEMMA DeltasInUse ==
    ASSUME Types, CheckpointIds, Times
    PROVE  /\ UseDeltas(entry, active_checkpoint) <=> Delta
           /\ commit.pc = "indexes" => (UseDeltas(entry, commit.checkpoint_id) <=> Delta)
           /\ Delta => checkpoint.id <= last_commit /\ checkpoint.id < Infinity /\ active_checkpoint = checkpoint.id
<1>1. checkpoint.pc \in CheckpointPCs /\ checkpoint.id \in Nat /\ active_checkpoint \in Nat
      /\ last_commit \in Nat /\ current_start_timestamp \in Nat /\ entry.last_written \in Nat
  BY CheckpointFields, EntryFields, Constants
<1>2. last_commit < Infinity
  BY <1>1, Constants DEF Times
<1> QED
  BY <1>1, <1>2, Constants DEF UseDeltas, CheckpointIds, Delta, CheckpointPCs, Earlier

-----------------------------------------------------------------------------
(* Statements *)

\* The rows that a running transaction has deleted, unless its deletes are being committed.
LEMMA RunningDeletes ==
    ASSUME TableInv, NEW t \in Running, ~(t = T /\ commit.pc = "undo")
    PROVE  \A r \in RowIds : rows[r].deleter = t => rows[r].deleted = Never /\ r \in DeletedBy(t)
BY DEF TableInv, Deletes, Running

\* DuckTransactionManager::StartTransaction draws a start time that is later than every commit.
LEMMA StartTransactionInv ==
    ASSUME TableInv, NEW t \in Txns, StartTransaction(t)
    PROVE  TableInv'
<1> USE DEF TableInv
<1>1. /\ status[t] = "idle" /\ commit.pc # "undo"
      /\ status' = [status EXCEPT ![t] = "active"]
      /\ start_time' = [start_time EXCEPT ![t] = current_start_timestamp]
      /\ current_start_timestamp + 1 < Infinity
      /\ current_start_timestamp' = current_start_timestamp + 1
      /\ UNCHANGED <<last_commit, active_checkpoint, commit_id, undo_buffer, local_storage,
                     active_transaction_state, cleanup, table, entry, commit, wal, checkpoint_wal,
                     checkpoint, fatal, behaviours>>
  BY DEF StartTransaction, TransactionLockFree, DrawTimestamp
<1>2. UNCHANGED <<rows, row_groups, require_new, last_seen_checkpoint, checkpoint_row_group_count>>
  BY <1>1 DEF table
<1>3. Types'
  BY <1>1, <1>2 DEF Types, TransactionTypes, TableTypes, Statuses
<1>4. /\ current_start_timestamp \in Nat /\ last_commit \in Nat
      /\ last_commit < current_start_timestamp
      /\ status \in [Txns -> Statuses] /\ start_time \in [Txns -> Nat]
  BY DEF Types, TransactionTypes, Times
<1>5. Running' = Running \cup {t} /\ t \notin Running
  BY <1>1, <1>4 DEF Running
<1>6. /\ start_time'[t] = current_start_timestamp
      /\ \A u \in Running : u # t /\ start_time'[u] = start_time[u] /\ start_time[u] \in Nat
  BY <1>1, <1>4, <1>5 DEF Running
<1>7. RowIds' = RowIds /\ T' = T
  BY <1>1, <1>2 DEF RowIds, T
<1>8. Times'
  BY <1>1, <1>2, <1>4, <1>5, <1>6, <1>7, Constants, RowFields DEF Times
<1>9. T # t
  BY <1>1, Constants DEF OneCommit, T
<1>10. OneCommit'
  <2>1. T # NoTxn => T \in Txns /\ status'[T] = status[T]
    BY <1>1, <1>4, <1>9, CommitFields
  <2> QED
    BY <1>1, <1>2, <1>7, <2>1 DEF OneCommit, Appended, Chunks, HasChanges, T, NoCommit, Never
<1>11. \A r \in RowIds : rows[r].deleter # t
  BY <1>1, <1>5 DEF Deletes
<1>12. Deletes'
  <2>1. \A u \in Txns : DeletedBy(u)' = DeletedBy(u)
    BY <1>1 DEF DeletedBy
  <2>2. \A u \in Txns : u # t => status'[u] = status[u]
    BY <1>1, <1>4
  <2> QED
    BY <1>1, <1>2, <1>5, <1>7, <1>11, <2>1, <2>2 DEF Deletes, Never
<1>13. Ended'
  BY <1>1, <1>2, <1>4 DEF Ended, DeletedBy
<1>14. Kept'
  <2>1. InUse' = InUse
    BY <1>1, <1>2 DEF InUse, RowIds, DeletedBy, Never
  <2>2. \A r \in RowIds : rows[r].deleted # Never => rows[r].deleted < current_start_timestamp
    BY <1>1, <1>4, RowFields, Constants DEF Times
  <2>3. \A u \in Txns : commit_id[u] < current_start_timestamp
    BY <1>4, TxnFields DEF Times
  <2> QED
    BY <1>1, <1>2, <1>4, <1>5, <1>6, <1>7, <2>1, <2>2, <2>3, RowFields DEF Kept, Never
<1>15. Distinct' /\ UniqueKeys' /\ Groups' /\ CheckpointIds' /\ Written' /\ Indexed' /\ NoLateConflict' /\ Regular'
  BY <1>1, <1>2, FrameDistinct, FrameUniqueKeys, FrameGroups, FrameCheckpointIds, FrameWritten, FrameIndexed,
     FrameNoLateConflict, FrameRegular
<1>16. Split'
  <2>1. undo_buffer[t] = <<>>
    BY <1>1 DEF Ended
  <2>2. Old' = Old /\ Delta' = Delta /\ TableLockShared' = TableLockShared
    BY <1>1, <1>2, <1>7 DEF Old, Delta, TableLockShared
  <2>3. \A r : NewGroup(r)' = NewGroup(r)
    BY <1>2 DEF NewGroup
  <2> QED
    BY <1>1, <1>2, <1>5, <1>7, <2>1, <2>2, <2>3 DEF Split
<1> QED
  BY <1>1, <1>3, <1>8, <1>10, <1>12, <1>13, <1>14, <1>15, <1>16

\* A transaction is invalidated.
LEMMA InvalidatedInv ==
    ASSUME TableInv, NEW t \in Txns, status[t] = "active", T # t,
           status' = [status EXCEPT ![t] = "invalidated"],
           UNCHANGED <<manager, start_time, commit_id, undo_buffer, local_storage, active_transaction_state,
                       cleanup, table, entry, commit, wal, checkpoint_wal, checkpoint, fatal, behaviours>>
    PROVE  TableInv'
<1> USE DEF TableInv
<1>1. UNCHANGED <<current_start_timestamp, last_commit, active_checkpoint, rows, row_groups, require_new,
                  last_seen_checkpoint, checkpoint_row_group_count>>
  BY DEF manager, table
<1>2. status \in [Txns -> Statuses]
  BY DEF Types, TransactionTypes
<1>3. Types'
  BY <1>1 DEF Types, TransactionTypes, TableTypes, Statuses
<1>4. Running' = Running /\ t \in Running
  BY <1>2 DEF Running
<1>5. RowIds' = RowIds /\ T' = T /\ \A u : DeletedBy(u)' = DeletedBy(u)
  BY <1>1 DEF RowIds, T, DeletedBy
<1>6. \A u \in Txns : u # t => status'[u] = status[u]
  BY <1>2
<1>7. Times'
  BY <1>1, <1>4, <1>5 DEF Times, Never
<1>8. OneCommit'
  <2>1. T # NoTxn => status'[T] = status[T]
    BY <1>2, <1>6, CommitFields
  <2> QED
    BY <1>1, <1>5, <2>1 DEF OneCommit, Appended, Chunks, HasChanges, T, NoCommit, Never
<1>9. Deletes'
  BY <1>1, <1>4, <1>5, <1>6 DEF Deletes, Never
<1>10. Ended'
  BY <1>1, <1>2, <1>6 DEF Ended, DeletedBy
<1>11. Kept'
  <2>1. InUse' = InUse
    BY <1>1, <1>5 DEF InUse, Never
  <2> QED
    BY <1>1, <1>4, <1>5, <2>1 DEF Kept, Never
<1>12. Split'
  <2>1. Old' = Old /\ Delta' = Delta /\ TableLockShared' = TableLockShared
    BY <1>1, <1>5 DEF Old, Delta, TableLockShared
  <2>2. \A r : NewGroup(r)' = NewGroup(r)
    BY <1>1 DEF NewGroup
  <2> QED
    BY <1>1, <1>4, <1>5, <2>1, <2>2 DEF Split
<1>13. Distinct' /\ UniqueKeys' /\ Groups' /\ CheckpointIds' /\ Written' /\ Indexed' /\ NoLateConflict' /\ Regular'
  BY <1>1, FrameDistinct, FrameUniqueKeys, FrameGroups, FrameCheckpointIds, FrameWritten, FrameIndexed,
     FrameNoLateConflict, FrameRegular
<1> QED
  BY <1>3, <1>7, <1>8, <1>9, <1>10, <1>11, <1>12, <1>13

\* The rows of a row group are all in a checkpoint, or none is.
LEMMA RowGroupSplit ==
    ASSUME TableInv, Delta, NEW g \in DOMAIN row_groups
    PROVE  RowGroup(g) \subseteq Old \/ RowGroup(g) \cap Old = {}
<1> USE DEF TableInv
<1>1. CASE last_seen_checkpoint # checkpoint.id
  BY <1>1 DEF Split, RowGroup
<1>2. CASE last_seen_checkpoint = checkpoint.id
  <2>1. \A r \in RowIds : r \in Old <=> ~NewGroup(r)
    BY <1>2 DEF Split
  <2>2. /\ Len(row_groups) \in Nat /\ g \in 1 .. Len(row_groups)
        /\ checkpoint_row_group_count \in Nat /\ RowIds \subseteq Nat
        /\ \A h \in 1 .. Len(row_groups) : row_groups[h] \in Nat
    BY RowFields, CheckpointFields DEF RowId
  <2>3. CASE g <= checkpoint_row_group_count
    <3>1. ASSUME NEW r \in RowGroup(g), NewGroup(r) PROVE FALSE
      <4> DEFINE h == checkpoint_row_group_count + 1
      <4>1. h \in 1 .. Len(row_groups) /\ r >= row_groups[h] /\ g + 1 <= h /\ g < Len(row_groups) /\ g + 1 \in 1 .. Len(row_groups)
        BY <2>2, <2>3, <3>1 DEF NewGroup
      <4>2. r \in RowIds /\ r < row_groups[g + 1]
        BY <4>1 DEF RowGroup
      <4>3. row_groups[g + 1] <= row_groups[h]
        <5>1. CASE g + 1 = h
          BY <5>1, <2>2, <4>1
        <5>2. CASE g + 1 < h
          BY <5>2, <2>2, <4>1 DEF Groups
        <5> QED
          BY <2>2, <4>1, <5>1, <5>2
      <4> QED
        BY <2>2, <4>1, <4>2, <4>3
    <3> QED
      BY <2>1, <3>1 DEF RowGroup
  <2>4. CASE ~(g <= checkpoint_row_group_count)
    <3>1. ASSUME NEW r \in RowGroup(g) PROVE NewGroup(r)
      <4> DEFINE h == checkpoint_row_group_count + 1
      <4>1. h \in 1 .. Len(row_groups) /\ h <= g /\ r \in RowIds /\ r >= row_groups[g]
        BY <2>2, <2>4 DEF RowGroup
      <4>2. row_groups[g] >= row_groups[h]
        <5>1. CASE h = g
          BY <5>1, <2>2, <4>1
        <5>2. CASE h < g
          BY <5>2, <2>2, <4>1 DEF Groups
        <5> QED
          BY <2>2, <4>1, <5>1, <5>2
      <4> QED
        BY <2>2, <4>1, <4>2 DEF NewGroup
    <3> QED
      BY <2>1, <3>1 DEF RowGroup
  <2> QED
    BY <2>3, <2>4
<1> QED
  BY <1>1, <1>2

\* DataTable::Delete marks rows of one row group, or meets a conflict and invalidates the transaction.
LEMMA DeleteInv ==
    ASSUME TableInv, NEW t \in Txns, NEW g \in DOMAIN row_groups, NEW R, Delete(t, g, R)
    PROVE  TableInv'
<1> USE DEF TableInv
<1>1. CASE \E r \in R : rows[r].deleter # NoTxn
  <2>1. /\ status[t] = "active" /\ T # t /\ status' = [status EXCEPT ![t] = "invalidated"]
        /\ UNCHANGED <<manager, start_time, commit_id, undo_buffer, local_storage, active_transaction_state,
                       cleanup, table, entry, commit, wal, checkpoint_wal, checkpoint, fatal, behaviours>>
    BY <1>1 DEF Delete, T, table
  <2> QED
    BY <2>1, InvalidatedInv
<1>2. CASE ~ \E r \in R : rows[r].deleter # NoTxn
  <2>1. /\ status[t] = "active" /\ T # t
        /\ R \subseteq RowGroup(g) /\ R \subseteq Visible(t)
        /\ rows' = [r \in RowIds |-> IF r \in R THEN [rows[r] EXCEPT !.deleter = t] ELSE rows[r]]
        /\ undo_buffer' = [undo_buffer EXCEPT ![t] = Append(@, R)]
        /\ UNCHANGED <<manager, status, start_time, commit_id, local_storage, active_transaction_state, cleanup,
                       row_groups, require_new, last_seen_checkpoint, checkpoint_row_group_count,
                       entry, commit, wal, checkpoint_wal, checkpoint, fatal, behaviours>>
    BY <1>2 DEF Delete, T
  <2>2. UNCHANGED <<current_start_timestamp, last_commit, active_checkpoint>>
    BY <2>1 DEF manager
  <2>3. /\ t \in Running /\ t # NoTxn /\ R \subseteq RowIds /\ R \subseteq RowId
        /\ RowIds = 1 .. Len(rows) /\ Len(rows) \in Nat
        /\ \A r \in RowIds : rows[r] \in RowRecords
    BY <2>1, RowFields, TxnFields DEF Running, Visible
  <2>4. \A r \in R : /\ rows[r].deleter = NoTxn /\ rows[r].deleted = Never
                     /\ rows[r].inserted <= last_commit /\ rows[r].inserted < Infinity
    <3>1. \A r \in R : rows[r].deleter = NoTxn /\ rows[r].deleted = Never
      BY <1>2, <2>3 DEF Deletes
    <3>2. \A r \in R : rows[r].inserted < start_time[t] /\ rows[r].inserted \in Nat
      BY <2>1, <2>3, RowFields DEF Visible
    <3>3. start_time[t] \in Nat /\ start_time[t] < current_start_timestamp /\ current_start_timestamp < Infinity
      BY <2>3, TxnFields DEF Times
    <3>4. \A r \in R : rows[r].inserted < Infinity
      BY <3>2, <3>3, CheckpointFields, Constants
    <3> QED
      BY <2>3, <3>1, <3>4, Constants DEF Times
  <2>5. /\ RowIds' = RowIds /\ Len(rows') = Len(rows) /\ rows' \in Seq(RowRecords)
        /\ \A r \in RowIds : /\ rows'[r].key = rows[r].key /\ rows'[r].inserted = rows[r].inserted
                             /\ rows'[r].deleted = rows[r].deleted
                             /\ rows'[r].deleter = IF r \in R THEN t ELSE rows[r].deleter
    <3>1. \A r \in RowIds : rows'[r] = IF r \in R THEN [rows[r] EXCEPT !.deleter = t] ELSE rows[r]
      BY <2>1
    <3>2. \A r \in RowIds : /\ rows'[r].key = rows[r].key /\ rows'[r].inserted = rows[r].inserted
                            /\ rows'[r].deleted = rows[r].deleted
                            /\ rows'[r].deleter = IF r \in R THEN t ELSE rows[r].deleter
                            /\ rows'[r] \in RowRecords
      BY <2>3, <3>1, ZenonT(30) DEF RowRecords
    <3>3. rows' = [r \in 1 .. Len(rows) |-> rows'[r]]
      BY <2>1, <2>3
    <3>4. rows' \in Seq(RowRecords) /\ Len(rows') = Len(rows)
      BY <2>3, <3>2, <3>3
    <3> QED
      BY <2>1, <3>2, <3>4 DEF RowIds
  <2>6. /\ \A u \in Txns : u # t => undo_buffer'[u] = undo_buffer[u]
        /\ undo_buffer'[t] = Append(undo_buffer[t], R)
        /\ undo_buffer' \in [Txns -> Seq(SUBSET RowId)]
    BY <2>1, <2>3 DEF Types, TransactionTypes
  <2>7. Types'
    BY <2>1, <2>2, <2>5, <2>6 DEF Types, TransactionTypes, TableTypes
  <2>8. /\ undo_buffer[t] \in Seq(SUBSET RowId) /\ Len(undo_buffer[t]) \in Nat
        /\ Len(undo_buffer'[t]) = Len(undo_buffer[t]) + 1
        /\ DOMAIN undo_buffer'[t] = 1 .. Len(undo_buffer[t]) + 1
        /\ \A i \in 1 .. Len(undo_buffer[t]) : undo_buffer'[t][i] = undo_buffer[t][i]
        /\ undo_buffer'[t][Len(undo_buffer[t]) + 1] = R
        /\ DOMAIN undo_buffer[t] = 1 .. Len(undo_buffer[t])
    BY <2>6, TxnFields
  <2>9. DeletedBy(t)' = DeletedBy(t) \cup R /\ \A u \in Txns : u # t => DeletedBy(u)' = DeletedBy(u)
    <3>1. \A r : r \in DeletedBy(t)' <=> \E i \in DOMAIN undo_buffer'[t] : r \in undo_buffer'[t][i]
      BY <2>6 DEF DeletedBy, Range
    <3>2. \A r : r \in DeletedBy(t) <=> \E i \in DOMAIN undo_buffer[t] : r \in undo_buffer[t][i]
      BY <2>8, DeletedRows
    <3>3. \A u \in Txns : u # t => DeletedBy(u)' = DeletedBy(u)
      BY <2>6 DEF DeletedBy
    <3>4. \A i \in 1 .. Len(undo_buffer[t]) + 1 : i \in 1 .. Len(undo_buffer[t]) \/ i = Len(undo_buffer[t]) + 1
      BY <2>8
    <3>5. \A i \in 1 .. Len(undo_buffer[t]) : i \in 1 .. Len(undo_buffer[t]) + 1
      BY <2>8
    <3>6. Len(undo_buffer[t]) + 1 \in 1 .. Len(undo_buffer[t]) + 1
      BY <2>8
    <3>7. \A r : r \in DeletedBy(t)' <=> r \in DeletedBy(t) \cup R
      BY <2>8, <3>1, <3>2, <3>4, <3>5, <3>6
    <3> QED
      BY <3>3, <3>7
  <2>10. T' = T /\ Running' = Running
    BY <2>1 DEF T, Running
  <2>11. Times'
    <3>1. \A r \in R : rows[r].deleted # Never => FALSE
      BY <2>4
    <3>2. \A r \in RowIds : \/ rows'[r].deleted <= last_commit \/ rows'[r].deleted = Never
                            \/ /\ rows'[r].deleted = current_start_timestamp
                               /\ commit.pc = "undo" /\ rows'[r].deleter = T
      BY <2>4, <2>5 DEF Times
    <3> QED
      BY <2>1, <2>2, <2>5, <2>10, <3>2, ZenonT(30) DEF Times, Never
  <2>12. T # NoTxn => T \in Txns /\ undo_buffer'[T] = undo_buffer[T]
    BY <2>1, <2>6, CommitFields
  <2>13. Appended'
    <3> SUFFICES ASSUME commit.appended PROVE Appended'
      BY <2>1 DEF Appended
    <3>1. Chunks' = Chunks
      BY <2>1 DEF Chunks, T
    <3>2. T # NoTxn
      BY DEF OneCommit, NoCommit, T
    <3>3. Len(Chunks) \in Nat /\ commit.row_start \in Nat
      BY <3>2, CommitFields, TxnFields DEF Chunks
    <3>4. \A i \in 1 .. Len(Chunks) : commit.row_start + i \in RowIds /\ commit.row_start + i \notin R
      <4>1. \A i \in 1 .. Len(Chunks) : rows[commit.row_start + i].inserted = Infinity
        BY DEF OneCommit, Appended
      <4>2. Len(rows) = commit.row_start + Len(Chunks)
        BY DEF OneCommit, Appended
      <4>3. \A i \in 1 .. Len(Chunks) : commit.row_start + i \in RowIds
        BY <2>3, <3>3, <4>2
      <4>4. \A r \in R : rows[r].inserted # Infinity
        BY <2>3, <2>4, RowFields, Constants
      <4> QED
        BY <4>1, <4>3, <4>4
    <3> QED
      BY <2>1, <2>5, <3>1, <3>3, <3>4 DEF OneCommit, Appended, Never
  <2>14. OneCommit'
    <3>1. rows # <<>> <=> rows' # <<>>
      BY <2>3, <2>5
    <3> QED
      BY <2>1, <2>5, <2>10, <2>12, <2>13 DEF OneCommit, Chunks, HasChanges, T, NoCommit
  <2>15. Deletes'
    <3>1. \A u \in Txns : \A i \in DOMAIN undo_buffer'[u] : \A r \in undo_buffer'[u][i] :
             r \in RowIds' /\ rows'[r].deleter = u /\ rows'[r].inserted <= last_commit'
      <4> SUFFICES ASSUME NEW u \in Txns, NEW i \in DOMAIN undo_buffer'[u], NEW r \in undo_buffer'[u][i]
                   PROVE  r \in RowIds' /\ rows'[r].deleter = u /\ rows'[r].inserted <= last_commit'
        OBVIOUS
      <4>1. CASE u # t
        <5>1. r \in RowIds /\ rows[r].deleter = u /\ rows[r].inserted <= last_commit
          BY <4>1, <2>6 DEF Deletes
        <5>2. r \notin R
          BY <5>1, <2>4, TxnFields
        <5> QED
          BY <5>1, <5>2, <2>5, <2>2
      <4>2. CASE u = t /\ i \in 1 .. Len(undo_buffer[t])
        <5>1. r \in RowIds /\ rows[r].deleter = u /\ rows[r].inserted <= last_commit
          BY <4>2, <2>8 DEF Deletes
        <5> QED
          BY <4>2, <5>1, <2>5, <2>2
      <4>3. CASE u = t /\ i = Len(undo_buffer[t]) + 1
        BY <4>3, <2>2, <2>3, <2>4, <2>5, <2>8
      <4> QED
        BY <2>8, <4>1, <4>2, <4>3
    <3>2. \A u \in Txns : \A i, j \in DOMAIN undo_buffer'[u] :
             i # j => undo_buffer'[u][i] \cap undo_buffer'[u][j] = {}
      <4>1. \A i \in 1 .. Len(undo_buffer[t]) : undo_buffer[t][i] \cap R = {}
        BY <2>3, <2>4, <2>8 DEF Deletes
      <4>2. \A i, j \in DOMAIN undo_buffer'[t] :
             i # j => undo_buffer'[t][i] \cap undo_buffer'[t][j] = {}
        BY <2>8, <4>1, SMTT(30) DEF Deletes
      <4> QED
        BY <2>6, <4>2 DEF Deletes
    <3>3. \A r \in RowIds' : rows'[r].deleter = NoTxn => rows'[r].deleted = Never
      BY <2>3, <2>5 DEF Deletes
    <3>4. \A u \in Txns, r \in RowIds' : rows'[r].deleter = u =>
             IF u \in Running'
             THEN /\ r \in DeletedBy(u)'
                  /\ ~(u = T' /\ commit'.pc = "undo") => rows'[r].deleted = Never
             ELSE status'[u] = "done" /\ rows'[r].deleted <= last_commit'
      <4> SUFFICES ASSUME NEW u \in Txns, NEW r \in RowIds, rows'[r].deleter = u
                   PROVE  IF u \in Running
                          THEN /\ r \in DeletedBy(u)'
                               /\ ~(u = T /\ commit.pc = "undo") => rows[r].deleted = Never
                          ELSE status[u] = "done" /\ rows[r].deleted <= last_commit
        BY <2>1, <2>2, <2>5, <2>10, ZenonT(30)
      <4>1. CASE r \in R
        BY <4>1, <2>3, <2>4, <2>5, <2>9
      <4>2. CASE r \notin R
        BY <4>2, <2>5, <2>9 DEF Deletes
      <4> QED
        BY <4>1, <4>2
    <3>5. commit'.pc = "undo" => \A i \in DOMAIN undo_buffer'[T'] : \A r \in undo_buffer'[T'][i] :
             rows'[r].deleted = IF i <= commit'.entries THEN current_start_timestamp' ELSE Never
      <4>1. commit.pc = "undo" => T # NoTxn /\ T \in Txns
        BY CommitFields DEF OneCommit, NoCommit
      <4>2. commit.pc = "undo" => \A i \in DOMAIN undo_buffer[T] : \A r \in undo_buffer[T][i] : r \in RowIds
        BY <4>1 DEF Deletes
      <4>3. commit.pc = "undo" => \A i \in DOMAIN undo_buffer[T] : \A r \in undo_buffer[T][i] :
               rows[r].deleted = IF i <= commit.entries THEN current_start_timestamp ELSE Never
        BY DEF Deletes
      <4>4. commit.pc = "undo" => undo_buffer'[T'] = undo_buffer[T]
        BY <2>10, <2>12, <4>1
      <4>5. commit' = commit /\ current_start_timestamp' = current_start_timestamp
        BY <2>1, <2>2
      <4>6. commit.pc = "undo" => \A i \in DOMAIN undo_buffer[T] : \A r \in undo_buffer[T][i] :
               rows'[r].deleted = IF i <= commit.entries THEN current_start_timestamp ELSE Never
        BY <2>5, <4>2, <4>3
      <4> QED
        BY <4>4, <4>5, <4>6
    <3>6. Never' = Never
      BY DEF Never
    <3> QED
      BY <3>1, <3>2, <3>3, <3>4, <3>5, <3>6, Zenon DEF Deletes
  <2>16. Ended'
    <3>1. cleanup[t] = "none" /\ undo_buffer'[t] # <<>>
      BY <2>1, <2>8 DEF Ended
    <3>2. \A u \in Txns : \A r \in DeletedBy(u) : r \in RowIds
      BY DeletedRows, TxnFields DEF Deletes
    <3>3. ASSUME NEW u \in Txns, u # t
          PROVE  /\ status[u] = "idle" => undo_buffer'[u] = <<>> /\ local_storage[u] = <<>>
                 /\ status[u] = "done" => /\ local_storage[u] = <<>>
                                          /\ cleanup[u] = "none" => undo_buffer'[u] = <<>>
                 /\ cleanup[u] # "none" => /\ status[u] = "done"
                                           /\ \A r \in DeletedBy(u)' : rows'[r].deleted = commit_id[u]
      BY <2>5, <2>6, <2>9, <3>2, <3>3 DEF Ended
    <3> QED
      BY <2>1, <3>1, <3>3 DEF Ended
  <2>17. InUse' = InUse
    BY <2>1, <2>4, <2>5, <2>9 DEF InUse, Never
  <2>18. Kept'
    <3>1. \A u \in Running, r \in RowIds :
            start_time[u] <= rows'[r].deleted /\ rows'[r].deleted # Never /\ rows'[r].deleter # u => r \in InUse
      <4> TAKE u \in Running, r \in RowIds
      <4>1. rows'[r].deleted = rows[r].deleted /\ (r \in R => rows[r].deleted = Never)
        BY <2>4, <2>5
      <4>2. r \notin R => rows'[r].deleter = rows[r].deleter
        BY <2>5
      <4> QED
        BY <4>1, <4>2 DEF Kept
    <3>2. Never' = Never
      BY DEF Never
    <3> QED
      BY <2>1, <2>5, <2>10, <2>17, <3>1, <3>2 DEF Kept
  <2>19. Alive' = Alive
    BY <2>1, <2>4, <2>5, <2>10 DEF Alive, Never
  <2>20. Distinct'
    <3>1. Chunks' = Chunks /\ Alive \subseteq RowIds
      BY <2>1 DEF Chunks, T, Alive
    <3>2. commit.appended \/ commit.pc = "indexes" => T # NoTxn
      BY DEF OneCommit, NoCommit, T
    <3>3. T # NoTxn => DeletedBy(T)' = DeletedBy(T)
      BY <2>12, <2>10 DEF DeletedBy
    <3>4. \A r, s \in Alive : r < s /\ rows'[r].key = rows'[s].key =>
             commit.appended /\ s > commit.row_start /\ r \in DeletedBy(T)
      BY <2>5, <3>1 DEF Distinct
    <3>5. commit.pc = "indexes" => \A i \in 1 .. commit.chunks, r \in Alive :
             rows'[r].key = Chunks[i] => r \in DeletedBy(T)
      BY <2>5, <3>1 DEF Distinct
    <3>6. DeletedBy(T)' = DeletedBy(T) \/ ~(commit.appended \/ commit.pc = "indexes")
      BY <3>2, <3>3
    <3> QED
      BY <2>1, <2>19, <3>1, <3>4, <3>5, <3>6 DEF Distinct
  <2>21. UniqueKeys'
    BY <2>5 DEF UniqueKeys
  <2>22. Groups'
    <3>1. rows # <<>> <=> rows' # <<>>
      BY <2>3, <2>5
    <3> QED
      BY <2>1, <2>5, <3>1 DEF Groups
  <2>23. CheckpointIds' /\ Regular'
    BY <2>1, <2>2, FrameCheckpointIds, FrameRegular
  <2>24. Old' = Old /\ Delta' = Delta /\ Live' = Live /\ Pending' = Pending
    BY <2>1, <2>5, <2>10 DEF Old, Delta, Live, Pending, Chunks, Never
  <2>25. Split'
    <3>1. \A r : NewGroup(r)' = NewGroup(r)
      BY <2>1 DEF NewGroup
    <3>2. Delta => \A u \in Running : \A i \in DOMAIN undo_buffer'[u] :
              undo_buffer'[u][i] \subseteq Old \/ undo_buffer'[u][i] \cap Old = {}
      <4> SUFFICES ASSUME Delta, NEW u \in Running, NEW i \in DOMAIN undo_buffer'[u]
                   PROVE  undo_buffer'[u][i] \subseteq Old \/ undo_buffer'[u][i] \cap Old = {}
        OBVIOUS
      <4>1. u \in Txns
        BY DEF Running
      <4>2. CASE u # t
        BY <4>1, <4>2, <2>6 DEF Split
      <4>3. CASE u = t /\ i \in 1 .. Len(undo_buffer[t])
        BY <4>3, <2>8 DEF Split
      <4>4. CASE u = t /\ i = Len(undo_buffer[t]) + 1
        BY <4>4, <2>1, <2>8, RowGroupSplit
      <4> QED
        BY <2>8, <4>2, <4>3, <4>4
    <3>3. TableLockShared' = TableLockShared
      BY <2>1 DEF TableLockShared
    <3> QED
      BY <2>1, <2>5, <2>10, <2>24, <3>1, <3>2, <3>3 DEF Split
  <2>26. Written'
    BY <2>1, <2>24 DEF Written
  <2>27. Indexed'
    <3>1. \A A : A \subseteq RowIds => EntriesOf(A)' = EntriesOf(A)
      BY <2>5, EntriesKept DEF EntriesOf, EntryOf
    <3> DEFINE D == {r \in Old : rows[r].deleted > checkpoint.id}
               D2 == {r \in Old : rows[r].deleted > checkpoint.id /\ rows[r].deleted # Never}
    <3>2. D' = D /\ D2' = D2 /\ D \subseteq RowIds /\ D2 \subseteq RowIds
          /\ Live \subseteq RowIds /\ InUse \subseteq RowIds /\ (Live \ Old) \subseteq RowIds
      BY <2>1, <2>5, <2>24 DEF Old, Live, InUse, Never
    <3>3. EntriesOf(Live)' = EntriesOf(Live) /\ EntriesOf(InUse)' = EntriesOf(InUse)
          /\ EntriesOf(Live \ Old)' = EntriesOf(Live \ Old)
          /\ EntriesOf(D)' = EntriesOf(D) /\ EntriesOf(D2)' = EntriesOf(D2)
      BY <2>5, <2>17, <2>24, <3>2, EntriesKept DEF EntriesOf, EntryOf
    <3> QED
      BY <2>1, <2>5, <2>24, <3>3 DEF Indexed
  <2>28. NoLateConflict'
    <3>1. Chunks' = Chunks /\ Live \subseteq RowIds
      BY <2>1 DEF Chunks, T, Live
    <3>2. commit.pc \in {"flush", "locked", "indexes"} => T # NoTxn
      BY DEF OneCommit, NoCommit, T
    <3>3. T # NoTxn => DeletedBy(T)' = DeletedBy(T)
      BY <2>12, <2>10 DEF DeletedBy
    <3>4. Delta /\ commit.pc \in {"flush", "locked", "indexes"} =>
             \A i \in 2 .. Len(Chunks), r \in Live :
                i > commit.chunks /\ rows'[r].key = Chunks[i] => r \in DeletedBy(T)
      BY <2>5, <3>1 DEF NoLateConflict
    <3>5. DeletedBy(T)' = DeletedBy(T) \/ commit.pc \notin {"flush", "locked", "indexes"}
      BY <3>2, <3>3
    <3> QED
      BY <2>1, <2>24, <3>1, <3>4, <3>5 DEF NoLateConflict
  <2> QED
    BY <2>1, <2>7, <2>11, <2>14, <2>15, <2>16, <2>18, <2>20, <2>21, <2>22, <2>23, <2>25, <2>26, <2>27, <2>28
<1> QED
  BY <1>1, <1>2

\* LocalStorage::Append adds a key to the local table, or finds it there and invalidates the transaction.
LEMMA InsertInv ==
    ASSUME TableInv, NEW t \in Txns, NEW key \in Keys, Insert(t, key)
    PROVE  TableInv'
<1> USE DEF TableInv
<1>1. /\ status[t] = "active" /\ T # t
      /\ \/ /\ ~Contains(local_storage[t], key)
            /\ local_storage' = [local_storage EXCEPT ![t] = Append(@, key)]
            /\ UNCHANGED status
         \/ /\ status' = [status EXCEPT ![t] = "invalidated"]
            /\ UNCHANGED local_storage
      /\ UNCHANGED <<manager, start_time, commit_id, undo_buffer, active_transaction_state, cleanup, table,
                     entry, commit, wal, checkpoint_wal, checkpoint, fatal, behaviours>>
  BY DEF Insert, T
<1>2. CASE /\ status' = [status EXCEPT ![t] = "invalidated"]
           /\ UNCHANGED local_storage
  BY <1>1, <1>2, InvalidatedInv
<1>3. CASE /\ ~Contains(local_storage[t], key)
           /\ local_storage' = [local_storage EXCEPT ![t] = Append(@, key)]
           /\ UNCHANGED status
  <2>1. UNCHANGED <<current_start_timestamp, last_commit, active_checkpoint, rows, row_groups, require_new,
                    last_seen_checkpoint, checkpoint_row_group_count>>
    BY <1>1 DEF manager, table
  <2>2. local_storage \in [Txns -> Seq(Keys)] /\ t # NoTxn
    BY TxnFields DEF Types, TransactionTypes
  <2>3. /\ \A u \in Txns : u # t => local_storage'[u] = local_storage[u]
        /\ local_storage'[t] = Append(local_storage[t], key)
        /\ local_storage' \in [Txns -> Seq(Keys)]
    BY <1>3, <2>2
  <2>4. Types'
    BY <1>1, <1>3, <2>1, <2>3 DEF Types, TransactionTypes, TableTypes
  <2>5. T # NoTxn => Chunks' = Chunks /\ T' = T
    BY <1>1, <2>3, CommitFields DEF Chunks, T
  <2>6. OneCommit'
    BY <1>1, <1>3, <2>1, <2>5 DEF OneCommit, Appended, HasChanges, T, NoCommit, Never, Chunks
  <2>7. Ended'
    <3>1. cleanup[t] = "none" /\ local_storage'[t] # <<>>
      BY <1>1, <2>2, <2>3 DEF Ended
    <3>2. \A u \in Txns : DeletedBy(u)' = DeletedBy(u)
      BY <1>1 DEF DeletedBy
    <3> QED
      BY <1>1, <1>3, <2>1, <2>3, <3>1, <3>2 DEF Ended
  <2>8. T' = T /\ \A u : DeletedBy(u)' = DeletedBy(u)
    BY <1>1 DEF T, DeletedBy
  <2>9. commit.pc # "none" \/ commit.appended => T # NoTxn
    BY DEF OneCommit, NoCommit, T
  <2>10. Distinct'
    <3>1. \A i, j \in 1 .. Len(local_storage'[t]) :
             local_storage'[t][i] = local_storage'[t][j] => i = j
      <4>1. local_storage[t] \in Seq(Keys) /\ Len(local_storage[t]) \in Nat
        BY <2>2
      <4>2. \A i \in 1 .. Len(local_storage[t]) : local_storage[t][i] # key
        BY <1>3, <4>1 DEF Contains
      <4>3. /\ Len(local_storage'[t]) = Len(local_storage[t]) + 1
            /\ \A i \in 1 .. Len(local_storage[t]) : local_storage'[t][i] = local_storage[t][i]
            /\ local_storage'[t][Len(local_storage[t]) + 1] = key
        BY <2>3, <4>1
      <4>4. \A i, j \in 1 .. Len(local_storage[t]) : local_storage[t][i] = local_storage[t][j] => i = j
        BY DEF Distinct
      <4>5. \A i \in 1 .. Len(local_storage'[t]) : i \in 1 .. Len(local_storage[t]) \/ i = Len(local_storage[t]) + 1
        BY <4>1, <4>3
      <4> QED
        BY <4>2, <4>3, <4>4, <4>5
    <3>2. \A u \in Txns : \A i, j \in 1 .. Len(local_storage'[u]) :
             local_storage'[u][i] = local_storage'[u][j] => i = j
      BY <2>3, <3>1 DEF Distinct
    <3>3. Alive' = Alive
      BY <2>1, <2>8 DEF Alive, RowIds, Never
    <3>4. \A r, s \in Alive : r < s /\ rows'[r].key = rows'[s].key =>
             commit'.appended /\ s > commit'.row_start /\ r \in DeletedBy(T)'
      BY <1>1, <2>1, <2>8 DEF Distinct
    <3>5. commit'.pc = "indexes" => \A i \in 1 .. commit'.chunks, r \in Alive :
             rows'[r].key = Chunks'[i] => r \in DeletedBy(T)'
      BY <1>1, <2>1, <2>5, <2>8, <2>9 DEF Distinct
    <3> QED
      BY <3>2, <3>3, <3>4, <3>5 DEF Distinct
  <2>11. Indexed'
    <3>1. Pending' = Pending
      BY <1>1, <2>5, <2>9 DEF Pending
    <3> QED
      BY <1>1, <2>1, <3>1 DEF Indexed, Delta, Old, RowIds, Live, InUse, DeletedBy, EntriesOf, EntryOf, Entries, Exists, Never
  <2>12. NoLateConflict'
    <3>1. Live' = Live /\ Delta' = Delta
      BY <1>1, <2>1 DEF Live, RowIds, Delta, Never
    <3> QED
      BY <1>1, <2>1, <2>5, <2>8, <2>9, <3>1 DEF NoLateConflict
  <2>13. Times' /\ Deletes' /\ Kept' /\ UniqueKeys' /\ Groups' /\ CheckpointIds' /\ Split' /\ Written' /\ Regular'
    BY <1>1, <1>3, <2>1, FrameTimes, FrameDeletes, FrameKept, FrameUniqueKeys, FrameGroups, FrameCheckpointIds,
       FrameSplit, FrameWritten, FrameRegular
  <2> QED
    BY <1>1, <2>4, <2>6, <2>7, <2>10, <2>11, <2>12, <2>13
<1> QED
  BY <1>1, <1>2, <1>3

-----------------------------------------------------------------------------
(* The end of a transaction *)

\* What is below the lowest start time is below every other start time.
LEMMA RemoveTransactionEffect ==
    ASSUME Types, Ended, NEW t \in Running, NEW id \in Nat, RemoveTransaction(t, id)
    PROVE  /\ Running' = Running \ {t} /\ status'[t] = "done" /\ status' \in [Txns -> Statuses]
           /\ start_time' \in [Txns -> Nat] /\ commit_id' \in [Txns -> Nat]
           /\ local_storage' \in [Txns -> Seq(Keys)] /\ local_storage'[t] = <<>>
           /\ active_transaction_state' \in [Txns -> {"unset", "none", "others"}]
           /\ cleanup' \in [Txns -> {"none", "stored", "scheduled"}]
           /\ \A u \in Txns \ {t} : /\ status'[u] = status[u] /\ start_time'[u] = start_time[u]
                                    /\ commit_id'[u] = commit_id[u] /\ local_storage'[u] = local_storage[u]
                                    /\ active_transaction_state'[u] = active_transaction_state[u]
                                    /\ cleanup'[u] # "none" <=> cleanup[u] # "none"
           /\ IF id # 0 /\ undo_buffer[t] # <<>>
              THEN /\ cleanup'[t] # "none" /\ commit_id'[t] = id
                   /\ active_transaction_state'[t] = active_transaction_state[t]
              ELSE cleanup'[t] = "none" /\ commit_id'[t] = 0 /\ active_transaction_state'[t] = "unset"
           /\ \A u \in Txns : cleanup'[u] = "scheduled" =>
                \/ cleanup[u] = "scheduled" /\ u # t
                \/ \A v \in Running \ {t} : commit_id'[u] < start_time[v]
<1> DEFINE S == {Infinity, active_checkpoint} \cup ActiveStarts(t)
           lowest == Min(S)
           store == id # 0 /\ undo_buffer[t] # <<>>
           stored == {u \in Txns : cleanup[u] = "stored"} \cup (IF id # 0 /\ undo_buffer[t] # <<>> THEN {t} ELSE {})
           committed == [commit_id EXCEPT ![t] = id]
<1>1. t \in Txns /\ status[t] # "done" /\ Running \subseteq Txns
  BY DEF Running
<1>2. cleanup[t] = "none"
  BY <1>1 DEF Ended
<1>3. \A v \in Running \ {t} : start_time[v] \in Nat /\ lowest <= start_time[v]
  <2>1. S \subseteq Nat /\ S # {}
    BY <1>1, Constants, CheckpointFields, TxnFields DEF ActiveStarts
  <2>2. \A y \in S : lowest <= y
    BY <2>1, LeastOfNats
  <2>3. \A v \in Running \ {t} : start_time[v] \in S
    BY DEF ActiveStarts
  <2> QED
    BY <1>1, <2>2, <2>3, TxnFields
<1>4. lowest \in Nat
  <2>1. S \subseteq Nat /\ S # {}
    BY <1>1, Constants, CheckpointFields, TxnFields DEF ActiveStarts
  <2> QED
    BY <2>1, LeastOfNats
<1>5. /\ status' = [status EXCEPT ![t] = "done"]
      /\ commit_id' = [committed EXCEPT ![t] = IF t \in stored THEN id ELSE 0]
      /\ start_time' = [start_time EXCEPT ![t] = 0]
      /\ local_storage' = [local_storage EXCEPT ![t] = <<>>]
      /\ active_transaction_state' = [active_transaction_state EXCEPT ![t] =
                                          IF t \in stored THEN @ ELSE "unset"]
      /\ cleanup' = [u \in Txns |-> IF u \notin stored THEN cleanup[u]
                                    ELSE IF committed[u] < lowest THEN "scheduled" ELSE "stored"]
  BY DEF RemoveTransaction
<1>6. t \in stored <=> store
  BY <1>1, <1>2
<1>7. \A u \in Txns \ {t} : u \in stored <=> cleanup[u] = "stored"
  OBVIOUS
<1> HIDE DEF stored, lowest
<1>8. /\ status \in [Txns -> Statuses] /\ start_time \in [Txns -> Nat] /\ commit_id \in [Txns -> Nat]
      /\ local_storage \in [Txns -> Seq(Keys)]
      /\ active_transaction_state \in [Txns -> {"unset", "none", "others"}]
      /\ cleanup \in [Txns -> {"none", "stored", "scheduled"}]
  BY DEF Types, TransactionTypes
<1>9. /\ status' \in [Txns -> Statuses] /\ status'[t] = "done" /\ Running' = Running \ {t}
      /\ start_time' \in [Txns -> Nat]
      /\ local_storage' \in [Txns -> Seq(Keys)] /\ local_storage'[t] = <<>>
  BY <1>1, <1>5, <1>8 DEF Running, Statuses
<1>10. committed \in [Txns -> Nat] /\ commit_id' \in [Txns -> Nat]
  BY <1>5, <1>8
<1>11. /\ active_transaction_state' \in [Txns -> {"unset", "none", "others"}]
       /\ cleanup' \in [Txns -> {"none", "stored", "scheduled"}]
  BY <1>5, <1>8
<1>12. \A u \in Txns \ {t} : /\ status'[u] = status[u] /\ start_time'[u] = start_time[u]
                             /\ commit_id'[u] = commit_id[u] /\ local_storage'[u] = local_storage[u]
                             /\ active_transaction_state'[u] = active_transaction_state[u]
                             /\ cleanup'[u] # "none" <=> cleanup[u] # "none"
  BY <1>5, <1>7, <1>8, <1>10
<1>13. IF store
       THEN /\ cleanup'[t] # "none" /\ commit_id'[t] = id
            /\ active_transaction_state'[t] = active_transaction_state[t]
       ELSE cleanup'[t] = "none" /\ commit_id'[t] = 0 /\ active_transaction_state'[t] = "unset"
  BY <1>1, <1>2, <1>5, <1>6, <1>8, <1>10
<1>14. \A u \in Txns : cleanup'[u] = "scheduled" =>
                \/ cleanup[u] = "scheduled" /\ u # t
                \/ \A v \in Running \ {t} : commit_id'[u] < start_time[v]
  <2> SUFFICES ASSUME NEW u \in Txns, cleanup'[u] = "scheduled", ~(cleanup[u] = "scheduled" /\ u # t),
                      NEW v \in Running \ {t}
               PROVE  commit_id'[u] < start_time[v]
    OBVIOUS
  <2>1. u \in stored
    BY <1>2, <1>5
  <2>2. committed[u] < lowest /\ committed[u] \in Nat
    BY <1>5, <1>10, <2>1
  <2>3. commit_id'[u] = committed[u]
    BY <1>5, <1>8, <1>10, <2>1
  <2> QED
    BY <1>3, <1>4, <2>2, <2>3
<1> QED
  BY <1>9, <1>10, <1>11, <1>12, <1>13, <1>14

\* Rows whose deleter changes only, and with no effect on the rows in use, and more timestamps.
LEMMA OnlyDeleters ==
    ASSUME TableInv, rows' \in Seq(RowRecords), Len(rows') = Len(rows),
           \A r \in RowIds : /\ rows'[r].key = rows[r].key /\ rows'[r].inserted = rows[r].inserted
                             /\ rows'[r].deleted = rows[r].deleted,
           InUse' = InUse,
           T # NoTxn => local_storage'[T] = local_storage[T],
           UNCHANGED <<entry, row_groups, commit, checkpoint>>
    PROVE  /\ UniqueKeys' /\ Groups' /\ Written' /\ Indexed'
           /\ Old' = Old /\ Delta' = Delta /\ Live' = Live
<1> USE DEF TableInv
<1>0. RowIds' = RowIds
  BY RowFields DEF RowIds
<1>1. UniqueKeys'
  BY <1>0 DEF UniqueKeys
<1>2. Groups'
  <2>1. rows # <<>> <=> rows' # <<>>
    <3>1. rows \in Seq(RowRecords)
      BY DEF Types, TableTypes
    <3> QED
      BY <3>1
  <2> QED
    BY <2>1 DEF Groups
<1>3. Old' = Old /\ Delta' = Delta /\ Live' = Live
  BY <1>0 DEF Old, Delta, Live, Never
<1>4. Pending' = Pending
  <2>1. commit.pc = "indexes" => T # NoTxn
    BY DEF OneCommit, NoCommit, T
  <2>2. T' = T
    BY DEF T
  <2> QED
    BY <2>1, <2>2 DEF Pending, Chunks
<1>5. Written'
  BY <1>3 DEF Written
<1>6. Indexed'
  <2> DEFINE D == {r \in Old : rows[r].deleted > checkpoint.id}
             D2 == {r \in Old : rows[r].deleted > checkpoint.id /\ rows[r].deleted # Never}
  <2>1. D' = D /\ D2' = D2 /\ D \subseteq RowIds /\ D2 \subseteq RowIds
        /\ Live \subseteq RowIds /\ InUse \subseteq RowIds /\ (Live \ Old) \subseteq RowIds
    BY <1>0, <1>3 DEF Old, Live, InUse, Never
  <2>2. EntriesOf(Live)' = EntriesOf(Live) /\ EntriesOf(InUse)' = EntriesOf(InUse)
        /\ EntriesOf(Live \ Old)' = EntriesOf(Live \ Old)
        /\ EntriesOf(D)' = EntriesOf(D) /\ EntriesOf(D2)' = EntriesOf(D2)
    BY <1>0, <1>3, <2>1, EntriesKept DEF EntriesOf, EntryOf
  <2> QED
    BY <1>0, <1>3, <1>4, <2>2 DEF Indexed
<1> QED
  BY <1>1, <1>2, <1>3, <1>5, <1>6

\* The rows without the marks of a transaction.
LEMMA UndeletedRows ==
    ASSUME Types, NEW t
    PROVE  /\ Undeleted(t) \in Seq(RowRecords) /\ Len(Undeleted(t)) = Len(rows)
           /\ DOMAIN Undeleted(t) = RowIds
           /\ \A r \in RowIds : /\ Undeleted(t)[r].key = rows[r].key
                                /\ Undeleted(t)[r].inserted = rows[r].inserted
                                /\ IF rows[r].deleter = t
                                   THEN Undeleted(t)[r].deleter = NoTxn /\ Undeleted(t)[r].deleted = Never
                                   ELSE Undeleted(t)[r] = rows[r]
<1>1. Len(rows) \in Nat /\ RowIds = 1 .. Len(rows) /\ \A r \in RowIds : rows[r] \in RowRecords
  BY RowFields
<1>2. \A r \in RowIds : Undeleted(t)[r] = IF rows[r].deleter = t
                                          THEN [rows[r] EXCEPT !.deleter = NoTxn, !.deleted = Never]
                                          ELSE rows[r]
  BY DEF Undeleted
<1>3. \A r \in RowIds : /\ Undeleted(t)[r] \in RowRecords
                        /\ Undeleted(t)[r].key = rows[r].key
                        /\ Undeleted(t)[r].inserted = rows[r].inserted
                        /\ IF rows[r].deleter = t
                           THEN Undeleted(t)[r].deleter = NoTxn /\ Undeleted(t)[r].deleted = Never
                           ELSE Undeleted(t)[r] = rows[r]
  <2> TAKE r \in RowIds
  <2>1. rows[r] \in RowRecords /\ Never \in Ids
    BY <1>1, Constants
  <2>2. CASE rows[r].deleter = t
    BY <1>2, <2>1, <2>2 DEF RowRecords
  <2>3. CASE rows[r].deleter # t
    BY <1>2, <2>1, <2>3
  <2> QED
    BY <2>2, <2>3
<1>4. Undeleted(t) = [r \in 1 .. Len(rows) |-> Undeleted(t)[r]]
  BY <1>1 DEF Undeleted
<1>5. Undeleted(t) \in Seq(RowRecords) /\ Len(Undeleted(t)) = Len(rows) /\ DOMAIN Undeleted(t) = RowIds
  BY <1>1, <1>3, <1>4
<1> QED
  BY <1>3, <1>5

\* More commits, of transactions without changes.
LEMMA LaterCheckpointIds ==
    ASSUME CheckpointIds, last_commit \in Nat, last_commit' \in Nat, last_commit <= last_commit',
           checkpoint.id \in Nat, entry.last_written \in Nat, last_seen_checkpoint \in Nat,
           UNCHANGED <<active_checkpoint, checkpoint, checkpoint_wal, wal, entry, last_seen_checkpoint, commit>>
    PROVE  CheckpointIds'
<1>1. \A x \in Nat : /\ Earlier(x, last_commit) => Earlier(x, last_commit')
                     /\ Earlier(x, last_commit + 1) => Earlier(x, last_commit' + 1)
  <2>1. \A a, b, x \in Nat : a <= b => (x < a => x < b) /\ (x < a + 1 => x < b + 1)
    OBVIOUS
  <2> QED
    BY <2>1, Zenon DEF Earlier
<1>2. /\ checkpoint.id <= last_commit => checkpoint.id <= last_commit'
      /\ checkpoint.id < last_commit => checkpoint.id < last_commit'
  <2>1. \A a, b, x \in Nat : a <= b => (x < a => x < b) /\ (x <= a => x <= b)
    OBVIOUS
  <2> QED
    BY <2>1, Zenon
<1>3. /\ WALSwitched' = WALSwitched /\ Delta' = Delta /\ TableLockExclusive' = TableLockExclusive
      /\ TableLockShared' = TableLockShared
  BY DEF WALSwitched, Delta, TableLockExclusive, TableLockShared
<1> QED
  BY <1>1, <1>2, <1>3, SMTT(30) DEF CheckpointIds

\* A transaction without committed deletes ends.
LEMMA EndTransactionInv ==
    ASSUME TableInv, NEW t \in Running, T # t, commit.pc # "undo",
           rows' = Undeleted(t), undo_buffer' = [undo_buffer EXCEPT ![t] = <<>>],
           NEW id \in Nat, RemoveTransaction(t, id), id = 0 \/ undo_buffer[t] = <<>>,
           \/ UNCHANGED <<current_start_timestamp, last_commit>>
           \/ /\ last_commit' = current_start_timestamp
              /\ current_start_timestamp' = current_start_timestamp + 1
              /\ current_start_timestamp + 1 < Infinity,
           UNCHANGED <<active_checkpoint, row_groups, require_new, last_seen_checkpoint,
                       checkpoint_row_group_count, entry, commit, wal, checkpoint_wal, checkpoint,
                       fatal, behaviours>>
    PROVE  TableInv'
<1> USE DEF TableInv
<1>1. t \in Txns /\ Running \subseteq Txns /\ t # NoTxn
  BY TxnFields DEF Running
<1>2. /\ Running' = Running \ {t} /\ status'[t] = "done" /\ status' \in [Txns -> Statuses]
      /\ start_time' \in [Txns -> Nat] /\ commit_id' \in [Txns -> Nat]
      /\ local_storage' \in [Txns -> Seq(Keys)] /\ local_storage'[t] = <<>>
      /\ active_transaction_state' \in [Txns -> {"unset", "none", "others"}]
      /\ cleanup' \in [Txns -> {"none", "stored", "scheduled"}]
      /\ \A u \in Txns \ {t} : /\ status'[u] = status[u] /\ start_time'[u] = start_time[u]
                               /\ commit_id'[u] = commit_id[u] /\ local_storage'[u] = local_storage[u]
                               /\ active_transaction_state'[u] = active_transaction_state[u]
                               /\ cleanup'[u] # "none" <=> cleanup[u] # "none"
      /\ cleanup'[t] = "none" /\ commit_id'[t] = 0
      /\ \A u \in Txns : cleanup'[u] = "scheduled" =>
                \/ cleanup[u] = "scheduled" /\ u # t
                \/ \A v \in Running \ {t} : commit_id'[u] < start_time[v]
  BY RemoveTransactionEffect, Zenon
<1>3. /\ rows' \in Seq(RowRecords) /\ Len(rows') = Len(rows) /\ RowIds' = RowIds
      /\ \A r \in RowIds : /\ rows'[r].key = rows[r].key /\ rows'[r].inserted = rows[r].inserted
                           /\ rows'[r].deleted = rows[r].deleted
                           /\ rows'[r].deleter = IF rows[r].deleter = t THEN NoTxn ELSE rows[r].deleter
  <2>1. \A r \in RowIds : rows[r].deleter = t => rows[r].deleted = Never
    BY RunningDeletes
  <2> QED
    BY <2>1, UndeletedRows DEF RowIds
<1>4. /\ undo_buffer' \in [Txns -> Seq(SUBSET RowId)] /\ undo_buffer'[t] = <<>>
      /\ \A u \in Txns \ {t} : undo_buffer'[u] = undo_buffer[u]
  BY <1>1 DEF Types, TransactionTypes
<1>5. /\ DeletedBy(t)' = {} /\ \A u \in Txns \ {t} : DeletedBy(u)' = DeletedBy(u)
      /\ \A u \in Txns : \A r \in DeletedBy(u) : r \in RowIds /\ rows[r].deleter = u
  <2>1. DeletedBy(t)' = {}
    BY <1>4 DEF DeletedBy, Range
  <2>2. \A u \in Txns \ {t} : DeletedBy(u)' = DeletedBy(u)
    BY <1>4 DEF DeletedBy
  <2> QED
    BY <2>1, <2>2, DeletedRows, TxnFields DEF Deletes
<1>6. /\ last_commit \in Nat /\ last_commit' \in Nat /\ current_start_timestamp \in Nat
      /\ current_start_timestamp' \in Nat /\ last_commit <= last_commit'
      /\ current_start_timestamp <= current_start_timestamp' /\ last_commit' < current_start_timestamp'
      /\ current_start_timestamp' < Infinity
  <2>1. /\ last_commit \in Nat /\ current_start_timestamp \in Nat
        /\ last_commit < current_start_timestamp /\ current_start_timestamp < Infinity
    BY CheckpointFields DEF Times
  <2> QED
    BY <2>1
<1>7. Types'
  BY <1>2, <1>3, <1>4, <1>6 DEF Types, TransactionTypes, TableTypes
<1>8. T' = T /\ commit' = commit /\ (T # NoTxn => T \in Txns \ {t})
  BY CommitFields DEF T
<1>9. Times'
  <2>1. \A u \in Running' : start_time'[u] < current_start_timestamp'
    <3> TAKE u \in Running'
    <3>1. u \in Running /\ u \in Txns /\ start_time'[u] = start_time[u]
      BY <1>1, <1>2
    <3>2. start_time[u] < current_start_timestamp /\ start_time[u] \in Nat
      BY <3>1, TxnFields DEF Times
    <3> QED
      BY <1>6, <3>1, <3>2
  <2>2. \A u \in Txns : commit_id'[u] <= last_commit'
    <3> TAKE u \in Txns
    <3>1. commit_id'[u] = 0 \/ commit_id'[u] = commit_id[u]
      BY <1>2
    <3>2. commit_id[u] <= last_commit /\ commit_id[u] \in Nat
      BY TxnFields DEF Times
    <3> QED
      BY <1>6, <3>1, <3>2
  <2>3. \A r \in RowIds : \/ rows[r].inserted <= last_commit'
                          \/ rows[r].inserted = Infinity /\ commit.appended /\ r > commit.row_start
    BY <1>6, RowFields DEF Times
  <2>4. \A r \in RowIds : rows[r].deleted <= last_commit' \/ rows[r].deleted = Never
    BY <1>6, RowFields DEF Times
  <2>5. \A r, s \in RowIds : r <= s => rows[r].inserted <= rows[s].inserted
    BY DEF Times
  <2> QED
    BY <1>3, <1>6, <1>8, <2>1, <2>2, <2>3, <2>4, <2>5 DEF Times, Never
<1>10. T # NoTxn => /\ status'[T] = status[T] /\ undo_buffer'[T] = undo_buffer[T] /\ Chunks' = Chunks
                    /\ DeletedBy(T)' = DeletedBy(T)
  BY <1>2, <1>4, <1>5, <1>8 DEF Chunks, DeletedBy
<1>11. commit.pc # "none" \/ commit.appended => T # NoTxn
  BY DEF OneCommit, NoCommit, T
<1>12. OneCommit'
  <2>1. Appended'
    <3> SUFFICES ASSUME commit.appended PROVE Appended'
      BY DEF Appended
    <3>1. Len(Chunks) \in Nat /\ commit.row_start \in Nat /\ T # NoTxn
      BY <1>11, CommitFields, TxnFields DEF Chunks
    <3>2. Len(rows) = commit.row_start + Len(Chunks) /\ commit.chunks = Len(Chunks)
      BY DEF OneCommit, Appended
    <3>3. \A i \in 1 .. Len(Chunks) : commit.row_start + i \in RowIds
      BY <3>1, <3>2, RowFields
    <3>4. \A i \in 1 .. Len(Chunks) : LET row == rows[commit.row_start + i] IN
              /\ row.key = Chunks[i] /\ row.inserted = Infinity
              /\ row.deleter = NoTxn /\ row.deleted = Never
      BY DEF OneCommit, Appended
    <3>5. ASSUME NEW i \in 1 .. Len(Chunks)
          PROVE  LET row == rows'[commit.row_start + i] IN
                    /\ row.key = Chunks[i] /\ row.inserted = Infinity
                    /\ row.deleter = NoTxn /\ row.deleted = Never
      BY <1>1, <1>3, <3>3, <3>4
    <3>6. Chunks' = Chunks
      BY <1>10, <3>1
    <3> QED
      BY <1>3, <1>8, <3>2, <3>5, <3>6 DEF Appended, Never
  <2> QED
    BY <1>3, <1>8, <1>10, <2>1 DEF OneCommit, HasChanges, T, NoCommit, Chunks, Flushing
<1>13. Deletes'
  <2>1. \A u \in Txns : \A i \in DOMAIN undo_buffer'[u] : \A r \in undo_buffer'[u][i] :
           r \in RowIds' /\ rows'[r].deleter = u /\ rows'[r].inserted <= last_commit'
    <3> SUFFICES ASSUME NEW u \in Txns, NEW i \in DOMAIN undo_buffer'[u], NEW r \in undo_buffer'[u][i]
                 PROVE  r \in RowIds' /\ rows'[r].deleter = u /\ rows'[r].inserted <= last_commit'
      OBVIOUS
    <3>1. u # t
      BY <1>4
    <3>2. r \in RowIds /\ rows[r].deleter = u /\ rows[r].inserted <= last_commit
      BY <1>4, <3>1 DEF Deletes
    <3> QED
      BY <1>3, <1>6, <3>1, <3>2, RowFields
  <2>2. \A u \in Txns : \A i, j \in DOMAIN undo_buffer'[u] :
           i # j => undo_buffer'[u][i] \cap undo_buffer'[u][j] = {}
    <3> SUFFICES ASSUME NEW u \in Txns, NEW i \in DOMAIN undo_buffer'[u], NEW j \in DOMAIN undo_buffer'[u], i # j
                 PROVE  undo_buffer'[u][i] \cap undo_buffer'[u][j] = {}
      OBVIOUS
    <3>1. u # t
      BY <1>4
    <3> QED
      BY <1>4, <3>1 DEF Deletes
  <2>3. \A r \in RowIds : rows'[r].deleter = NoTxn => rows'[r].deleted = Never
    BY <1>3, RunningDeletes DEF Deletes
  <2>4. \A u \in Txns, r \in RowIds' : rows'[r].deleter = u =>
          IF u \in Running'
          THEN /\ r \in DeletedBy(u)'
               /\ ~(u = T' /\ commit'.pc = "undo") => rows'[r].deleted = Never
          ELSE status'[u] = "done" /\ rows'[r].deleted <= last_commit'
    <3> SUFFICES ASSUME NEW u \in Txns, NEW r \in RowIds, rows'[r].deleter = u
                 PROVE  IF u \in Running'
                        THEN r \in DeletedBy(u)' /\ rows'[r].deleted = Never
                        ELSE status'[u] = "done" /\ rows'[r].deleted <= last_commit'
      BY <1>3
    <3>1. u # NoTxn
      BY TxnFields
    <3>2. rows[r].deleter = u /\ u # t
      BY <1>3, <3>1
    <3>3. IF u \in Running
          THEN r \in DeletedBy(u) /\ rows[r].deleted = Never
          ELSE status[u] = "done" /\ rows[r].deleted <= last_commit
      BY <3>2 DEF Deletes
    <3> QED
      BY <1>2, <1>3, <1>5, <1>6, <3>2, <3>3, RowFields, SMTT(30)
  <2>5. Never' = Never
    BY DEF Never
  <2> QED
    BY <1>3, <1>8, <2>1, <2>2, <2>3, <2>4, <2>5 DEF Deletes
<1>14. Ended'
  <2>1. ASSUME NEW u \in Txns \ {t}
        PROVE  /\ status'[u] = "idle" => undo_buffer'[u] = <<>> /\ local_storage'[u] = <<>>
               /\ status'[u] = "done" => /\ local_storage'[u] = <<>>
                                         /\ cleanup'[u] = "none" => undo_buffer'[u] = <<>>
               /\ cleanup'[u] # "none" => /\ status'[u] = "done"
                                          /\ \A r \in DeletedBy(u)' : rows'[r].deleted = commit_id'[u]
    <3>1. /\ status[u] = "idle" => undo_buffer[u] = <<>> /\ local_storage[u] = <<>>
          /\ status[u] = "done" => /\ local_storage[u] = <<>>
                                   /\ cleanup[u] = "none" => undo_buffer[u] = <<>>
          /\ cleanup[u] # "none" => /\ status[u] = "done"
                                    /\ \A r \in DeletedBy(u) : rows[r].deleted = commit_id[u]
      BY DEF Ended
    <3>2. /\ status'[u] = status[u] /\ commit_id'[u] = commit_id[u] /\ local_storage'[u] = local_storage[u]
          /\ cleanup'[u] # "none" <=> cleanup[u] # "none"
      BY <1>2
    <3>3. \A r \in DeletedBy(u) : rows'[r].deleted = rows[r].deleted
      BY <1>3, <1>5
    <3>4. undo_buffer'[u] = undo_buffer[u] /\ DeletedBy(u)' = DeletedBy(u)
      BY <1>4, <1>5
    <3> QED
      BY <3>1, <3>2, <3>3, <3>4
  <2> QED
    BY <1>1, <1>2, <1>4, <1>5, <2>1 DEF Ended
<1>15. InUse' = InUse
  <2>1. \A r \in DeletedBy(t) : rows[r].deleted = Never
    BY <1>1, <1>5, RunningDeletes
  <2>2. \A u \in Txns \ {t} : active_transaction_state'[u] = active_transaction_state[u]
    BY <1>2
  <2> QED
    BY <1>1, <1>3, <1>5, <2>1, <2>2 DEF InUse, Never
<1>16. Kept'
  <2>1. \A v \in Running', r \in RowIds' :
          start_time'[v] <= rows'[r].deleted /\ rows'[r].deleted # Never /\ rows'[r].deleter # v => r \in InUse
    <3>1. \A r \in RowIds : rows[r].deleter = t => rows[r].deleted = Never
      BY RunningDeletes
    <3> TAKE v \in Running', r \in RowIds'
    <3>2. v \in Running /\ v # t /\ start_time'[v] = start_time[v] /\ r \in RowIds
      BY <1>1, <1>2, <1>3
    <3>3. start_time[v] <= rows[r].deleted /\ rows[r].deleted # Never /\ rows[r].deleter # v => r \in InUse
      BY <3>2 DEF Kept
    <3> QED
      BY <1>3, <3>1, <3>2, <3>3
  <2>2. \A v \in Running', u \in Txns : cleanup'[u] = "scheduled" => commit_id'[u] < start_time'[v]
    <3> SUFFICES ASSUME NEW v \in Running', NEW u \in Txns, cleanup'[u] = "scheduled"
                 PROVE  commit_id'[u] < start_time'[v]
      OBVIOUS
    <3>1. v \in Running \ {t} /\ start_time'[v] = start_time[v]
      BY <1>1, <1>2
    <3>2. CASE cleanup[u] = "scheduled" /\ u # t
      BY <1>2, <3>1, <3>2 DEF Kept
    <3> QED
      BY <1>2, <3>1, <3>2
  <2>3. Never' = Never
    BY DEF Never
  <2> QED
    BY <1>8, <1>15, <2>1, <2>2, <2>3 DEF Kept
<1>17. UniqueKeys' /\ Groups' /\ Written' /\ Indexed' /\ Old' = Old /\ Delta' = Delta /\ Live' = Live
  BY <1>2, <1>3, <1>8, <1>15, OnlyDeleters
<1>18. Alive' = Alive
  <2>1. \A r \in RowIds : rows[r].deleter = t => rows[r].deleted = Never
    BY RunningDeletes
  <2> QED
    BY <1>1, <1>3, <1>8, <2>1 DEF Alive, Never
<1>19. Distinct'
  <2>1. \A u \in Txns : \A i, j \in 1 .. Len(local_storage'[u]) :
           local_storage'[u][i] = local_storage'[u][j] => i = j
    <3>1. \A i \in 1 .. Len(local_storage'[t]) : FALSE
      BY <1>2
    <3>2. \A u \in Txns \ {t} : \A i, j \in 1 .. Len(local_storage[u]) : local_storage[u][i] = local_storage[u][j] => i = j
      BY DEF Distinct
    <3> TAKE u \in Txns
    <3>3. u # t => local_storage'[u] = local_storage[u]
      BY <1>2
    <3> QED
      BY <3>1, <3>2, <3>3
  <2>2. \A r, s \in Alive : r < s /\ rows'[r].key = rows'[s].key =>
           commit.appended /\ s > commit.row_start /\ r \in DeletedBy(T)'
    BY <1>3, <1>10, <1>11 DEF Distinct, Alive
  <2>3. commit.pc = "indexes" => \A i \in 1 .. commit.chunks, r \in Alive :
           rows'[r].key = Chunks'[i] => r \in DeletedBy(T)'
    BY <1>3, <1>10, <1>11 DEF Distinct, Alive
  <2> QED
    BY <1>8, <1>18, <2>1, <2>2, <2>3 DEF Distinct
<1>20. CheckpointIds'
  <2>1. /\ checkpoint.id \in Nat /\ entry.last_written \in Nat /\ last_seen_checkpoint \in Nat
    BY CheckpointFields, EntryFields, Constants
  <2> QED
    BY <1>6, <1>8, <2>1, LaterCheckpointIds
<1>21. Split'
  <2>1. \A r : NewGroup(r)' = NewGroup(r)
    BY DEF NewGroup
  <2>2. TableLockShared' = TableLockShared
    BY <1>8 DEF TableLockShared
  <2>3. Delta => \A u \in Running' : \A i \in DOMAIN undo_buffer'[u] :
              undo_buffer'[u][i] \subseteq Old \/ undo_buffer'[u][i] \cap Old = {}
    BY <1>1, <1>2, <1>4 DEF Split
  <2> QED
    BY <1>3, <1>17, <2>1, <2>2, <2>3 DEF Split
<1>22. NoLateConflict'
  <2>1. Delta /\ commit.pc \in {"flush", "locked", "indexes"} =>
           \A i \in 2 .. Len(Chunks'), r \in Live :
              i > commit.chunks /\ rows'[r].key = Chunks'[i] => r \in DeletedBy(T)'
    BY <1>3, <1>10, <1>11 DEF NoLateConflict, Live
  <2> QED
    BY <1>8, <1>17, <2>1 DEF NoLateConflict
<1>23. Regular'
  BY FrameRegular
<1> QED
  BY <1>7, <1>9, <1>12, <1>13, <1>14, <1>16, <1>17, <1>19, <1>20, <1>21, <1>22, <1>23

\* A transaction without changes only draws a commit id and is removed.
LEMMA CommitReadOnlyInv ==
    ASSUME TableInv, NEW t \in Txns, CommitReadOnly(t)
    PROVE  TableInv'
<1> USE DEF TableInv
<1>1. /\ status[t] = "active" /\ ~HasChanges(t) /\ commit.pc # "undo"
      /\ current_start_timestamp + 1 < Infinity
      /\ current_start_timestamp' = current_start_timestamp + 1
      /\ last_commit' = current_start_timestamp
      /\ RemoveTransaction(t, current_start_timestamp)
      /\ UNCHANGED <<active_checkpoint, undo_buffer, table, entry,
                     commit, wal, checkpoint_wal, checkpoint, fatal, behaviours>>
  BY DEF CommitReadOnly, TransactionLockFree, DrawTimestamp
<1>2. UNCHANGED <<rows, row_groups, require_new, last_seen_checkpoint, checkpoint_row_group_count>>
  BY <1>1 DEF table
<1>3. t \in Running /\ undo_buffer[t] = <<>> /\ T # t
  BY <1>1, Constants DEF Running, HasChanges, OneCommit, T
<1>4. \A r \in RowIds : rows[r].deleter # t
  BY <1>1, <1>3, NoDeletedRows, RunningDeletes
<1>5. rows' = Undeleted(t)
  <2>1. rows = [r \in RowIds |-> rows[r]]
    BY DEF Types, TableTypes, RowIds
  <2>2. Undeleted(t) = [r \in RowIds |-> rows[r]]
    BY <1>4 DEF Undeleted
  <2> QED
    BY <1>2, <2>1, <2>2
<1>6. undo_buffer' = [undo_buffer EXCEPT ![t] = <<>>]
  BY <1>1, <1>3 DEF Types, TransactionTypes
<1>7. current_start_timestamp \in Nat
  BY CheckpointFields
<1> QED
  BY <1>1, <1>2, <1>3, <1>5, <1>6, <1>7, EndTransactionInv

\* UndoBuffer::Rollback takes the deletes back; a transaction that does not commit has no rows in the table.
LEMMA RollbackTransactionInv ==
    ASSUME TableInv, NEW t \in Txns, RollbackTransaction(t)
    PROVE  TableInv'
<1>1. /\ t \in Running /\ T # t /\ commit.pc # "undo"
      /\ rows' = Undeleted(t) /\ RemoveTransaction(t, 0)
      /\ undo_buffer' = [undo_buffer EXCEPT ![t] = <<>>]
      /\ UNCHANGED <<manager, row_groups, require_new, last_seen_checkpoint, checkpoint_row_group_count,
                     entry, commit, wal, checkpoint_wal, checkpoint, fatal, behaviours>>
  BY DEF RollbackTransaction, TransactionLockFree, T
<1>2. UNCHANGED <<current_start_timestamp, last_commit, active_checkpoint>>
  BY <1>1 DEF manager
<1> QED
  BY <1>1, <1>2, EndTransactionInv

\* The deletes of a transaction that everybody sees leave the rows in use.
LEMMA CleanupInv ==
    ASSUME TableInv, NEW t \in Txns, Cleanup(t)
    PROVE  TableInv'
<1> USE DEF TableInv
<1> DEFINE in_use == entry.deleted_rows_in_use
           others == active_transaction_state[t] = "others"
<1>1. /\ cleanup[t] = "scheduled"
      /\ cleanup' = [cleanup EXCEPT ![t] = "none"]
      /\ IF others /\ Exists(in_use)
         THEN /\ entry' = [entry EXCEPT !.deleted_rows_in_use = <<Entries(in_use) \ DeleteIndex(t)>>]
              /\ fatal' = DeleteFails(Entries(in_use), DeleteIndex(t))
         ELSE UNCHANGED <<entry, fatal>>
      /\ commit_id' = [commit_id EXCEPT ![t] = 0]
      /\ active_transaction_state' = [active_transaction_state EXCEPT ![t] = "unset"]
      /\ undo_buffer' = [undo_buffer EXCEPT ![t] = <<>>]
      /\ UNCHANGED <<manager, status, start_time, local_storage, table, commit, wal,
                     checkpoint_wal, checkpoint, behaviours>>
  BY DEF Cleanup, CleanupDelete
<1>2. UNCHANGED <<current_start_timestamp, last_commit, active_checkpoint, rows, row_groups, require_new,
                  last_seen_checkpoint, checkpoint_row_group_count>>
  BY <1>1 DEF manager, table
<1>3. status[t] = "done" /\ t \notin Running /\ T # t /\ t # NoTxn
      /\ \A r \in DeletedBy(t) : rows[r].deleted = commit_id[t]
  BY <1>1, Constants DEF Ended, Running, OneCommit, T
<1>4. /\ \A u \in Txns \ {t} : /\ undo_buffer'[u] = undo_buffer[u] /\ commit_id'[u] = commit_id[u]
                               /\ active_transaction_state'[u] = active_transaction_state[u]
                               /\ cleanup'[u] = cleanup[u]
      /\ undo_buffer'[t] = <<>> /\ commit_id'[t] = 0 /\ active_transaction_state'[t] = "unset" /\ cleanup'[t] = "none"
      /\ undo_buffer' \in [Txns -> Seq(SUBSET RowId)] /\ commit_id' \in [Txns -> Nat]
      /\ active_transaction_state' \in [Txns -> {"unset", "none", "others"}]
      /\ cleanup' \in [Txns -> {"none", "stored", "scheduled"}]
  BY <1>1 DEF Types, TransactionTypes
<1>5. /\ RowIds' = RowIds /\ T' = T /\ Running' = Running
      /\ DeletedBy(t)' = {} /\ \A u \in Txns \ {t} : DeletedBy(u)' = DeletedBy(u)
      /\ \A u \in Txns : \A r \in DeletedBy(u) : r \in RowIds /\ rows[r].deleter = u
  <2>1. DeletedBy(t)' = {}
    BY <1>4 DEF DeletedBy, Range
  <2>2. \A u \in Txns \ {t} : DeletedBy(u)' = DeletedBy(u)
    BY <1>4 DEF DeletedBy
  <2>3. \A u \in Txns : \A r \in DeletedBy(u) : r \in RowIds /\ rows[r].deleter = u
    BY DeletedRows, TxnFields DEF Deletes
  <2> QED
    BY <1>1, <1>2, <2>1, <2>2, <2>3 DEF RowIds, T, Running
<1>6. \A r \in DeletedBy(t) : rows[r].deleted # Never
  <2>1. commit_id[t] <= last_commit /\ commit_id[t] \in Nat
    BY TxnFields DEF Times
  <2>2. last_commit < Infinity
    BY CheckpointFields, Constants DEF Times
  <2> QED
    BY <1>3, <2>1, <2>2, CheckpointFields, Constants
<1>7. InUse' = IF others THEN InUse \ DeletedBy(t) ELSE InUse
  <2>1. \A r \in RowIds, u \in Txns : r \in DeletedBy(u) /\ r \in DeletedBy(t) => u = t
    BY <1>5
  <2>2. InUse' = {r \in RowIds : /\ rows[r].deleted # Never
                                 /\ \E u \in Txns \ {t} : r \in DeletedBy(u) /\ active_transaction_state[u] = "others"}
    <3>1. active_transaction_state'[t] # "others"
      BY <1>4
    <3>2. \A u \in Txns \ {t} : active_transaction_state'[u] = active_transaction_state[u] /\ DeletedBy(u)' = DeletedBy(u)
      BY <1>4, <1>5
    <3>3. \A r : (\E u \in Txns : r \in DeletedBy(u)' /\ active_transaction_state'[u] = "others")
                  <=> (\E u \in Txns \ {t} : r \in DeletedBy(u) /\ active_transaction_state[u] = "others")
      BY <3>1, <3>2
    <3>4. RowIds' = RowIds /\ rows' = rows
      BY <1>2, <1>5
    <3> QED
      BY <3>3, <3>4 DEF InUse, Never
  <2> QED
    BY <2>1, <2>2 DEF InUse
<1>8. others => DeletedBy(t) \subseteq InUse
  BY <1>5, <1>6 DEF InUse
<1>9. DeleteIndex(t) = EntriesOf(DeletedBy(t))
  BY DEF DeleteIndex
<1>10. fatal' = FALSE
  <2>1. CASE others /\ Exists(in_use)
    <3>1. DeleteIndex(t) \subseteq Entries(in_use)
      <4>1. EntriesOf(DeletedBy(t)) \subseteq EntriesOf(InUse)
        BY <1>8, <2>1, EntriesAlgebra
      <4>2. Entries(in_use) = EntriesOf(InUse)
        BY DEF Indexed
      <4> QED
        BY <1>9, <4>1, <4>2
    <3> QED
      BY <1>1, <2>1, <3>1 DEF DeleteFails
  <2>2. CASE ~(others /\ Exists(in_use))
    BY <1>1, <2>2 DEF Types
  <2> QED
    BY <2>1, <2>2
<1>11. /\ entry'.index = entry.index /\ entry'.added = entry.added /\ entry'.removed = entry.removed
       /\ entry'.last_written = entry.last_written /\ entry' \in IndexEntries
       /\ Entries(entry'.deleted_rows_in_use) = EntriesOf(InUse)'
  <2>1. EntriesOf(InUse)' = EntriesOf(InUse')
    BY <1>2 DEF EntriesOf, EntryOf
  <2>2. CASE others /\ Exists(in_use)
    <3> DEFINE E == Entries(in_use) \ DeleteIndex(t)
    <3>1. entry \in IndexEntries /\ E \in Index /\ <<E>> \in Ptrs
      BY EntryFields, Pointers DEF Types, Index
    <3> HIDE DEF E
    <3>2. entry' = [entry EXCEPT !.deleted_rows_in_use = <<E>>]
      BY <1>1, <2>2 DEF E
    <3>3. /\ entry'.index = entry.index /\ entry'.added = entry.added /\ entry'.removed = entry.removed
          /\ entry'.last_written = entry.last_written /\ entry' \in IndexEntries
          /\ entry'.deleted_rows_in_use = <<E>>
      BY <3>1, <3>2 DEF IndexEntries
    <3>4. E = EntriesOf(InUse')
      <4>1. InUse' = InUse \ DeletedBy(t) /\ Entries(in_use) = EntriesOf(InUse)
        BY <1>7, <2>2 DEF Indexed
      <4>2. EntriesOf(InUse \ DeletedBy(t)) = EntriesOf(InUse) \ EntriesOf(DeletedBy(t))
        BY EntriesAlgebra
      <4> QED
        BY <1>9, <4>1, <4>2 DEF E
    <3> QED
      BY <2>1, <3>3, <3>4, Pointers
  <2>3. CASE ~(others /\ Exists(in_use))
    <3>1. InUse' = InUse
      <4>1. CASE others
        <5>1. EntriesOf(InUse) = {}
          BY <2>3, <4>1 DEF Indexed, Entries
        <5>2. InUse = {}
          BY <5>1 DEF EntriesOf
        <5>3. InUse' = InUse \ DeletedBy(t)
          BY <1>7, <4>1
        <5> QED
          BY <5>2, <5>3
      <4>2. CASE ~others
        BY <1>7, <4>2
      <4> QED
        BY <4>1, <4>2
    <3> QED
      BY <1>1, <2>1, <2>3, <3>1 DEF Indexed, Types
  <2> QED
    BY <2>2, <2>3
<1>12. Types'
  BY <1>1, <1>2, <1>4, <1>10, <1>11 DEF Types, TransactionTypes, TableTypes
<1>13. Times'
  <2>1. \A u \in Txns : commit_id'[u] <= last_commit
    <3> TAKE u \in Txns
    <3>1. commit_id'[u] = 0 \/ commit_id'[u] = commit_id[u]
      BY <1>4
    <3>2. commit_id[u] <= last_commit /\ last_commit \in Nat
      BY CheckpointFields DEF Times
    <3> QED
      BY <3>1, <3>2
  <2> QED
    BY <1>1, <1>2, <1>5, <2>1 DEF Times, Never
<1>14. T # NoTxn => T \in Txns \ {t} /\ undo_buffer'[T] = undo_buffer[T] /\ DeletedBy(T)' = DeletedBy(T) /\ Chunks' = Chunks
                    /\ active_transaction_state'[T] = active_transaction_state[T]
  BY <1>1, <1>3, <1>4, <1>5, CommitFields DEF Chunks, DeletedBy
<1>15. commit.pc # "none" \/ commit.appended => T # NoTxn
  BY DEF OneCommit, NoCommit, T
<1>16. OneCommit'
  BY <1>1, <1>2, <1>14 DEF OneCommit, Appended, Chunks, HasChanges, T, NoCommit, Never
<1>17. Deletes'
  <2>1. \A u \in Txns : \A i \in DOMAIN undo_buffer'[u] : \A r \in undo_buffer'[u][i] :
          r \in RowIds /\ rows[r].deleter = u /\ rows[r].inserted <= last_commit
    <3> TAKE u \in Txns
    <3>1. CASE u = t
      BY <1>4, <3>1
    <3>2. CASE u # t
      <4>1. undo_buffer'[u] = undo_buffer[u]
        BY <1>4, <3>2
      <4> QED
        BY <4>1 DEF Deletes
    <3> QED
      BY <3>1, <3>2
  <2>2. \A u \in Txns : \A i, j \in DOMAIN undo_buffer'[u] :
          i # j => undo_buffer'[u][i] \cap undo_buffer'[u][j] = {}
    <3>1. \A i \in DOMAIN undo_buffer'[t] : FALSE
      BY <1>4
    <3>2. \A u \in Txns \ {t} : \A i, j \in DOMAIN undo_buffer[u] : i # j => undo_buffer[u][i] \cap undo_buffer[u][j] = {}
      BY DEF Deletes
    <3> TAKE u \in Txns
    <3>3. CASE u = t
      BY <3>1, <3>3
    <3>4. CASE u # t
      <4>1. undo_buffer'[u] = undo_buffer[u]
        BY <1>4, <3>4
      <4> QED
        BY <3>2, <3>4, <4>1
    <3> QED
      BY <3>3, <3>4
  <2>3. \A u \in Txns, r \in RowIds : rows[r].deleter = u =>
          IF u \in Running
          THEN /\ r \in DeletedBy(u)'
               /\ ~(u = T /\ commit.pc = "undo") => rows[r].deleted = Never
          ELSE status[u] = "done" /\ rows[r].deleted <= last_commit
    BY <1>3, <1>5 DEF Deletes
  <2>4. commit.pc = "undo" => \A i \in DOMAIN undo_buffer'[T] : \A r \in undo_buffer'[T][i] :
          rows[r].deleted = IF i <= commit.entries THEN current_start_timestamp ELSE Never
    BY <1>14, <1>15 DEF Deletes
  <2>5. \A r \in RowIds : rows[r].deleter = NoTxn => rows[r].deleted = Never
    BY DEF Deletes
  <2>6. Never' = Never
    BY DEF Never
  <2> QED
    BY <1>1, <1>2, <1>5, <2>1, <2>2, <2>3, <2>4, <2>5, <2>6 DEF Deletes
<1>18. Ended'
  <2>1. ASSUME NEW u \in Txns \ {t}
        PROVE  /\ status[u] = "idle" => undo_buffer'[u] = <<>> /\ local_storage[u] = <<>>
               /\ status[u] = "done" => /\ local_storage[u] = <<>>
                                        /\ cleanup'[u] = "none" => undo_buffer'[u] = <<>>
               /\ cleanup'[u] # "none" => /\ status[u] = "done"
                                          /\ \A r \in DeletedBy(u)' : rows[r].deleted = commit_id'[u]
    <3>1. undo_buffer'[u] = undo_buffer[u] /\ commit_id'[u] = commit_id[u] /\ cleanup'[u] = cleanup[u]
          /\ DeletedBy(u)' = DeletedBy(u)
      BY <1>4, <1>5
    <3> QED
      BY <3>1 DEF Ended
  <2>2. local_storage[t] = <<>>
    BY <1>3 DEF Ended
  <2> QED
    BY <1>1, <1>2, <1>3, <1>4, <2>1, <2>2 DEF Ended
<1>19. Kept'
  <2>1. \A u \in Running, r \in RowIds :
          start_time[u] <= rows[r].deleted /\ rows[r].deleted # Never /\ rows[r].deleter # u => r \in InUse'
    <3> SUFFICES ASSUME NEW u \in Running, NEW r \in RowIds, start_time[u] <= rows[r].deleted,
                        rows[r].deleted # Never, rows[r].deleter # u, r \in DeletedBy(t)
                 PROVE  FALSE
      BY <1>7 DEF Kept
    <3>1. commit_id[t] < start_time[u] /\ commit_id[t] \in Nat /\ start_time[u] \in Nat /\ rows[r].deleted = commit_id[t]
      BY <1>1, <1>3, TxnFields DEF Kept, Running
    <3> QED
      BY <3>1
  <2>2. \A v \in Running, u \in Txns : cleanup'[u] = "scheduled" => commit_id'[u] < start_time[v]
    BY <1>4 DEF Kept
  <2>3. Never' = Never
    BY DEF Never
  <2>4. /\ commit.pc = "undo" => active_transaction_state'[T] # "unset"
        /\ \A u \in Running : commit.pc = "undo" /\ u # T => active_transaction_state'[T] = "others"
    BY <1>14, <1>15 DEF Kept
  <2> QED
    BY <1>1, <1>2, <1>5, <2>1, <2>2, <2>3, <2>4 DEF Kept
<1>20. Distinct'
  <2>1. Alive' = Alive
    BY <1>1, <1>2, <1>5 DEF Alive, Never
  <2>2. DeletedBy(T)' = DeletedBy(T) \/ ~(commit.appended \/ commit.pc = "indexes")
    BY <1>14, <1>15
  <2>3. Chunks' = Chunks
    BY <1>1 DEF Chunks, T
  <2> QED
    BY <1>1, <1>2, <2>1, <2>2, <2>3 DEF Distinct
<1>21. CheckpointIds'
  BY <1>1, <1>2, <1>11 DEF CheckpointIds, WALSwitched, Earlier, Delta, TableLockExclusive, TableLockShared
<1>22. Old' = Old /\ Delta' = Delta /\ Live' = Live /\ Pending' = Pending
  BY <1>1, <1>2, <1>5 DEF Old, Delta, Live, Pending, Chunks, T, Never
<1>23. Split'
  <2>1. \A r : NewGroup(r)' = NewGroup(r)
    BY <1>2 DEF NewGroup
  <2>2. TableLockShared' = TableLockShared
    BY <1>1 DEF TableLockShared
  <2>3. Delta => \A u \in Running : \A i \in DOMAIN undo_buffer'[u] :
              undo_buffer'[u][i] \subseteq Old \/ undo_buffer'[u][i] \cap Old = {}
    <3>1. \A u \in Running : undo_buffer'[u] = undo_buffer[u]
      BY <1>3, <1>4 DEF Running
    <3> QED
      BY <3>1 DEF Split
  <2> QED
    BY <1>1, <1>2, <1>5, <1>22, <2>1, <2>2, <2>3 DEF Split
<1>24. Written'
  BY <1>1, <1>11, <1>22 DEF Written
<1>25. Indexed'
  <2>1. \A A : EntriesOf(A)' = EntriesOf(A')
    BY <1>2 DEF EntriesOf, EntryOf
  <2>2. /\ EntriesOf(Live)' = EntriesOf(Live) /\ EntriesOf(Live \ Old)' = EntriesOf(Live \ Old)
        /\ EntriesOf({r \in Old : rows[r].deleted > checkpoint.id})' = EntriesOf({r \in Old : rows[r].deleted > checkpoint.id})
        /\ EntriesOf({r \in Old : rows[r].deleted > checkpoint.id /\ rows[r].deleted # Never})' =
           EntriesOf({r \in Old : rows[r].deleted > checkpoint.id /\ rows[r].deleted # Never})
    BY <1>1, <1>2, <1>22 DEF EntriesOf, EntryOf, Never
  <2> QED
    BY <1>2, <1>5, <1>11, <1>22, <2>2 DEF Indexed
<1>26. NoLateConflict'
  <2>1. DeletedBy(T)' = DeletedBy(T) \/ commit.pc \notin {"flush", "locked", "indexes"}
    BY <1>14, <1>15
  <2>2. Chunks' = Chunks
    BY <1>1 DEF Chunks, T
  <2> QED
    BY <1>1, <1>2, <1>22, <2>1, <2>2 DEF NoLateConflict
<1>27. UniqueKeys' /\ Groups' /\ Regular'
  BY <1>1, <1>2, FrameUniqueKeys, FrameGroups, FrameRegular
<1> QED
  BY <1>10, <1>12, <1>13, <1>16, <1>17, <1>18, <1>19, <1>20, <1>21, <1>23, <1>24, <1>25, <1>26, <1>27

-----------------------------------------------------------------------------
(* The append of a commit *)

\* A set in which all elements are the same has at most one.
LEMMA AtMostOne ==
    ASSUME NEW S, \A x, y \in S : x = y
    PROVE  ~(Cardinality(S) > 1)
<1>1. CASE S = {}
  BY <1>1, FS_EmptySet
<1>2. CASE S # {}
  <2>1. PICK x \in S : TRUE
    BY <1>2
  <2>2. S = {x}
    BY <2>1
  <2>3. Cardinality({x}) = 1
    BY FS_Singleton
  <2> QED
    BY <2>2, <2>3
<1> QED
  BY <1>1, <1>2

\* A key is in the table once, until the row that replaces another one has been appended.
LEMMA LiveDistinct ==
    ASSUME TableInv, NEW r \in Live, NEW s \in Live, rows[r].key = rows[s].key,
           ~(commit.appended /\ (r > commit.row_start \/ s > commit.row_start))
    PROVE  r = s
<1>1. r \in Alive /\ s \in Alive /\ r \in Nat /\ s \in Nat
  BY RowFields DEF Live, Alive, TableInv, RowId
<1> QED
  BY <1>1 DEF TableInv, Distinct

\* A key is in the image of a checkpoint once.
LEMMA ImageDistinct ==
    ASSUME TableInv, Delta, NEW r \in Old, NEW s \in Old, rows[r].key = rows[s].key,
           rows[r].deleted > checkpoint.id, rows[s].deleted > checkpoint.id
    PROVE  r = s
<1> USE DEF TableInv
<1>1. r \in RowIds /\ s \in RowIds /\ rows[r].inserted <= checkpoint.id /\ rows[s].inserted <= checkpoint.id
  BY DEF Old
<1>2. rows[r].inserted \in Nat /\ rows[s].inserted \in Nat /\ rows[r].deleted \in Nat /\ rows[s].deleted \in Nat
  BY <1>1, RowFields
<1>3. checkpoint.id < Infinity /\ checkpoint.id \in Nat
  BY DeltasInUse, CheckpointFields
<1>4. CASE rows[r].inserted <= rows[s].inserted
  BY <1>1, <1>2, <1>3, <1>4, Constants DEF UniqueKeys
<1>5. CASE rows[s].inserted <= rows[r].inserted
  BY <1>1, <1>2, <1>3, <1>5, Constants DEF UniqueKeys
<1> QED
  BY <1>2, <1>4, <1>5

\* An append conflicts with the rows of its key that the transaction has not deleted.
LEMMA ConflictRows ==
    ASSUME TableInv, NEW t \in Txns, NEW key, NEW checkpoint_id,
           UseDeltas(entry, checkpoint_id) <=> Delta,
           ~commit.appended, \A r : <<key, r>> \notin Pending
    PROVE  /\ AppendConflict(t, key, checkpoint_id) <=>
                  \E r \in Live : rows[r].key = key /\ r \notin DeletedBy(t)
           /\ ~InsertCorrupts(IF UseDeltas(entry, checkpoint_id) THEN Entries(entry.added) ELSE entry.index, key)
<1> USE DEF TableInv
<1>1. \A r, s \in Live : rows[r].key = key /\ rows[s].key = key => r = s
  BY LiveDistinct
<1>2. \A r : r \in Lookup(DeleteIndex(t), key) <=> r \in DeletedBy(t) /\ rows[r].key = key
  BY LookupRows DEF DeleteIndex
<1>3. CASE ~Delta
  <2>1. \A r : r \in Lookup(entry.index, key) <=> r \in Live /\ rows[r].key = key
    <3>1. entry.index = EntriesOf(Live) \cup Pending
      BY <1>3 DEF Indexed
    <3>2. \A r : r \in Lookup(entry.index, key) <=> <<key, r>> \in EntriesOf(Live)
      BY <3>1, LookupIn
    <3>3. \A r : <<key, r>> \in EntriesOf(Live) <=> r \in Lookup(EntriesOf(Live), key)
      BY LookupIn
    <3>4. Lookup(EntriesOf(Live), key) = {r \in Live : rows[r].key = key}
      BY LookupRows
    <3> QED
      BY <3>2, <3>3, <3>4
  <2>2. VerifyAppend(entry.index, key, DeleteIndex(t)) <=>
            ~ \E r \in Live : rows[r].key = key /\ r \notin DeletedBy(t)
    BY <1>1, <1>2, <2>1 DEF VerifyAppend
  <2>3. ~InsertCorrupts(entry.index, key)
    <3>1. \A r, s \in Lookup(entry.index, key) : r = s
      BY <1>1, <2>1
    <3> QED
      BY <3>1, AtMostOne DEF InsertCorrupts
  <2> QED
    BY <1>3, <2>2, <2>3 DEF AppendConflict, InsertConflicts
<1>4. CASE Delta
  <2> DEFINE D == {r \in Old : rows[r].deleted > checkpoint.id}
             D2 == {r \in Old : rows[r].deleted > checkpoint.id /\ rows[r].deleted # Never}
  <2>1. /\ entry.index = EntriesOf(D) /\ Entries(entry.removed) = EntriesOf(D2)
        /\ Entries(entry.added) = EntriesOf(Live \ Old) \cup Pending
    BY <1>4 DEF Indexed
  <2>2. \A r : r \in D /\ r \notin D2 <=> r \in Live /\ r \in Old
    <3>1. Never > checkpoint.id
      BY <1>4, DeltasInUse, CheckpointFields, Constants
    <3> QED
      BY <3>1 DEF Live, Old
  <2>3. \A r, s \in D : rows[r].key = key /\ rows[s].key = key => r = s
    BY <1>4, ImageDistinct
  <2>4. \A r : r \in D2 => r \in D
    OBVIOUS
  <2> HIDE DEF D, D2
  <2>5. \A r : r \in Lookup(entry.index, key) <=> r \in D /\ rows[r].key = key
    BY <2>1, LookupRows
  <2>6. \A r : r \in Lookup(DeleteIndex(t) \cup Entries(entry.removed), key) <=>
                  (r \in DeletedBy(t) \/ r \in D2) /\ rows[r].key = key
    <3>1. \A r : r \in Lookup(DeleteIndex(t) \cup Entries(entry.removed), key) <=>
                    r \in Lookup(DeleteIndex(t), key) \/ r \in Lookup(Entries(entry.removed), key)
      <4>1. \A S, r : r \in Lookup(S, key) <=> <<key, r>> \in S
        BY LookupIn
      <4> TAKE r
      <4>2. r \in Lookup(DeleteIndex(t) \cup Entries(entry.removed), key) <=> <<key, r>> \in DeleteIndex(t) \cup Entries(entry.removed)
        BY <4>1, Zenon
      <4>3. r \in Lookup(DeleteIndex(t), key) <=> <<key, r>> \in DeleteIndex(t)
        BY <4>1, Zenon
      <4>4. r \in Lookup(Entries(entry.removed), key) <=> <<key, r>> \in Entries(entry.removed)
        BY <4>1, Zenon
      <4> QED
        BY <4>2, <4>3, <4>4
    <3>2. \A r : r \in Lookup(Entries(entry.removed), key) <=> r \in D2 /\ rows[r].key = key
      BY <2>1, LookupRows
    <3> QED
      BY <1>2, <3>1, <3>2
  <2>7. VerifyAppend(entry.index, key, DeleteIndex(t) \cup Entries(entry.removed)) <=>
            ~ \E r \in Live \cap Old : rows[r].key = key /\ r \notin DeletedBy(t)
    <3>1. VerifyAppend(entry.index, key, DeleteIndex(t) \cup Entries(entry.removed)) <=>
            \/ ~ \E r \in D : rows[r].key = key
            \/ \E r \in D : rows[r].key = key /\ (r \in DeletedBy(t) \/ r \in D2)
      BY <2>5, <2>6 DEF VerifyAppend
    <3> QED
      BY <2>2, <2>3, <2>4, <3>1
  <2>8. \A r : r \in Lookup(Entries(entry.added), key) <=> r \in Live \ Old /\ rows[r].key = key
    <3>1. \A r : r \in Lookup(Entries(entry.added), key) <=> <<key, r>> \in EntriesOf(Live \ Old)
      BY <2>1, LookupIn
    <3>2. \A r : <<key, r>> \in EntriesOf(Live \ Old) <=> r \in Lookup(EntriesOf(Live \ Old), key)
      BY LookupIn
    <3>3. Lookup(EntriesOf(Live \ Old), key) = {r \in Live \ Old : rows[r].key = key}
      BY LookupRows
    <3> QED
      BY <3>1, <3>2, <3>3
  <2>9. VerifyAppend(Entries(entry.added), key, DeleteIndex(t)) <=>
            ~ \E r \in Live \ Old : rows[r].key = key /\ r \notin DeletedBy(t)
    BY <1>1, <1>2, <2>8 DEF VerifyAppend
  <2>10. ~InsertCorrupts(Entries(entry.added), key)
    <3>1. \A r, s \in Lookup(Entries(entry.added), key) : r = s
      BY <1>1, <2>8
    <3> QED
      BY <3>1, AtMostOne DEF InsertCorrupts
  <2>11. AppendConflict(t, key, checkpoint_id) <=>
            \/ \E r \in Live \cap Old : rows[r].key = key /\ r \notin DeletedBy(t)
            \/ \E r \in Live \ Old : rows[r].key = key /\ r \notin DeletedBy(t)
    BY <1>4, <2>7, <2>9 DEF AppendConflict, InsertConflicts
  <2> QED
    BY <1>4, <2>10, <2>11
<1> QED
  BY <1>3, <1>4

\* DuckTransaction::Commit starts: nothing is written yet.
LEMMA BeginCommitInv ==
    ASSUME TableInv, NEW t \in Txns, BeginCommit(t)
    PROVE  TableInv'
<1> USE DEF TableInv
<1>1. /\ status[t] = "active" /\ HasChanges(t) /\ commit.txn = NoTxn
      /\ LateConflict(t) => "late_conflict" \in behaviours
      /\ commit' = [NoCommit EXCEPT !.txn = t,
                                    !.pc = IF local_storage[t] = <<>> THEN "written" ELSE "flush"]
      /\ UNCHANGED <<manager, transactions, table, entry, wal, checkpoint_wal, checkpoint, fatal, behaviours>>
  BY DEF BeginCommit
<1>2. UNCHANGED <<current_start_timestamp, last_commit, active_checkpoint, rows, row_groups, require_new,
                  last_seen_checkpoint, checkpoint_row_group_count, status, start_time, commit_id,
                  undo_buffer, local_storage, active_transaction_state, cleanup>>
  BY <1>1 DEF manager, table, transactions
<1>3. commit = NoCommit /\ T = NoTxn /\ ~commit.appended /\ t # NoTxn /\ t \in Running
  BY <1>1, TxnFields DEF OneCommit, T, NoCommit, Running
<1>4. /\ T' = t /\ commit'.pc = (IF local_storage[t] = <<>> THEN "written" ELSE "flush")
      /\ commit'.row_start = 0 /\ commit'.chunks = 0 /\ commit'.entries = 0 /\ commit'.appended = FALSE
      /\ commit'.checkpoint_id = Infinity
  BY <1>1 DEF NoCommit, T
<1>5. Types'
  <2>1. commit' \in CommitStates
    BY <1>1, Constants DEF NoCommit, CommitStates, CommitPCs
  <2> QED
    BY <1>1, <1>2, <2>1 DEF Types, TransactionTypes, TableTypes
<1>6. RowIds' = RowIds /\ Running' = Running /\ \A u : DeletedBy(u)' = DeletedBy(u)
  BY <1>2 DEF RowIds, Running, DeletedBy
<1>7. Times'
  <2>1. \A r \in RowIds : rows[r].inserted <= last_commit
    BY <1>3 DEF Times
  <2>2. \A r \in RowIds : rows[r].deleted <= last_commit \/ rows[r].deleted = Never
    BY <1>3 DEF Times, NoCommit
  <2> QED
    BY <1>2, <1>6, <2>1, <2>2 DEF Times, Never
<1>8. OneCommit'
  <2>1. Chunks' = local_storage[t] /\ Len(local_storage[t]) \in Nat /\ Len(undo_buffer[t]) \in Nat
    BY <1>2, <1>4, TxnFields DEF Chunks
  <2>2. commit'.txn = t /\ t # NoTxn /\ status'[t] = "active" /\ HasChanges(t)'
    BY <1>1, <1>2, <1>3, <1>4 DEF HasChanges, T
  <2> QED
    BY <1>2, <1>4, <2>1, <2>2 DEF OneCommit, Appended, Flushing
<1>9. Deletes'
  <2>1. commit.pc # "undo" /\ commit'.pc # "undo"
    BY <1>3, <1>4 DEF NoCommit
  <2> QED
    BY <1>2, <1>6, <2>1 DEF Deletes, Never
<1>10. Kept'
  <2>1. InUse' = InUse
    BY <1>2, <1>6 DEF InUse, Never
  <2>2. commit'.pc # "undo"
    BY <1>4
  <2> QED
    BY <1>2, <1>6, <2>1, <2>2 DEF Kept, Never
<1>11. \A r \in RowIds : rows[r].deleter = t => rows[r].deleted = Never
  BY <1>3, RunningDeletes DEF NoCommit
<1>12. Alive' = Alive /\ Alive = Live
  BY <1>2, <1>3, <1>4, <1>6, <1>11 DEF Alive, Live, Never
<1>13. Distinct'
  <2>1. commit'.pc # "indexes"
    BY <1>4
  <2>2. \A r, s \in Alive : r < s => rows[r].key # rows[s].key
    BY <1>3 DEF Distinct
  <2>3. \A u \in Txns : \A i, j \in 1 .. Len(local_storage[u]) : local_storage[u][i] = local_storage[u][j] => i = j
    BY DEF Distinct
  <2> QED
    BY <1>2, <1>12, <2>1, <2>2, <2>3 DEF Distinct
<1>14. CheckpointIds'
  <2>1. commit'.pc # "indexes" /\ ~TableLockShared'
    BY <1>4 DEF TableLockShared
  <2> QED
    BY <1>1, <1>2, <2>1 DEF CheckpointIds, WALSwitched, Earlier, Delta, TableLockExclusive
<1>15. Old' = Old /\ Delta' = Delta /\ Live' = Live /\ Pending' = {} /\ Pending = {}
  BY <1>1, <1>2, <1>3, <1>4, <1>6 DEF Old, Delta, Live, Pending, Never, NoCommit
<1>16. Split'
  <2>1. \A r : NewGroup(r)' = NewGroup(r)
    BY <1>2 DEF NewGroup
  <2>2. ~TableLockShared'
    BY <1>4 DEF TableLockShared
  <2> QED
    BY <1>1, <1>2, <1>6, <1>15, <2>1, <2>2 DEF Split
<1>17. Indexed'
  <2>1. \A A : EntriesOf(A)' = EntriesOf(A')
    BY <1>2 DEF EntriesOf, EntryOf
  <2>2. /\ EntriesOf(Live)' = EntriesOf(Live) /\ EntriesOf(Live \ Old)' = EntriesOf(Live \ Old)
        /\ EntriesOf({r \in Old : rows[r].deleted > checkpoint.id})' = EntriesOf({r \in Old : rows[r].deleted > checkpoint.id})
        /\ EntriesOf({r \in Old : rows[r].deleted > checkpoint.id /\ rows[r].deleted # Never})' =
           EntriesOf({r \in Old : rows[r].deleted > checkpoint.id /\ rows[r].deleted # Never})
    BY <1>1, <1>2, <1>15 DEF EntriesOf, EntryOf, Never
  <2>3. InUse' = InUse /\ EntriesOf(InUse)' = EntriesOf(InUse)
    BY <1>2, <1>6 DEF InUse, Never, EntriesOf, EntryOf
  <2> QED
    BY <1>1, <1>2, <1>6, <1>15, <2>2, <2>3 DEF Indexed
<1>18. NoLateConflict'
  <2> SUFFICES ASSUME Delta, NEW i \in 2 .. Len(local_storage[t]), NEW r \in Live, rows[r].key = local_storage[t][i]
               PROVE  r \in DeletedBy(t)
    <3>1. Chunks' = local_storage[t]
      BY <1>2, <1>4 DEF Chunks
    <3> QED
      BY <1>2, <1>4, <1>6, <1>15, <3>1 DEF NoLateConflict
  <2>1. ~LateConflict(t)
    BY <1>1 DEF Regular
  <2>2. UseDeltas(entry, active_checkpoint) <=> Delta
    BY DeltasInUse
  <2>3. ~AppendConflict(t, local_storage[t][i], active_checkpoint)
    BY <2>1, <2>2 DEF LateConflict
  <2> QED
    BY <1>3, <1>15, <2>2, <2>3, ConflictRows
<1>19. Ended' /\ UniqueKeys' /\ Groups' /\ Written' /\ Regular'
  BY <1>1, <1>2, FrameEnded, FrameUniqueKeys, FrameGroups, FrameWritten, FrameRegular
<1> QED
  BY <1>1, <1>5, <1>7, <1>8, <1>9, <1>10, <1>13, <1>14, <1>16, <1>17, <1>18, <1>19

\* The row groups of a checkpoint that is active are counted at its first append.
LEMMA AppendLockInv ==
    ASSUME TableInv, AppendLock
    PROVE  TableInv'
<1> USE DEF TableInv
<1> DEFINE first == active_checkpoint # Infinity /\ last_seen_checkpoint # active_checkpoint
<1>1. /\ commit.pc = "flush" /\ ~TableLockExclusive
      /\ commit' = [commit EXCEPT !.pc = "locked", !.row_start = Len(rows)]
      /\ require_new' = (require_new \/ AppendRequiresNewRowGroup)
      /\ last_seen_checkpoint' = IF first THEN active_checkpoint ELSE last_seen_checkpoint
      /\ checkpoint_row_group_count' = IF first THEN Len(row_groups) ELSE checkpoint_row_group_count
      /\ UNCHANGED <<manager, transactions, rows, row_groups, entry, wal, checkpoint_wal,
                     checkpoint, fatal, behaviours>>
  BY DEF AppendLock
<1>2. UNCHANGED <<current_start_timestamp, last_commit, active_checkpoint, status, start_time, commit_id,
                  undo_buffer, local_storage, active_transaction_state, cleanup>>
  BY <1>1 DEF manager, transactions
<1>3. Len(rows) \in Nat /\ Len(row_groups) \in Nat /\ commit \in CommitStates
  BY RowFields DEF Types
<1>4. /\ T' = T /\ commit'.txn = commit.txn /\ commit'.pc = "locked" /\ commit'.row_start = Len(rows)
      /\ commit'.chunks = commit.chunks /\ commit'.entries = commit.entries /\ commit'.appended = commit.appended
      /\ commit'.checkpoint_id = commit.checkpoint_id /\ commit' \in CommitStates
  BY <1>1, <1>3 DEF T, CommitStates, CommitPCs
<1>5. ~commit.appended /\ T # NoTxn /\ commit.chunks = 0
  BY <1>1 DEF OneCommit, NoCommit, T, Flushing
<1>6. RowIds' = RowIds /\ Running' = Running /\ Chunks' = Chunks /\ \A u : DeletedBy(u)' = DeletedBy(u)
  BY <1>1, <1>2, <1>4 DEF RowIds, Running, DeletedBy, Chunks
<1>7. Types'
  <2>1. /\ last_seen_checkpoint' \in Ids /\ checkpoint_row_group_count' \in Nat /\ require_new' \in BOOLEAN
    BY <1>1, <1>3 DEF Types, TableTypes
  <2> QED
    BY <1>1, <1>2, <1>4, <2>1 DEF Types, TransactionTypes, TableTypes
<1>8. Times'
  BY <1>1, <1>2, <1>4, <1>5, <1>6 DEF Times, Never
<1>9. OneCommit'
  BY <1>1, <1>2, <1>4, <1>5, <1>6 DEF OneCommit, Appended, HasChanges, Flushing, T
<1>10. Deletes'
  BY <1>1, <1>2, <1>4, <1>6 DEF Deletes, Never
<1>11. InUse' = InUse /\ Alive' = Alive
  BY <1>1, <1>2, <1>4, <1>6 DEF InUse, Alive, Never
<1>12. Kept'
  BY <1>1, <1>2, <1>4, <1>6, <1>11 DEF Kept, Never
<1>13. Distinct'
  BY <1>1, <1>2, <1>4, <1>5, <1>6, <1>11 DEF Distinct
<1>14. /\ checkpoint.id \in Nat /\ active_checkpoint \in Nat /\ last_commit \in Nat /\ last_seen_checkpoint \in Nat
       /\ checkpoint_row_group_count \in Nat /\ checkpoint.pc \in CheckpointPCs
       /\ last_commit < Infinity
  BY CheckpointFields, Constants DEF Times
<1>15. CheckpointIds'
  <2>1. active_checkpoint = Infinity \/ (active_checkpoint = checkpoint.id /\ checkpoint.id <= last_commit /\ checkpoint.pc \notin {"idle", "decided"})
    BY DEF CheckpointIds
  <2>2. /\ WALSwitched' = WALSwitched /\ Delta' = Delta /\ TableLockExclusive' = TableLockExclusive
    BY <1>1 DEF WALSwitched, Delta, TableLockExclusive
  <2>3. Earlier(last_seen_checkpoint', last_commit + 1)
    BY <1>1, <1>14, <2>1 DEF CheckpointIds, Earlier
  <2>4. checkpoint.pc = "decided" \/ (checkpoint.pc = "idle" /\ wal) => Earlier(last_seen_checkpoint', last_commit)
    BY <1>1, <1>14, <2>1 DEF CheckpointIds, Earlier
  <2>5. Delta \/ checkpoint.pc = "merged" => Earlier(last_seen_checkpoint', checkpoint.id + 1)
    BY <1>1, <1>14, <2>1 DEF CheckpointIds, Earlier
  <2> QED
    BY <1>1, <1>2, <1>4, <2>2, <2>3, <2>4, <2>5 DEF CheckpointIds
<1>16. Old' = Old /\ Delta' = Delta /\ Live' = Live /\ Pending' = {} /\ Pending = {}
  BY <1>1, <1>2, <1>4, <1>6 DEF Old, Delta, Live, Pending, Never
<1>17. Split'
  <2> SUFFICES ASSUME Delta PROVE Split'
    BY <1>16 DEF Split
  <2>1. active_checkpoint = checkpoint.id /\ active_checkpoint # Infinity
    BY <1>14, DeltasInUse, Constants
  <2>2. last_seen_checkpoint' = checkpoint.id /\ checkpoint' = checkpoint
    BY <1>1, <2>1
  <2>3. /\ checkpoint_row_group_count' <= Len(row_groups)
        /\ \A r \in RowIds : r \in Old <=> ~NewGroup(r)'
        /\ checkpoint_row_group_count' = Len(row_groups) => require_new'
    <3>1. CASE first
      <4>1. checkpoint_row_group_count' = Len(row_groups) /\ \A r : ~NewGroup(r)'
        BY <1>1, <1>3, <3>1 DEF NewGroup
      <4>2. RowIds \subseteq Old
        BY <2>1, <3>1 DEF Split
      <4>3. AppendRequiresNewRowGroup
        BY <3>1 DEF AppendRequiresNewRowGroup
      <4>4. require_new'
        BY <1>1, <4>3, Zenon
      <4>5. checkpoint_row_group_count' <= Len(row_groups)
        BY <1>3, <4>1
      <4> QED
        BY <4>1, <4>2, <4>4, <4>5, Zenon
    <3>2. CASE ~first
      <4>1. last_seen_checkpoint = checkpoint.id /\ checkpoint_row_group_count' = checkpoint_row_group_count
        BY <1>1, <2>1, <3>2
      <4>2. \A r : NewGroup(r)' = NewGroup(r)
        BY <1>1, <4>1 DEF NewGroup
      <4>3. checkpoint_row_group_count = Len(row_groups) => AppendRequiresNewRowGroup
        BY <1>3, <2>1 DEF AppendRequiresNewRowGroup
      <4> QED
        BY <1>1, <4>1, <4>2, <4>3 DEF Split
    <3> QED
      BY <3>1, <3>2
  <2>4. \A t \in Running' : \A i \in DOMAIN undo_buffer'[t] :
              undo_buffer'[t][i] \subseteq Old \/ undo_buffer'[t][i] \cap Old = {}
    BY <1>2, <1>6 DEF Split
  <2> QED
    BY <1>1, <1>6, <1>16, <2>2, <2>3, <2>4 DEF Split
<1>18. Indexed'
  BY <1>1, <1>2, <1>6, <1>11, <1>16 DEF Indexed, EntriesOf, EntryOf, Never
<1>19. NoLateConflict'
  BY <1>1, <1>2, <1>4, <1>6, <1>16 DEF NoLateConflict
<1>20. Ended' /\ UniqueKeys' /\ Groups' /\ Written' /\ Regular'
  BY <1>1, <1>2, FrameEnded, FrameUniqueKeys, FrameGroups, FrameWritten, FrameRegular
<1> QED
  BY <1>1, <1>7, <1>8, <1>9, <1>10, <1>12, <1>13, <1>15, <1>17, <1>18, <1>19, <1>20

\* The parts that do not look further into the commit than its transaction, its progress and its append.
LEMMA GetActiveCheckpointInv ==
    ASSUME TableInv, GetActiveCheckpoint
    PROVE  TableInv'
<1> USE DEF TableInv
<1>1. /\ commit.pc = "locked"
      /\ commit' = [commit EXCEPT !.pc = "indexes", !.checkpoint_id = active_checkpoint]
      /\ UNCHANGED <<manager, transactions, table, entry, wal, checkpoint_wal, checkpoint, fatal, behaviours>>
  BY DEF GetActiveCheckpoint
<1>2. UNCHANGED <<current_start_timestamp, last_commit, active_checkpoint, status, start_time, commit_id,
                  undo_buffer, local_storage, active_transaction_state, cleanup, rows, row_groups, require_new,
                  last_seen_checkpoint, checkpoint_row_group_count>>
  BY <1>1 DEF manager, transactions, table
<1>3. commit \in CommitStates /\ active_checkpoint \in Ids
  BY DEF Types
<1>4. /\ T' = T /\ commit'.txn = commit.txn /\ commit'.pc = "indexes" /\ commit'.row_start = commit.row_start
      /\ commit'.chunks = commit.chunks /\ commit'.entries = commit.entries /\ commit'.appended = commit.appended
      /\ commit'.checkpoint_id = active_checkpoint /\ commit' \in CommitStates
  BY <1>1, <1>3 DEF T, CommitStates, CommitPCs
<1>5. ~commit.appended /\ T # NoTxn /\ commit.chunks = 0
  BY <1>1 DEF OneCommit, NoCommit, T, Flushing
<1>6. RowIds' = RowIds /\ Running' = Running /\ Chunks' = Chunks /\ \A u : DeletedBy(u)' = DeletedBy(u)
  BY <1>1, <1>2, <1>4 DEF RowIds, Running, DeletedBy, Chunks
<1>7. Types'
  BY <1>1, <1>2, <1>4 DEF Types, TransactionTypes, TableTypes
<1>8. Times'
  BY <1>1, <1>2, <1>4, <1>5, <1>6 DEF Times, Never
<1>9. OneCommit'
  BY <1>1, <1>2, <1>4, <1>5, <1>6 DEF OneCommit, Appended, HasChanges, Flushing, T
<1>10. Deletes'
  BY <1>1, <1>2, <1>4, <1>6 DEF Deletes, Never
<1>11. InUse' = InUse /\ Alive' = Alive
  BY <1>1, <1>2, <1>4, <1>6 DEF InUse, Alive, Never
<1>12. Kept'
  BY <1>1, <1>2, <1>4, <1>6, <1>11 DEF Kept, Never
<1>13. Distinct'
  <2>1. \A i \in 1 .. commit'.chunks : FALSE
    BY <1>4, <1>5
  <2> QED
    BY <1>1, <1>2, <1>4, <1>5, <1>6, <1>11, <2>1 DEF Distinct
<1>14. CheckpointIds'
  <2>1. TableLockShared /\ TableLockShared'
    BY <1>1, <1>4 DEF TableLockShared
  <2> QED
    BY <1>1, <1>2, <1>4, <2>1 DEF CheckpointIds, WALSwitched, Earlier, Delta, TableLockExclusive
<1>15. Old' = Old /\ Delta' = Delta /\ Live' = Live /\ Pending' = {} /\ Pending = {}
  <2>1. \A i \in 1 .. commit'.chunks : FALSE
    BY <1>4, <1>5
  <2>2. Pending' = {} /\ Pending = {}
    BY <1>1, <1>4, <2>1 DEF Pending
  <2> QED
    BY <1>1, <1>2, <1>6, <2>2 DEF Old, Delta, Live, Never
<1>16. Split'
  <2>1. \A r : NewGroup(r)' = NewGroup(r)
    BY <1>2 DEF NewGroup
  <2>2. TableLockShared
    BY <1>1 DEF TableLockShared
  <2> QED
    BY <1>1, <1>2, <1>6, <1>15, <2>1, <2>2 DEF Split
<1>17. Indexed'
  BY <1>1, <1>2, <1>6, <1>11, <1>15 DEF Indexed, EntriesOf, EntryOf, Never
<1>18. NoLateConflict'
  BY <1>1, <1>2, <1>4, <1>6, <1>15 DEF NoLateConflict
<1>19. Ended' /\ UniqueKeys' /\ Groups' /\ Written' /\ Regular'
  BY <1>1, <1>2, FrameEnded, FrameUniqueKeys, FrameGroups, FrameWritten, FrameRegular
<1> QED
  BY <1>1, <1>7, <1>8, <1>9, <1>10, <1>12, <1>13, <1>14, <1>16, <1>17, <1>18, <1>19

\* One chunk is appended to the index, or added; a duplicate key ends the append.
LEMMA AppendToIndexesInv ==
    ASSUME TableInv, AppendToIndexes
    PROVE  TableInv'
<1> USE DEF TableInv
<1> DEFINE n == commit.chunks + 1
           key == Chunks[n]
           row == commit.row_start + commit.chunks + 1
           deltas == UseDeltas(entry, commit.checkpoint_id)
           target == IF deltas THEN Entries(entry.added) ELSE entry.index
           conflict == AppendConflict(T, key, commit.checkpoint_id)
           opened == IF deltas THEN [entry EXCEPT !.added = <<Entries(@)>>] ELSE entry
           appended == {<<Chunks[i], commit.row_start + i>> : i \in 1 .. commit.chunks}
<1>1. /\ commit.pc = "indexes" /\ commit.chunks < Len(Chunks)
      /\ fatal' = (~conflict /\ InsertCorrupts(target, key))
      /\ IF conflict
         THEN /\ entry' = [opened EXCEPT !.index = @ \ appended]
              /\ commit' = [commit EXCEPT !.pc = "failed"]
         ELSE /\ entry' = IF deltas THEN [opened EXCEPT !.added = <<Entries(@) \cup {<<key, row>>}>>]
                          ELSE [opened EXCEPT !.index = @ \cup {<<key, row>>}]
              /\ commit' = [commit EXCEPT !.chunks = @ + 1]
      /\ UNCHANGED <<manager, transactions, table, wal, checkpoint_wal, checkpoint, behaviours>>
  BY DEF AppendToIndexes
<1>2. UNCHANGED <<current_start_timestamp, last_commit, active_checkpoint, status, start_time, commit_id,
                  undo_buffer, local_storage, active_transaction_state, cleanup, rows, row_groups, require_new,
                  last_seen_checkpoint, checkpoint_row_group_count>>
  BY <1>1 DEF manager, transactions, table
<1>3. ~commit.appended /\ T # NoTxn /\ T \in Txns /\ commit.row_start = Len(rows) /\ status[T] = "active" /\ T \in Running
  BY <1>1, CommitFields DEF OneCommit, NoCommit, T, Flushing, Running
<1>4. /\ Len(Chunks) \in Nat /\ \A i \in 1 .. Len(Chunks) : Chunks[i] \in Keys
      /\ commit.chunks \in Nat /\ commit.row_start \in Nat /\ n \in 1 .. Len(Chunks) /\ key \in Keys
      /\ row = commit.row_start + n
  <2>1. Len(Chunks) \in Nat /\ \A i \in 1 .. Len(Chunks) : Chunks[i] \in Keys
    BY <1>3, TxnFields DEF Chunks
  <2>2. commit.chunks \in Nat /\ commit.row_start \in Nat
    BY CommitFields
  <2>3. n \in 1 .. Len(Chunks)
    BY <1>1, <2>1, <2>2
  <2>4. row = commit.row_start + n
    BY <2>2
  <2> QED
    BY <2>1, <2>2, <2>3, <2>4
<1>5. \A r : <<key, r>> \notin Pending
  <2>1. \A i \in 1 .. commit.chunks : i \in 1 .. Len(Chunks) /\ i # n
    BY <1>1, <1>4
  <2>2. \A i, j \in 1 .. Len(Chunks) : Chunks[i] = Chunks[j] => i = j
    BY <1>3 DEF Distinct, Chunks
  <2>3. \A i \in 1 .. commit.chunks : Chunks[i] # key
    BY <1>4, <2>1, <2>2
  <2> QED
    BY <2>3 DEF Pending
<1>6. deltas <=> Delta
  BY <1>1, DeltasInUse
<1>7. /\ conflict <=> \E r \in Live : rows[r].key = key /\ r \notin DeletedBy(T)
      /\ ~InsertCorrupts(target, key)
  BY <1>3, <1>5, <1>6, ConflictRows
<1>8. fatal' = FALSE
  BY <1>1, <1>7
<1>9. Pending = appended
  BY <1>1 DEF Pending
<1>10. /\ entry \in IndexEntries /\ entry.index \in Index /\ entry.added \in Ptrs
       /\ Entries(entry.added) \in Index /\ commit \in CommitStates
  BY EntryFields, Pointers DEF Types
<1> HIDE DEF n, key, row, deltas, target, conflict, appended
<1>11. /\ commit'.txn = commit.txn /\ commit'.row_start = commit.row_start
       /\ commit'.entries = commit.entries /\ commit'.appended = commit.appended
       /\ commit'.checkpoint_id = commit.checkpoint_id /\ commit' \in CommitStates
       /\ IF conflict THEN commit'.pc = "failed" /\ commit'.chunks = commit.chunks
                      ELSE commit'.pc = "indexes" /\ commit'.chunks = commit.chunks + 1
  BY <1>1, <1>4, <1>10 DEF CommitStates, CommitPCs
<1>12. RowIds' = RowIds /\ Running' = Running /\ T' = T /\ Chunks' = Chunks /\ \A u : DeletedBy(u)' = DeletedBy(u)
  BY <1>1, <1>2, <1>11 DEF RowIds, Running, DeletedBy, Chunks, T
<1>13. /\ entry'.deleted_rows_in_use = entry.deleted_rows_in_use /\ entry'.removed = entry.removed
       /\ entry'.last_written = entry.last_written /\ entry' \in IndexEntries
       /\ entry'.index = (IF conflict THEN entry.index \ appended
                          ELSE IF deltas THEN entry.index ELSE entry.index \cup {<<key, row>>})
       /\ IF deltas THEN entry'.added = <<IF conflict THEN Entries(entry.added) ELSE Entries(entry.added) \cup {<<key, row>>}>>
          ELSE entry'.added = entry.added
  <2>1. \A E \in Index : E \ appended \in Index
    BY DEF Index
  <2>2. row \in RowId
    BY <1>4 DEF row, RowId, n
  <2>3. <<key, row>> \in Keys \X RowId
    BY <1>4, <2>2
  <2>4. \A E \in Index : E \cup {<<key, row>>} \in Index
    BY <2>3 DEF Index
  <2>5. \A E \in Index : <<E>> \in Ptrs
    BY Pointers
  <2>6. \A E : Entries(<<E>>) = E
    BY Pointers
  <2>7. CASE deltas /\ conflict
    <3>1. entry' = [entry EXCEPT !.added = <<Entries(entry.added)>>, !.index = entry.index \ appended]
      BY <1>1, <1>10, <2>7 DEF IndexEntries
    <3>2. <<Entries(entry.added)>> \in Ptrs /\ entry.index \ appended \in Index
      BY <1>10, <2>1, <2>5
    <3> QED
      BY <1>10, <2>7, <3>1, <3>2 DEF IndexEntries
  <2>8. CASE deltas /\ ~conflict
    <3> DEFINE A == Entries(entry.added) \cup {<<key, row>>}
    <3>1. entry' = [entry EXCEPT !.added = <<Entries(<<Entries(entry.added)>>) \cup {<<key, row>>}>>]
      BY <1>1, <1>10, <2>8 DEF IndexEntries
    <3>2. entry' = [entry EXCEPT !.added = <<A>>]
      BY <2>6, <3>1
    <3>3. <<A>> \in Ptrs
      BY <1>10, <2>4, <2>5
    <3> HIDE DEF A
    <3>4. /\ entry'.deleted_rows_in_use = entry.deleted_rows_in_use /\ entry'.removed = entry.removed
          /\ entry'.last_written = entry.last_written /\ entry' \in IndexEntries
          /\ entry'.index = entry.index /\ entry'.added = <<A>>
      BY <1>10, <3>2, <3>3 DEF IndexEntries
    <3> QED
      BY <2>8, <3>4 DEF A
  <2>9. CASE ~deltas /\ conflict
    <3>1. entry' = [entry EXCEPT !.index = entry.index \ appended]
      BY <1>1, <1>10, <2>9 DEF IndexEntries
    <3>2. entry.index \ appended \in Index
      BY <1>10, <2>1
    <3> QED
      BY <1>10, <2>9, <3>1, <3>2 DEF IndexEntries
  <2>10. CASE ~deltas /\ ~conflict
    <3> DEFINE A == entry.index \cup {<<key, row>>}
    <3>1. entry' = [entry EXCEPT !.index = A]
      BY <1>1, <1>10, <2>10 DEF IndexEntries
    <3>2. A \in Index
      BY <1>10, <2>4
    <3> HIDE DEF A
    <3>3. /\ entry'.deleted_rows_in_use = entry.deleted_rows_in_use /\ entry'.removed = entry.removed
          /\ entry'.last_written = entry.last_written /\ entry' \in IndexEntries
          /\ entry'.index = A /\ entry'.added = entry.added
      BY <1>10, <3>1, <3>2 DEF IndexEntries
    <3> QED
      BY <2>10, <3>3 DEF A
  <2> QED
    BY <2>7, <2>8, <2>9, <2>10
<1>14. Types'
  BY <1>1, <1>2, <1>8, <1>11, <1>13 DEF Types, TransactionTypes, TableTypes
<1>15. Times'
  BY <1>1, <1>2, <1>11, <1>12 DEF Times, Never
<1>16. OneCommit'
  BY <1>1, <1>2, <1>3, <1>4, <1>11, <1>12 DEF OneCommit, Appended, HasChanges, Flushing, T
<1>17. Deletes'
  BY <1>1, <1>2, <1>11, <1>12 DEF Deletes, Never
<1>18. InUse' = InUse /\ Alive' = Alive /\ Live' = Live /\ Old' = Old /\ Delta' = Delta
  BY <1>1, <1>2, <1>12 DEF InUse, Alive, Live, Old, Delta, Never
<1>19. Kept'
  BY <1>1, <1>2, <1>11, <1>12, <1>18 DEF Kept, Never
<1>20. Alive = Live
  <2>1. \A r \in RowIds : rows[r].deleter = T => rows[r].deleted = Never
    BY <1>1, <1>3, RunningDeletes
  <2> QED
    BY <1>3, <2>1 DEF Alive, Live
<1>21. Distinct'
  <2>1. commit'.pc = "indexes" => \A i \in 1 .. commit'.chunks, r \in Alive :
           rows[r].key = Chunks[i] => r \in DeletedBy(T)
    <3> SUFFICES ASSUME ~conflict, NEW i \in 1 .. commit.chunks + 1, NEW r \in Alive, rows[r].key = Chunks[i]
                 PROVE  r \in DeletedBy(T)
      BY <1>11
    <3>1. CASE i = n
      BY <1>7, <1>20, <3>1 DEF key
    <3>2. CASE i # n
      <4>1. i \in 1 .. commit.chunks
        BY <1>4, <3>2 DEF n
      <4> QED
        BY <1>1, <4>1 DEF Distinct
    <3> QED
      BY <3>1, <3>2
  <2> QED
    BY <1>2, <1>11, <1>12, <1>18, <2>1 DEF Distinct
<1>22. CheckpointIds'
  <2>1. TableLockShared
    BY <1>1 DEF TableLockShared
  <2> QED
    BY <1>1, <1>2, <1>11, <1>13, <2>1 DEF CheckpointIds, WALSwitched, Earlier, Delta, TableLockExclusive, TableLockShared
<1>23. Split'
  <2>1. \A r : NewGroup(r)' = NewGroup(r)
    BY <1>2 DEF NewGroup
  <2>2. TableLockShared
    BY <1>1 DEF TableLockShared
  <2> QED
    BY <1>1, <1>2, <1>12, <1>18, <2>1, <2>2 DEF Split
<1>24. Delta /\ conflict => commit.chunks = 0
  <2> SUFFICES ASSUME Delta, conflict, commit.chunks # 0 PROVE FALSE
    OBVIOUS
  <2>1. PICK r \in Live : rows[r].key = key /\ r \notin DeletedBy(T)
    BY <1>7
  <2>2. n \in 2 .. Len(Chunks) /\ n > commit.chunks
    BY <1>4 DEF n
  <2> QED
    BY <1>1, <2>1, <2>2 DEF NoLateConflict, key
<1>25. Delta /\ conflict => appended = {}
  <2> SUFFICES ASSUME Delta, conflict PROVE appended = {}
    OBVIOUS
  <2>1. \A i \in 1 .. commit.chunks : FALSE
    BY <1>24
  <2> QED
    BY <2>1 DEF appended
<1>26. Pending' = IF conflict THEN {} ELSE Pending \cup {<<key, row>>}
  <2>1. CASE conflict
    BY <1>11, <2>1 DEF Pending
  <2>2. CASE ~conflict
    <3>1. Pending' = {<<Chunks[i], commit.row_start + i>> : i \in 1 .. commit.chunks + 1}
      BY <1>11, <1>12, <2>2 DEF Pending
    <3>2. 1 .. commit.chunks + 1 = (1 .. commit.chunks) \cup {n}
      BY <1>4 DEF n
    <3>3. <<key, row>> = <<Chunks[n], commit.row_start + n>>
      BY <1>4 DEF key
    <3> QED
      BY <1>9, <2>2, <3>1, <3>2, <3>3 DEF appended
  <2> QED
    BY <2>1, <2>2
<1>27. Written'
  <2>1. checkpoint.pc = "tables_written" => entry'.index = entry.index
    BY <1>6, <1>13, <1>25 DEF Delta
  <2> QED
    BY <1>1, <1>18, <2>1 DEF Written
<1>28. Indexed'
  <2>1. \A A : EntriesOf(A)' = EntriesOf(A')
    BY <1>2 DEF EntriesOf, EntryOf
  <2>2. /\ EntriesOf(Live)' = EntriesOf(Live) /\ EntriesOf(Live \ Old)' = EntriesOf(Live \ Old)
        /\ EntriesOf({r \in Old : rows[r].deleted > checkpoint.id})' = EntriesOf({r \in Old : rows[r].deleted > checkpoint.id})
        /\ EntriesOf({r \in Old : rows[r].deleted > checkpoint.id /\ rows[r].deleted # Never})' =
           EntriesOf({r \in Old : rows[r].deleted > checkpoint.id /\ rows[r].deleted # Never})
        /\ EntriesOf(InUse)' = EntriesOf(InUse)
    BY <1>1, <1>2, <1>18 DEF EntriesOf, EntryOf, Never
  <2>3. Entries(entry'.deleted_rows_in_use) = EntriesOf(InUse)'
    BY <1>13, <2>2 DEF Indexed
  <2>4. CASE ~Delta
    <3>1. entry.index = EntriesOf(Live) \cup Pending /\ entry.added = <<>> /\ entry.removed = <<>>
      BY <2>4 DEF Indexed
    <3>2. EntriesOf(Live) \cap appended = {}
      <4>1. \A i \in 1 .. commit.chunks : commit.row_start + i \notin RowIds
        BY <1>3, <1>4, RowFields
      <4>2. \A r \in Live : EntryOf(r)[2] = r /\ r \in RowIds
        BY DEF EntryOf, Live
      <4>3. \A e \in appended : e[2] \notin RowIds
        BY <4>1 DEF appended
      <4> QED
        BY <4>2, <4>3 DEF EntriesOf
    <3>3. entry'.index = EntriesOf(Live) \cup Pending'
      BY <1>6, <1>9, <1>13, <1>26, <2>4, <3>1, <3>2
    <3> QED
      BY <1>6, <1>13, <1>18, <2>2, <2>3, <2>4, <3>1, <3>3 DEF Indexed
  <2>5. CASE Delta
    <3>1. /\ entry.index = EntriesOf({r \in Old : rows[r].deleted > checkpoint.id})
          /\ Entries(entry.removed) = EntriesOf({r \in Old : rows[r].deleted > checkpoint.id /\ rows[r].deleted # Never})
          /\ Entries(entry.added) = EntriesOf(Live \ Old) \cup Pending
      BY <2>5 DEF Indexed
    <3>2. entry'.index = entry.index
      BY <1>6, <1>13, <1>25, <2>5
    <3>3. Entries(entry'.added) = (IF conflict THEN Entries(entry.added) ELSE Entries(entry.added) \cup {<<key, row>>})
          /\ Exists(entry'.added)
      BY <1>6, <1>13, <2>5, Pointers
    <3>4. Entries(entry'.added) = EntriesOf(Live \ Old) \cup Pending'
      BY <1>9, <1>25, <1>26, <2>5, <3>1, <3>3
    <3> QED
      BY <1>13, <1>18, <2>2, <2>3, <2>5, <3>1, <3>2, <3>3, <3>4 DEF Indexed
  <2> QED
    BY <2>4, <2>5
<1>29. NoLateConflict'
  BY <1>1, <1>2, <1>4, <1>11, <1>12, <1>18 DEF NoLateConflict
<1>30. Ended' /\ UniqueKeys' /\ Groups' /\ Regular'
  BY <1>1, <1>2, FrameEnded, FrameUniqueKeys, FrameGroups, FrameRegular
<1> QED
  BY <1>8, <1>14, <1>15, <1>16, <1>17, <1>19, <1>21, <1>22, <1>23, <1>27, <1>28, <1>29, <1>30

\* The row groups that an append starts are in order and between its first and last row.
LEMMA RowGroupsFromShape ==
    ASSUME NEW first \in Nat, NEW last \in Nat
    PROVE  LET s == RowGroupsFrom(first, last) IN
           /\ s \in Seq(Nat) /\ Len(s) \in Nat
           /\ \A g \in 1 .. Len(s) : s[g] \in Nat /\ first <= s[g] /\ s[g] <= last
           /\ \A g, h \in 1 .. Len(s) : g < h => s[g] < s[h]
           /\ first <= last => Len(s) >= 1 /\ s[1] = first
<1> DEFINE q == (last - first) \div RowGroupSize
           s == RowGroupsFrom(first, last)
<1>1. CASE first > last
  <2>1. s = <<>>
    BY <1>1 DEF RowGroupsFrom
  <2> QED
    BY <1>1, <2>1
<1>2. CASE first <= last
  <2>1. q \in Nat /\ q * RowGroupSize <= last - first
    <3>1. \A x \in Nat, S \in Nat : S >= 1 => x \div S \in Nat /\ (x \div S) * S <= x
      OBVIOUS
    <3>2. last - first \in Nat
      BY <1>2
    <3> QED
      BY <3>1, <3>2, Constants
  <2> HIDE DEF q
  <2>2. s = [g \in 1 .. q + 1 |-> first + (g - 1) * RowGroupSize]
    BY <1>2 DEF RowGroupsFrom, q
  <2>3. \A g \in 1 .. q + 1 : /\ s[g] = first + (g - 1) * RowGroupSize
                              /\ (g - 1) * RowGroupSize \in Nat /\ (g - 1) * RowGroupSize <= q * RowGroupSize
    <3>1. \A a, b, S \in Nat : a <= b => a * S \in Nat /\ a * S <= b * S
      OBVIOUS
    <3>2. \A g \in 1 .. q + 1 : g - 1 \in Nat /\ g - 1 <= q
      BY <2>1
    <3> QED
      BY <2>1, <2>2, <3>1, <3>2, Constants
  <2>4. \A g \in 1 .. q + 1 : s[g] \in Nat /\ first <= s[g] /\ s[g] <= last
    <3>1. q * RowGroupSize \in Int
      BY <2>1, Constants
    <3> TAKE g \in 1 .. q + 1
    <3>2. PICK x \in Nat : x = (g - 1) * RowGroupSize
      BY <2>3
    <3>3. PICK y \in Int : y = q * RowGroupSize
      BY <3>1
    <3>4. s[g] = first + x /\ x <= y /\ y <= last - first
      BY <2>1, <2>3, <3>2, <3>3
    <3> QED
      BY <3>4
  <2>5. \A g, h \in 1 .. q + 1 : g < h => s[g] < s[h]
    <3>1. \A a, b, S \in Nat : a < b /\ S >= 1 => a * S < b * S
      OBVIOUS
    <3> SUFFICES ASSUME NEW g \in 1 .. q + 1, NEW h \in 1 .. q + 1, g < h PROVE s[g] < s[h]
      OBVIOUS
    <3>2. g - 1 \in Nat /\ h - 1 \in Nat /\ g - 1 < h - 1
      BY <2>1
    <3>3. (g - 1) * RowGroupSize < (h - 1) * RowGroupSize
      BY <3>1, <3>2, Constants
    <3>4. PICK x \in Nat, y \in Nat : x = (g - 1) * RowGroupSize /\ y = (h - 1) * RowGroupSize
      BY <2>3
    <3>5. s[g] = first + x /\ s[h] = first + y /\ x < y
      BY <2>3, <3>3, <3>4
    <3> QED
      BY <3>5
  <2>6. s \in Seq(Nat) /\ Len(s) = q + 1
    BY <2>1, <2>2, <2>4
  <2>7. s[1] = first
    <3>1. 1 \in 1 .. q + 1 /\ (1 - 1) * RowGroupSize = 0
      BY <2>1, Constants
    <3> QED
      BY <2>3, <3>1
  <2> QED
    BY <2>1, <2>4, <2>5, <2>6, <2>7
<1> QED
  BY <1>1, <1>2

\* The chunks become rows, in row groups that the checkpoint under way leaves out.
LEMMA AppendToTableInv ==
    ASSUME TableInv, AppendToTable
    PROVE  TableInv'
<1> USE DEF TableInv
<1> DEFINE n == Len(rows)
           m == Len(Chunks)
           New == n + 1 .. n + m
           groups == RowGroupStarts
<1>1. /\ commit.pc = "indexes" /\ commit.chunks = Len(Chunks)
      /\ rows' = rows \o [i \in 1 .. Len(Chunks) |-> NewRow(Chunks[i])]
      /\ row_groups' = row_groups \o RowGroupStarts
      /\ require_new' \in (IF MergeStorage THEN {require_new, FALSE} ELSE {FALSE})
      /\ commit' = [commit EXCEPT !.pc = "written", !.appended = TRUE]
      /\ UNCHANGED <<manager, transactions, last_seen_checkpoint, checkpoint_row_group_count, entry,
                     wal, checkpoint_wal, checkpoint, fatal, behaviours>>
  BY DEF AppendToTable
<1>2. UNCHANGED <<current_start_timestamp, last_commit, active_checkpoint, status, start_time, commit_id,
                  undo_buffer, local_storage, active_transaction_state, cleanup>>
  BY <1>1 DEF manager, transactions
<1>3. /\ ~commit.appended /\ T # NoTxn /\ T \in Txns /\ commit.row_start = n /\ T \in Running
      /\ Chunks # <<>>
  BY <1>1, CommitFields DEF OneCommit, NoCommit, T, Flushing, Running
<1>4. /\ m \in Nat /\ m >= 1 /\ Chunks \in Seq(Keys) /\ \A i \in 1 .. m : Chunks[i] \in Keys
      /\ n \in Nat /\ RowIds = 1 .. n
  BY <1>3, TxnFields, RowFields DEF Chunks
<1>5. commit \in CommitStates
  BY DEF Types
<1>6. /\ T' = T /\ commit'.txn = commit.txn /\ commit'.pc = "written" /\ commit'.row_start = n
      /\ commit'.chunks = m /\ commit'.entries = commit.entries /\ commit'.appended = TRUE
      /\ commit'.checkpoint_id = commit.checkpoint_id /\ commit' \in CommitStates
  BY <1>1, <1>3, <1>5 DEF T, CommitStates, CommitPCs
<1>7. Running' = Running /\ Chunks' = Chunks /\ \A u : DeletedBy(u)' = DeletedBy(u)
  BY <1>2, <1>6 DEF Running, DeletedBy, Chunks
<1>8. /\ rows' \in Seq(RowRecords) /\ Len(rows') = n + m
      /\ \A r \in RowIds : rows'[r] = rows[r]
      /\ \A i \in 1 .. m : rows'[n + i] = NewRow(Chunks[i])
  <2> DEFINE new == [i \in 1 .. m |-> NewRow(Chunks[i])]
  <2>1. \A i \in 1 .. m : NewRow(Chunks[i]) \in RowRecords
    BY <1>4, Constants DEF NewRow, RowRecords
  <2>2. new \in Seq(RowRecords) /\ Len(new) = m /\ \A i \in 1 .. m : new[i] = NewRow(Chunks[i])
    BY <1>4, <2>1
  <2> HIDE DEF new
  <2>3. rows \in Seq(RowRecords) /\ rows' = rows \o new
    BY <1>1 DEF Types, TableTypes, new
  <2>4. rows' \in Seq(RowRecords) /\ Len(rows') = n + m
    <3>1. Len(rows \o new) = Len(rows) + Len(new) /\ rows \o new \in Seq(RowRecords)
      BY <2>2, <2>3, ConcatProperties
    <3> QED
      BY <2>2, <2>3, <3>1
  <2>5. \A r \in RowIds : rows'[r] = rows[r]
    BY <1>4, <2>2, <2>3
  <2>6. ASSUME NEW i \in 1 .. m PROVE rows'[n + i] = new[i]
    BY <1>4, <2>2, <2>3
  <2> QED
    BY <2>2, <2>4, <2>5, <2>6
<1>9. RowIds' = RowIds \cup New /\ RowIds \cap New = {} /\ New # {}
  <2>1. RowIds' = 1 .. n + m
    BY <1>4, <1>8 DEF RowIds
  <2>2. RowIds = 1 .. n /\ n \in Nat /\ m \in Nat /\ m >= 1
    BY <1>4
  <2> HIDE DEF n, m
  <2>3. 1 .. n + m = (1 .. n) \cup (n + 1 .. n + m) /\ (1 .. n) \cap (n + 1 .. n + m) = {} /\ n + 1 \in n + 1 .. n + m
    BY <2>2
  <2> QED
    BY <2>1, <2>2, <2>3
<1>10. \A r \in New : /\ r - n \in 1 .. m /\ rows'[r] = NewRow(Chunks[r - n])
                      /\ rows'[r].key = Chunks[r - n] /\ rows'[r].inserted = Infinity
                      /\ rows'[r].deleter = NoTxn /\ rows'[r].deleted = Never
  <2> TAKE r \in New
  <2>1. r - n \in 1 .. m /\ n + (r - n) = r
    BY <1>4
  <2>2. rows'[r] = NewRow(Chunks[r - n])
    BY <1>8, <2>1
  <2> QED
    BY <2>1, <2>2 DEF NewRow
<1>11. /\ groups \in Seq(Nat) /\ Len(groups) \in Nat
       /\ \A g \in 1 .. Len(groups) : groups[g] \in 1 .. n + m
       /\ \A g, h \in 1 .. Len(groups) : g < h => groups[g] < groups[h]
       /\ \A g \in 1 .. Len(groups), h \in 1 .. Len(row_groups) : row_groups[h] < groups[g]
       /\ row_groups = <<>> \/ require_new => Len(groups) >= 1 /\ groups[1] = n + 1
  <2> DEFINE last == row_groups[Len(row_groups)]
             first == IF MergeStorage \/ row_groups = <<>> \/ require_new THEN n + 1 ELSE last + RowGroupSize
  <2>1. groups = RowGroupsFrom(first, n + m)
    BY DEF RowGroupStarts
  <2>2. row_groups # <<>> => Len(row_groups) \in 1 .. Len(row_groups) /\ last \in 1 .. n
    <3>1. row_groups \in Seq(Nat)
      BY DEF Types, TableTypes
    <3> QED
      BY <3>1 DEF Groups
  <2>3. first \in Nat /\ first >= 1 /\ \A h \in 1 .. Len(row_groups) : row_groups[h] < first
    <3>1. CASE MergeStorage \/ row_groups = <<>> \/ require_new
      <4>1. \A h \in 1 .. Len(row_groups) : row_groups[h] \in 1 .. n
        BY DEF Groups
      <4> QED
        BY <1>4, <3>1, <4>1
    <3>2. CASE ~(MergeStorage \/ row_groups = <<>> \/ require_new)
      <4>1. \A h \in 1 .. Len(row_groups) : row_groups[h] \in 1 .. n /\ row_groups[h] <= last
        <5>1. Len(row_groups) \in Nat
          BY RowFields
        <5> TAKE h \in 1 .. Len(row_groups)
        <5>2. row_groups[h] \in 1 .. n /\ last \in 1 .. n
          BY <2>2, <3>2 DEF Groups
        <5>3. CASE h = Len(row_groups)
          BY <5>2, <5>3, <1>4
        <5>4. CASE h < Len(row_groups)
          BY <5>1, <5>2, <5>4, <2>2, <3>2, <1>4 DEF Groups
        <5> QED
          BY <5>1, <5>3, <5>4
      <4>2. first = last + RowGroupSize /\ last \in 1 .. n
        BY <2>2, <3>2
      <4> QED
        BY <1>4, <4>1, <4>2, Constants
    <3> QED
      BY <3>1, <3>2
  <2> HIDE DEF first
  <2>4. n + m \in Nat
    BY <1>4
  <2>5. /\ groups \in Seq(Nat) /\ Len(groups) \in Nat
        /\ \A g \in 1 .. Len(groups) : groups[g] \in Nat /\ first <= groups[g] /\ groups[g] <= n + m
        /\ \A g, h \in 1 .. Len(groups) : g < h => groups[g] < groups[h]
        /\ first <= n + m => Len(groups) >= 1 /\ groups[1] = first
    BY <2>1, <2>3, <2>4, RowGroupsFromShape
  <2> HIDE DEF groups
  <2>6. \A g \in 1 .. Len(groups) : groups[g] \in 1 .. n + m
    BY <2>3, <2>4, <2>5
  <2>7. \A g \in 1 .. Len(groups), h \in 1 .. Len(row_groups) : row_groups[h] < groups[g]
    <3> TAKE g \in 1 .. Len(groups), h \in 1 .. Len(row_groups)
    <3>1. row_groups[h] < first /\ row_groups[h] \in Nat
      BY <2>3, RowFields
    <3> QED
      BY <2>3, <2>5, <3>1
  <2>8. row_groups = <<>> \/ require_new => first = n + 1 /\ n + 1 <= n + m
    BY <1>4 DEF first
  <2> QED
    BY <2>5, <2>6, <2>7, <2>8
<1> HIDE DEF groups
<1>12. /\ row_groups' \in Seq(Nat) /\ Len(row_groups') = Len(row_groups) + Len(groups)
       /\ \A g \in 1 .. Len(row_groups) : row_groups'[g] = row_groups[g]
       /\ \A g \in 1 .. Len(groups) : row_groups'[Len(row_groups) + g] = groups[g]
       /\ Len(row_groups) \in Nat
  <2>1. row_groups \in Seq(Nat) /\ row_groups' = row_groups \o groups /\ groups \in Seq(Nat)
    BY <1>1, <1>11 DEF Types, TableTypes, groups
  <2> QED
    BY <2>1
<1>13. Types'
  <2>1. require_new' \in BOOLEAN
    BY <1>1 DEF Types, TableTypes
  <2> QED
    BY <1>1, <1>2, <1>6, <1>8, <1>12, <2>1 DEF Types, TransactionTypes, TableTypes
<1>14. Times'
  <2>1. \A r \in RowIds : rows[r].inserted <= last_commit
    BY <1>3 DEF Times
  <2>2. \A r \in RowIds' : \/ rows'[r].inserted <= last_commit
                           \/ rows'[r].inserted = Infinity /\ commit'.appended /\ r > commit'.row_start
    <3>1. \A r \in New : r > n
      BY <1>4
    <3> QED
      BY <1>6, <1>8, <1>9, <1>10, <2>1, <3>1
  <2>3. \A r \in RowIds' : rows'[r].deleted <= last_commit \/ rows'[r].deleted = Never
    <3>1. \A r \in RowIds : rows[r].deleted <= last_commit \/ rows[r].deleted = Never
      BY <1>1 DEF Times
    <3> QED
      BY <1>8, <1>9, <1>10, <3>1
  <2>4. \A r, s \in RowIds' : r <= s => rows'[r].inserted <= rows'[s].inserted
    <3> SUFFICES ASSUME NEW r \in RowIds', NEW s \in RowIds', r <= s PROVE rows'[r].inserted <= rows'[s].inserted
      OBVIOUS
    <3>1. CASE r \in RowIds /\ s \in RowIds
      BY <1>8, <3>1 DEF Times
    <3>2. CASE s \in New
      <4>1. rows'[s].inserted = Infinity
        BY <1>10, <3>2
      <4>2. rows'[r].inserted \in Nat /\ rows'[r].inserted <= Infinity
        <5>1. CASE r \in RowIds
          BY <1>8, <5>1, RowFields
        <5>2. CASE r \in New
          BY <1>10, <5>2, Constants
        <5> QED
          BY <1>9, <5>1, <5>2
      <4> QED
        BY <4>1, <4>2
    <3>3. CASE r \in New /\ s \in RowIds
      BY <1>4, <3>3
    <3> QED
      BY <1>9, <3>1, <3>2, <3>3
  <2> QED
    BY <1>2, <1>7, <2>2, <2>3, <2>4 DEF Times, Never
<1>15. OneCommit'
  <2>1. Appended'
    <3>1. ASSUME NEW i \in 1 .. m
          PROVE  LET row == rows'[n + i] IN
                    /\ row.key = Chunks[i] /\ row.inserted = Infinity
                    /\ row.deleter = NoTxn /\ row.deleted = Never
      <4>1. rows'[n + i] = NewRow(Chunks[i])
        BY <1>8
      <4> QED
        BY <4>1 DEF NewRow
    <3> QED
      BY <1>6, <1>7, <1>8, <3>1 DEF Appended, Never
  <2> QED
    BY <1>1, <1>2, <1>3, <1>4, <1>6, <1>7, <2>1 DEF OneCommit, HasChanges, T, Flushing
<1>16. Deletes'
  <2>1. \A t \in Txns : \A i \in DOMAIN undo_buffer[t] : \A r \in undo_buffer[t][i] :
          r \in RowIds' /\ rows'[r].deleter = t /\ rows'[r].inserted <= last_commit
    BY <1>8, <1>9 DEF Deletes
  <2>2. \A r \in RowIds' : rows'[r].deleter = NoTxn => rows'[r].deleted = Never
    BY <1>8, <1>9, <1>10 DEF Deletes
  <2>3. \A t \in Txns, r \in RowIds' : rows'[r].deleter = t =>
          IF t \in Running
          THEN r \in DeletedBy(t) /\ rows'[r].deleted = Never
          ELSE status[t] = "done" /\ rows'[r].deleted <= last_commit
    <3> SUFFICES ASSUME NEW t \in Txns, NEW r \in RowIds', rows'[r].deleter = t
                 PROVE  IF t \in Running
                        THEN r \in DeletedBy(t) /\ rows'[r].deleted = Never
                        ELSE status[t] = "done" /\ rows'[r].deleted <= last_commit
      OBVIOUS
    <3>1. r \in RowIds
      BY <1>9, <1>10, TxnFields
    <3> QED
      BY <1>1, <1>8, <3>1, ZenonT(30) DEF Deletes
  <2>4. \A t \in Txns : \A i, j \in DOMAIN undo_buffer[t] :
          i # j => undo_buffer[t][i] \cap undo_buffer[t][j] = {}
    BY DEF Deletes
  <2>5. Never' = Never
    BY DEF Never
  <2> QED
    BY <1>2, <1>6, <1>7, <2>1, <2>2, <2>3, <2>4, <2>5 DEF Deletes
<1>17. Ended'
  <2>1. \A t \in Txns : \A r \in DeletedBy(t) : rows'[r] = rows[r]
    BY <1>8, DeletedRows, TxnFields DEF Deletes
  <2> QED
    BY <1>2, <1>7, <2>1 DEF Ended
<1>18. InUse' = InUse
  BY <1>2, <1>7, <1>8, <1>9, <1>10 DEF InUse, Never
<1>19. Kept'
  <2>1. \A t \in Running, r \in RowIds' :
          start_time[t] <= rows'[r].deleted /\ rows'[r].deleted # Never /\ rows'[r].deleter # t => r \in InUse
    BY <1>8, <1>9, <1>10 DEF Kept
  <2>2. Never' = Never
    BY DEF Never
  <2> QED
    BY <1>2, <1>6, <1>7, <1>18, <2>1, <2>2 DEF Kept
<1>20. Alive' = Alive \cup New /\ Live' = Live \cup New
  BY <1>6, <1>8, <1>9, <1>10 DEF Alive, Live, Never
<1>21. Distinct'
  <2>1. \A r, s \in Alive' : r < s /\ rows'[r].key = rows'[s].key =>
           s > n /\ r \in DeletedBy(T)
    <3> SUFFICES ASSUME NEW r \in Alive', NEW s \in Alive', r < s, rows'[r].key = rows'[s].key
                 PROVE  s > n /\ r \in DeletedBy(T)
      OBVIOUS
    <3>0. Alive \subseteq RowIds
      BY DEF Alive
    <3>1. CASE r \in Alive /\ s \in Alive
      BY <1>3, <1>8, <3>0, <3>1 DEF Distinct
    <3>2. CASE r \in New /\ s \in Alive
      BY <1>4, <3>0, <3>2
    <3>3. CASE r \in New /\ s \in New
      <4>1. r - n \in 1 .. m /\ s - n \in 1 .. m /\ Chunks[r - n] = Chunks[s - n]
        BY <1>10, <3>3
      <4>2. r - n = s - n
        BY <1>3, <4>1 DEF Distinct, Chunks
      <4> QED
        BY <1>4, <3>3, <4>2
    <3>4. CASE r \in Alive /\ s \in New
      <4>1. s - n \in 1 .. m /\ rows[r].key = Chunks[s - n] /\ s > n
        BY <1>4, <1>8, <1>10, <3>0, <3>4
      <4> QED
        BY <1>1, <3>4, <4>1 DEF Distinct
    <3> QED
      BY <1>20, <3>1, <3>2, <3>3, <3>4
  <2> QED
    BY <1>2, <1>6, <1>7, <2>1 DEF Distinct
<1>22. UniqueKeys'
  <2> SUFFICES ASSUME NEW r \in RowIds', NEW s \in RowIds', r # s, rows'[r].key = rows'[s].key,
                      rows'[r].inserted <= rows'[s].inserted
               PROVE  rows'[s].inserted = Infinity \/ rows'[r].deleted <= rows'[s].inserted
    BY DEF UniqueKeys
  <2>1. CASE s \in New
    BY <1>10, <2>1
  <2>2. CASE r \in RowIds /\ s \in RowIds
    BY <1>8, <2>2 DEF UniqueKeys
  <2>3. CASE r \in New /\ s \in RowIds
    <3>1. rows[s].inserted \in Nat /\ rows[s].inserted <= Infinity /\ rows'[s] = rows[s] /\ rows'[r].inserted = Infinity
      BY <1>8, <1>10, <2>3, RowFields
    <3> QED
      BY <3>1, Constants
  <2> QED
    BY <1>9, <2>1, <2>2, <2>3
<1>23. Groups'
  <2>1. \A g \in 1 .. Len(row_groups') : g \in 1 .. Len(row_groups) \/ (g - Len(row_groups) \in 1 .. Len(groups) /\ g = Len(row_groups) + (g - Len(row_groups)))
    BY <1>11, <1>12
  <2>2. \A g \in 1 .. Len(row_groups') : row_groups'[g] \in 1 .. Len(rows')
    <3> TAKE g \in 1 .. Len(row_groups')
    <3>1. CASE g \in 1 .. Len(row_groups)
      <4>1. row_groups'[g] \in 1 .. n
        BY <1>12, <3>1 DEF Groups
      <4> QED
        BY <1>4, <1>8, <4>1
    <3>2. CASE g \notin 1 .. Len(row_groups)
      <4>1. row_groups'[g] \in 1 .. n + m
        BY <1>11, <1>12, <2>1, <3>2
      <4> QED
        BY <1>8, <4>1
    <3> QED
      BY <3>1, <3>2
  <2>3. \A g, h \in 1 .. Len(row_groups') : g < h => row_groups'[g] < row_groups'[h]
    <3> SUFFICES ASSUME NEW g \in 1 .. Len(row_groups'), NEW h \in 1 .. Len(row_groups'), g < h
                 PROVE  row_groups'[g] < row_groups'[h]
      OBVIOUS
    <3>1. CASE g \in 1 .. Len(row_groups) /\ h \in 1 .. Len(row_groups)
      BY <1>12, <3>1 DEF Groups
    <3>2. CASE g \in 1 .. Len(row_groups) /\ h \notin 1 .. Len(row_groups)
      <4>1. h - Len(row_groups) \in 1 .. Len(groups) /\ row_groups'[h] = groups[h - Len(row_groups)]
        BY <1>12, <2>1, <3>2
      <4>2. row_groups'[g] = row_groups[g]
        BY <1>12, <3>2
      <4>3. row_groups[g] < groups[h - Len(row_groups)]
        BY <1>11, <3>2, <4>1
      <4> QED
        BY <4>1, <4>2, <4>3
    <3>3. CASE g \notin 1 .. Len(row_groups) /\ h \notin 1 .. Len(row_groups)
      <4>1. h - Len(row_groups) \in 1 .. Len(groups) /\ row_groups'[h] = groups[h - Len(row_groups)]
        BY <1>12, <2>1, <3>3
      <4>2. g - Len(row_groups) \in 1 .. Len(groups) /\ row_groups'[g] = groups[g - Len(row_groups)]
        BY <1>12, <2>1, <3>3
      <4>3. g - Len(row_groups) < h - Len(row_groups)
        BY <1>12
      <4> QED
        BY <1>11, <4>1, <4>2, <4>3
    <3>4. CASE g \notin 1 .. Len(row_groups) /\ h \in 1 .. Len(row_groups)
      BY <1>12, <3>4
    <3> QED
      BY <3>1, <3>2, <3>3, <3>4
  <2>4. row_groups' # <<>> /\ row_groups'[1] = 1
    <3>1. CASE row_groups = <<>>
      <4>1. n = 0
        <5>1. rows = <<>>
          BY <3>1 DEF Groups
        <5> QED
          BY <5>1
      <4>2. Len(row_groups) = 0 /\ 1 \in 1 .. Len(groups) /\ groups[1] = 1
        <5>1. Len(row_groups) = 0
          BY <3>1
        <5>2. Len(groups) >= 1 /\ groups[1] = n + 1 /\ Len(groups) \in Nat
          BY <1>11, <3>1
        <5> QED
          BY <4>1, <5>1, <5>2
      <4>3. row_groups'[1] = 1 /\ Len(row_groups') >= 1
        BY <1>11, <1>12, <4>2
      <4>4. row_groups' # <<>>
        BY <4>3
      <4> QED
        BY <4>3, <4>4
    <3>2. CASE row_groups # <<>>
      <4>1. Len(row_groups) >= 1 /\ 1 \in 1 .. Len(row_groups)
        BY <1>12, <3>2, RowFields DEF Types, TableTypes
      <4>2. row_groups[1] \in 1 .. n
        BY <4>1 DEF Groups
      <4>3. n >= 1
        BY <1>4, <4>2
      <4>4. rows # <<>>
        BY <4>3
      <4>5. row_groups'[1] = 1
        BY <1>12, <4>1, <4>4 DEF Groups
      <4>6. Len(row_groups') >= 1
        BY <1>11, <1>12, <4>1
      <4>7. row_groups' # <<>>
        BY <4>6
      <4> QED
        BY <4>5, <4>7
    <3> QED
      BY <3>1, <3>2
  <2> QED
    BY <2>2, <2>3, <2>4 DEF Groups
<1>24. CheckpointIds'
  BY <1>1, <1>2, <1>6 DEF CheckpointIds, WALSwitched, Earlier, Delta, TableLockExclusive, TableLockShared
<1>25. Delta' = Delta /\ (Delta => Old' = Old)
  <2>1. Delta' = Delta
    BY <1>1 DEF Delta
  <2>2. ASSUME Delta PROVE Old' = Old
    <3>1. checkpoint.id < Infinity /\ checkpoint.id \in Nat
      BY <2>2, DeltasInUse, CheckpointFields
    <3>2. \A r \in New : ~(rows'[r].inserted <= checkpoint.id)
      BY <1>10, <3>1, Constants
    <3> QED
      BY <1>1, <1>8, <1>9, <3>2 DEF Old
  <2> QED
    BY <2>1, <2>2
<1>26. Split'
  <2> SUFFICES ASSUME Delta PROVE Split'
    BY <1>25 DEF Split
  <2>1. ~TableLockShared'
    BY <1>6 DEF TableLockShared
  <2>2. /\ last_seen_checkpoint = checkpoint.id
        /\ checkpoint_row_group_count = Len(row_groups) => require_new
        /\ checkpoint_row_group_count <= Len(row_groups)
        /\ \A r \in RowIds : r \in Old <=> ~NewGroup(r)
    BY <1>1 DEF Split, TableLockShared
  <2> DEFINE c == checkpoint_row_group_count
  <2>3. c \in Nat /\ RowIds \subseteq Nat
    BY <1>4, CheckpointFields
  <2>0. c = Len(row_groups) => Len(groups) >= 1 /\ groups[1] = n + 1
    BY <1>11, <2>2, Zenon
  <2>4. c < Len(row_groups') /\ c + 1 \in 1 .. Len(row_groups')
    <3>1. Len(row_groups') = Len(row_groups) + Len(groups) /\ Len(row_groups) \in Nat /\ Len(groups) \in Nat
      BY <1>11, <1>12
    <3>2. c <= Len(row_groups)
      BY <2>2
    <3> QED
      BY <2>0, <2>3, <3>1, <3>2
  <2>5. \A r \in RowIds : NewGroup(r)' <=> NewGroup(r)
    <3>1. CASE c < Len(row_groups)
      <4>1. row_groups'[c + 1] = row_groups[c + 1]
        BY <1>12, <2>3, <3>1
      <4> QED
        BY <1>1, <2>4, <3>1, <4>1 DEF NewGroup
    <3>2. CASE c = Len(row_groups)
      <4>1. row_groups'[c + 1] = n + 1
        <5>1. 1 \in 1 .. Len(groups) /\ groups[1] = n + 1
          BY <1>11, <2>0, <3>2
        <5> QED
          BY <1>12, <3>2, <5>1
      <4>2. \A r \in RowIds : ~(r >= n + 1)
        BY <1>4
      <4> QED
        BY <1>1, <1>12, <3>2, <4>1, <4>2 DEF NewGroup
    <3> QED
      BY <1>12, <2>2, <2>3, <3>1, <3>2
  <2>6. \A r \in New : NewGroup(r)'
    <3>1. row_groups'[c + 1] <= n + 1 /\ row_groups'[c + 1] \in Nat
      <4>1. CASE c < Len(row_groups)
        <5>1. row_groups'[c + 1] = row_groups[c + 1] /\ c + 1 \in 1 .. Len(row_groups)
          BY <1>12, <2>3, <4>1
        <5>2. row_groups[c + 1] \in 1 .. n
          BY <5>1 DEF Groups
        <5> QED
          BY <1>4, <5>1, <5>2
      <4>2. CASE c = Len(row_groups)
        <5>1. 1 \in 1 .. Len(groups) /\ groups[1] = n + 1
          BY <1>11, <2>0, <4>2
        <5>2. row_groups'[c + 1] = n + 1
          BY <1>12, <4>2, <5>1
        <5> QED
          BY <1>4, <5>2
      <4> QED
        BY <1>12, <2>2, <2>3, <4>1, <4>2
    <3>2. \A r \in New : r >= n + 1 /\ r \in Nat
      BY <1>4
    <3> QED
      BY <1>1, <1>4, <2>4, <3>1, <3>2 DEF NewGroup
  <2>7. Old' = Old /\ Delta' /\ New \cap Old = {}
    BY <1>9, <1>25 DEF Old
  <2>8. \A r \in RowIds' : r \in Old' <=> ~NewGroup(r)'
    BY <1>9, <2>2, <2>5, <2>6, <2>7
  <2>9. \A t \in Running' : \A i \in DOMAIN undo_buffer'[t] :
              undo_buffer'[t][i] \subseteq Old \/ undo_buffer'[t][i] \cap Old = {}
    BY <1>2, <1>7 DEF Split
  <2>10. c <= Len(row_groups')
    BY <1>11, <1>12, <2>3, <2>4
  <2>11. last_seen_checkpoint' = checkpoint'.id /\ checkpoint_row_group_count' = c
    BY <1>1, <2>2
  <2> QED
    BY <2>1, <2>7, <2>8, <2>9, <2>10, <2>11 DEF Split
<1>27. Written'
  BY <1>1, <1>25 DEF Written, Delta
<1>28. Indexed'
  <2>1. \A r \in RowIds : rows'[r].key = rows[r].key
    BY <1>8
  <2>2. {<<rows'[r].key, r>> : r \in New} = Pending
    <3>1. Pending = {<<Chunks[i], n + i>> : i \in 1 .. m}
      BY <1>1, <1>3 DEF Pending
    <3>2. \A r \in New : r - n \in 1 .. m /\ <<rows'[r].key, r>> = <<Chunks[r - n], n + (r - n)>>
      BY <1>4, <1>10
    <3>3. \A i \in 1 .. m : n + i \in New /\ (n + i) - n = i
      BY <1>4
    <3>4. \A i \in 1 .. m : <<rows'[n + i].key, n + i>> = <<Chunks[i], n + i>>
      BY <1>10, <3>3
    <3> QED
      BY <3>1, <3>2, <3>3, <3>4, SMTT(30)
  <2>3. Pending' = {}
    BY <1>6 DEF Pending
  <2>4. EntriesOf(Live)' = EntriesOf(Live) \cup Pending
    <3>1. Live \subseteq RowIds
      BY DEF Live
    <3>2. {<<rows'[r].key, r>> : r \in Live} = EntriesOf(Live)
      BY <2>1, <3>1, EntriesKept
    <3>3. EntriesOf(Live)' = {<<rows'[r].key, r>> : r \in Live \cup New}
      BY <1>20 DEF EntriesOf, EntryOf
    <3> QED
      BY <2>2, <3>2, <3>3
  <2>5. EntriesOf(InUse)' = EntriesOf(InUse)
    <3>1. InUse \subseteq RowIds
      BY DEF InUse
    <3>2. EntriesOf(InUse)' = {<<rows'[r].key, r>> : r \in InUse}
      BY <1>18 DEF EntriesOf, EntryOf
    <3> QED
      BY <2>1, <3>1, <3>2, EntriesKept
  <2>6. Entries(entry'.deleted_rows_in_use) = EntriesOf(InUse)'
    BY <1>1, <2>5 DEF Indexed
  <2>7. CASE ~Delta
    BY <1>1, <1>25, <2>3, <2>4, <2>6, <2>7 DEF Indexed
  <2>8. CASE Delta
    <3> DEFINE D == {r \in Old : rows[r].deleted > checkpoint.id}
               D2 == {r \in Old : rows[r].deleted > checkpoint.id /\ rows[r].deleted # Never}
    <3>1. D' = D /\ D2' = D2 /\ D \subseteq RowIds /\ D2 \subseteq RowIds
      BY <1>1, <1>8, <1>25, <2>8 DEF Old, Never
    <3>2. EntriesOf(D)' = EntriesOf(D) /\ EntriesOf(D2)' = EntriesOf(D2)
      BY <2>1, <3>1, EntriesKept DEF EntriesOf, EntryOf
    <3>3. (Live \ Old)' = (Live \ Old) \cup New /\ (Live \ Old) \subseteq RowIds
      BY <1>9, <1>20, <1>25, <2>8 DEF Old, Live
    <3>4. EntriesOf(Live \ Old)' = EntriesOf(Live \ Old) \cup Pending
      <4>1. {<<rows'[r].key, r>> : r \in Live \ Old} = EntriesOf(Live \ Old)
        BY <2>1, <3>3, EntriesKept
      <4>2. EntriesOf(Live \ Old)' = {<<rows'[r].key, r>> : r \in (Live \ Old) \cup New}
        BY <3>3 DEF EntriesOf, EntryOf
      <4> QED
        BY <2>2, <4>1, <4>2
    <3>5. Pending # {}
      BY <1>9, <2>2
    <3>6. Exists(entry.added)
      BY <2>8, <3>5 DEF Indexed
    <3>7. /\ entry.index = EntriesOf(D) /\ Entries(entry.removed) = EntriesOf(D2)
          /\ Entries(entry.added) = EntriesOf(Live \ Old) \cup Pending
      BY <2>8 DEF Indexed
    <3> QED
      BY <1>1, <1>25, <2>3, <2>6, <2>8, <3>2, <3>4, <3>6, <3>7 DEF Indexed
  <2> QED
    BY <2>7, <2>8
<1>29. NoLateConflict'
  BY <1>6 DEF NoLateConflict
<1>30. Regular'
  BY <1>1, FrameRegular
<1> QED
  BY <1>1, <1>13, <1>14, <1>15, <1>16, <1>17, <1>19, <1>21, <1>22, <1>23, <1>24, <1>26, <1>27, <1>28, <1>29, <1>30

-----------------------------------------------------------------------------
(* The commit of the undo buffer *)

\* A transaction that starts to commit its deletes notes whether there are others.
LEMMA StartUndoCommitInv ==
    ASSUME TableInv, StartUndoCommit
    PROVE  TableInv'
<1> USE DEF TableInv
<1> DEFINE state == IF ActiveStarts(T) = {} THEN "none" ELSE "others"
<1>1. /\ commit.pc = "written"
      /\ commit' = [commit EXCEPT !.pc = "undo"]
      /\ active_transaction_state' = [active_transaction_state EXCEPT ![T] = state]
      /\ UNCHANGED <<manager, status, start_time, commit_id, undo_buffer, local_storage, cleanup, table,
                     entry, wal, checkpoint_wal, checkpoint, fatal, behaviours>>
  BY DEF StartUndoCommit
<1>2. UNCHANGED <<current_start_timestamp, last_commit, active_checkpoint, rows, row_groups, require_new,
                  last_seen_checkpoint, checkpoint_row_group_count>>
  BY <1>1 DEF manager, table
<1>3. T # NoTxn /\ T \in Txns /\ status[T] = "active" /\ T \in Running /\ commit.entries = 0
  BY <1>1, CommitFields DEF OneCommit, NoCommit, T, Running
<1>4. /\ commit'.txn = commit.txn /\ T' = T /\ commit'.pc = "undo" /\ commit'.row_start = commit.row_start
      /\ commit'.chunks = commit.chunks /\ commit'.entries = commit.entries
      /\ commit'.appended = commit.appended /\ commit'.checkpoint_id = commit.checkpoint_id
      /\ commit' \in CommitStates
  BY <1>1 DEF Types, CommitStates, CommitPCs, T
<1>5. RowIds' = RowIds /\ Running' = Running /\ Chunks' = Chunks /\ \A u : DeletedBy(u)' = DeletedBy(u)
  BY <1>1, <1>2, <1>4 DEF RowIds, Running, DeletedBy, Chunks
<1>6. /\ \A u \in Txns \ {T} : active_transaction_state'[u] = active_transaction_state[u]
      /\ active_transaction_state'[T] = state
      /\ active_transaction_state' \in [Txns -> {"unset", "none", "others"}]
  BY <1>1, <1>3 DEF Types, TransactionTypes
<1>7. \A t \in Running : t # T => state = "others"
  BY DEF ActiveStarts
<1> HIDE DEF state
<1>8. Types'
  BY <1>1, <1>2, <1>4, <1>6 DEF Types, TransactionTypes, TableTypes
<1>9. \A r \in RowIds : rows[r].deleter = T => rows[r].deleted = Never
  BY <1>1, <1>3, RunningDeletes
<1>10. \A r \in DeletedBy(T) : r \in RowIds /\ rows[r].deleter = T /\ rows[r].deleted = Never
  <2>1. \A r \in DeletedBy(T) : r \in RowIds /\ rows[r].deleter = T
    BY <1>3, DeletedRows, TxnFields DEF Deletes
  <2> QED
    BY <1>9, <2>1
<1>11. Times'
  BY <1>1, <1>2, <1>4, <1>5 DEF Times, Never
<1>12. OneCommit'
  BY <1>1, <1>2, <1>4, <1>5 DEF OneCommit, Appended, HasChanges, Flushing, T, NoCommit, Never
<1>13. Deletes'
  <2>1. \A i \in DOMAIN undo_buffer[T] : ~(i <= 0) /\ \A r \in undo_buffer[T][i] : rows[r].deleted = Never
    <3>1. DOMAIN undo_buffer[T] = 1 .. Len(undo_buffer[T]) /\ undo_buffer[T] \in Seq(SUBSET RowId)
      BY <1>3, TxnFields
    <3>2. \A i \in DOMAIN undo_buffer[T] : \A r \in undo_buffer[T][i] : r \in DeletedBy(T)
      BY <3>1, DeletedRows
    <3>3. \A i \in 1 .. Len(undo_buffer[T]) : ~(i <= 0)
      OBVIOUS
    <3> QED
      BY <1>10, <3>1, <3>2, <3>3
  <2>2. \A i \in DOMAIN undo_buffer'[T'] : \A r \in undo_buffer'[T'][i] :
          rows'[r].deleted = IF i <= commit'.entries THEN current_start_timestamp' ELSE Never
    BY <1>1, <1>2, <1>3, <1>4, <2>1
  <2> QED
    BY <1>1, <1>2, <1>4, <1>5, <2>2 DEF Deletes, Never
<1>14. InUse' = InUse
  <2>1. \A r \in RowIds : rows[r].deleted # Never => r \notin DeletedBy(T)
    BY <1>10
  <2>2. \A r \in RowIds : rows[r].deleted # Never =>
           ((\E t \in Txns : r \in DeletedBy(t) /\ active_transaction_state'[t] = "others") <=>
            (\E t \in Txns : r \in DeletedBy(t) /\ active_transaction_state[t] = "others"))
    BY <1>6, <2>1
  <2> QED
    BY <1>2, <1>5, <2>2 DEF InUse, Never
<1>15. Kept'
  BY <1>1, <1>2, <1>4, <1>5, <1>6, <1>7, <1>14 DEF Kept, Never, state
<1>16. Alive' = Alive /\ Live' = Live /\ Old' = Old /\ Delta' = Delta /\ Pending' = {} /\ Pending = {}
  BY <1>1, <1>2, <1>4, <1>5 DEF Alive, Live, Old, Delta, Pending, Never
<1>17. Distinct'
  BY <1>1, <1>2, <1>4, <1>5, <1>16 DEF Distinct
<1>18. CheckpointIds'
  BY <1>1, <1>2, <1>4 DEF CheckpointIds, WALSwitched, Earlier, Delta, TableLockExclusive, TableLockShared
<1>19. Split'
  <2>1. \A r : NewGroup(r)' = NewGroup(r)
    BY <1>2 DEF NewGroup
  <2>2. ~TableLockShared'
    BY <1>4 DEF TableLockShared
  <2> QED
    BY <1>1, <1>2, <1>5, <1>16, <2>1, <2>2 DEF Split
<1>20. Indexed'
  BY <1>1, <1>2, <1>5, <1>14, <1>16 DEF Indexed, EntriesOf, EntryOf, Never
<1>21. NoLateConflict'
  BY <1>4 DEF NoLateConflict
<1>22. Ended' /\ UniqueKeys' /\ Groups' /\ Written' /\ Regular'
  BY <1>1, <1>2, FrameEnded, FrameUniqueKeys, FrameGroups, FrameWritten, FrameRegular
<1> QED
  BY <1>1, <1>8, <1>11, <1>12, <1>13, <1>15, <1>17, <1>18, <1>19, <1>20, <1>21, <1>22

\* What a delete takes out of an index, and what it puts into the delta indexes.
Removed(e, type, E, deltas, new, error) ==
    /\ new \in IndexEntries /\ new.last_written = e.last_written
    /\ Entries(new.deleted_rows_in_use) = (IF type = "MAIN_INDEX" THEN Entries(e.deleted_rows_in_use) \cup E
                                           ELSE Entries(e.deleted_rows_in_use))
    /\ ~deltas => /\ new.index = e.index \ E /\ new.added = e.added /\ new.removed = e.removed
                  /\ error = ~(E \subseteq e.index)
    /\ deltas => /\ new.index = e.index /\ Entries(new.added) = Entries(e.added) \ E
                 /\ Exists(new.added) <=> Exists(e.added)
                 /\ Entries(new.removed) = (IF E \cap Entries(e.added) = {} THEN Entries(e.removed) \cup E
                                            ELSE Entries(e.removed))
                 /\ error = \/ E \cap Entries(e.added) \notin {{}, E}
                            \/ E \cap Entries(e.added) = {} /\ AppendConflicts(Entries(e.removed), E)

\* TableIndexList::RemoveFromIndexes, for a delete that commits, does what Removed says.
LEMMA RemovedFromIndexes ==
    ASSUME NEW e \in IndexEntries, NEW type \in {"MAIN_INDEX", "MAIN_INDEX_ONLY"}, NEW E \in Index, NEW id
    PROVE  Removed(e, type, E, UseDeltas(e, id), RemoveFromIndexes(e, type, E, id).entry,
                   RemoveFromIndexes(e, type, E, id).error)
<1> DEFINE new == RemoveFromIndexes(e, type, E, id).entry
           error == RemoveFromIndexes(e, type, E, id).error
<1>1. /\ e.index \in Index /\ e.deleted_rows_in_use \in Ptrs /\ e.added \in Ptrs /\ e.removed \in Ptrs
  BY DEF IndexEntries
<1>2. \A p \in Ptrs : Entries(p) \in Index
  BY Pointers
<1>3. \A A \in Index : A \ E \in Index /\ A \cup E \in Index
  BY DEF Index
<1>4. \A A \in Index : <<A>> \in Ptrs
  BY Pointers
<1>5. \A A : Entries(<<A>>) = A /\ Exists(<<A>>)
  BY Pointers
<1>6. ~Exists(<<>>) /\ Entries(<<>>) = {} /\ \A p : Exists(p) <=> p # <<>>
  BY DEF Exists, Entries
<1> DEFINE used == IF type = "MAIN_INDEX" THEN <<Entries(e.deleted_rows_in_use) \cup E>> ELSE e.deleted_rows_in_use
           added == IF Exists(e.added) THEN <<Entries(e.added) \ E>> ELSE e.added
           removed == <<IF E \cap Entries(e.added) = {} THEN Entries(e.removed) \cup E ELSE Entries(e.removed)>>
<1>7. /\ used \in Ptrs /\ added \in Ptrs /\ removed \in Ptrs
      /\ Entries(used) = (IF type = "MAIN_INDEX" THEN Entries(e.deleted_rows_in_use) \cup E
                          ELSE Entries(e.deleted_rows_in_use))
      /\ Exists(added) <=> Exists(e.added)
      /\ Entries(removed) = (IF E \cap Entries(e.added) = {} THEN Entries(e.removed) \cup E
                             ELSE Entries(e.removed))
  <2>1. /\ Entries(e.deleted_rows_in_use) \in Index /\ Entries(e.added) \in Index /\ Entries(e.removed) \in Index
    BY <1>1, <1>2
  <2>2. used \in Ptrs
    BY <1>1, <1>3, <1>4, <2>1, Zenon
  <2>3. added \in Ptrs
    BY <1>1, <1>3, <1>4, <2>1, Zenon
  <2>4. removed \in Ptrs
    BY <1>1, <1>3, <1>4, <2>1, Zenon
  <2>5. Entries(used) = (IF type = "MAIN_INDEX" THEN Entries(e.deleted_rows_in_use) \cup E
                         ELSE Entries(e.deleted_rows_in_use))
    BY <1>5
  <2>6. Exists(added) <=> Exists(e.added)
    BY <1>5
  <2>7. Entries(removed) = (IF E \cap Entries(e.added) = {} THEN Entries(e.removed) \cup E
                            ELSE Entries(e.removed))
    BY <1>5
  <2> QED
    BY <2>2, <2>3, <2>4, <2>5, <2>6, <2>7, Zenon
<1>8. Entries(added) = Entries(e.added) \ E
  <2>1. CASE Exists(e.added)
    BY <1>5, <2>1
  <2>2. CASE ~Exists(e.added)
    BY <1>6, <2>2
  <2> QED
    BY <2>1, <2>2
<1>9. CASE UseDeltas(e, id)
  <2>1. /\ new = [e EXCEPT !.added = added, !.removed = removed, !.deleted_rows_in_use = used]
        /\ error = (\/ E \cap Entries(e.added) \notin {{}, E}
                    \/ E \cap Entries(e.added) = {} /\ AppendConflicts(Entries(e.removed), E))
    BY <1>9 DEF RemoveFromIndexes, RemoveFromDeltas, IndexEntries
  <2> HIDE DEF added, removed, used, new, error
  <2>2. /\ new \in IndexEntries /\ new.last_written = e.last_written /\ new.index = e.index
        /\ new.added = added /\ new.removed = removed /\ new.deleted_rows_in_use = used
    BY <1>7, <2>1 DEF IndexEntries
  <2> QED
    BY <1>7, <1>8, <1>9, <2>1, <2>2 DEF Removed, new, error
<1>10. CASE ~UseDeltas(e, id)
  <2>1. /\ new = [e EXCEPT !.index = e.index \ E, !.deleted_rows_in_use = used]
        /\ error = ~(E \subseteq e.index)
    BY <1>10 DEF RemoveFromIndexes, IndexEntries, DeleteFails
  <2> HIDE DEF added, removed, used, new, error
  <2>2. /\ new \in IndexEntries /\ new.last_written = e.last_written /\ new.index = e.index \ E
        /\ new.added = e.added /\ new.removed = e.removed /\ new.deleted_rows_in_use = used
    BY <1>1, <1>3, <1>7, <2>1 DEF IndexEntries
  <2> QED
    BY <1>7, <1>10, <2>1, <2>2 DEF Removed, new, error
<1> QED
  BY <1>9, <1>10

\* Rows of which each has a key of its own do not conflict with each other.
LEMMA NoAppendConflict ==
    ASSUME NEW A, NEW B, A \cap B = {},
           \A r \in A, s \in A \cup B : rows[r].key = rows[s].key => r = s
    PROVE  ~AppendConflicts(EntriesOf(B), EntriesOf(A))
<1>1. \A x \in EntriesOf(A) : x[2] \in A /\ x = <<rows[x[2]].key, x[2]>> /\ x[1] = rows[x[2]].key
  BY DEF EntriesOf, EntryOf
<1>2. \A x \in EntriesOf(A) : Lookup(EntriesOf(B), x[1]) = {}
  <2> TAKE x \in EntriesOf(A)
  <2>1. Lookup(EntriesOf(B), x[1]) = {r \in B : rows[r].key = x[1]}
    BY LookupRows
  <2>2. ASSUME NEW r \in B, rows[r].key = x[1] PROVE FALSE
    <3>1. x[2] \in A /\ rows[x[2]].key = rows[r].key
      BY <1>1, <2>2
    <3>2. x[2] = r
      BY <3>1
    <3> QED
      BY <3>1, <3>2
  <2> QED
    BY <2>1, <2>2
<1>3. \A x \in EntriesOf(A) : \A y \in EntriesOf(A) \ {x} : x[1] # y[1]
  <2> SUFFICES ASSUME NEW x \in EntriesOf(A), NEW y \in EntriesOf(A), x[1] = y[1] PROVE x = y
    OBVIOUS
  <2>1. x[2] = y[2]
    BY <1>1
  <2> QED
    BY <1>1, <2>1
<1> QED
  BY <1>2, <1>3 DEF AppendConflicts

\* CommitState::CommitDelete: the rows of a DeleteInfo leave the index, and stay in use for others.
LEMMA CommitDeleteInv ==
    ASSUME TableInv, CommitDelete
    PROVE  TableInv'
<1> USE DEF TableInv
<1> DEFINE k == commit.entries + 1
           R == undo_buffer[T][k]
           id == current_start_timestamp
           type == GetIndexRemovalType(active_transaction_state[T], "COMMIT")
           removal == RemoveFromIndexes(entry, type, EntriesOf(R), active_checkpoint)
           others == active_transaction_state[T] = "others"
<1>1. /\ commit.pc = "undo" /\ commit.entries < Len(undo_buffer[T])
      /\ rows' = [r \in RowIds |-> IF r \in R THEN [rows[r] EXCEPT !.deleted = id] ELSE rows[r]]
      /\ entry' = removal.entry /\ fatal' = removal.error
      /\ commit' = [commit EXCEPT !.entries = @ + 1]
      /\ UNCHANGED <<manager, transactions, row_groups, require_new, last_seen_checkpoint,
                     checkpoint_row_group_count, wal, checkpoint_wal, checkpoint, behaviours>>
  BY DEF CommitDelete
<1>2. UNCHANGED <<current_start_timestamp, last_commit, active_checkpoint, status, start_time, commit_id,
                  undo_buffer, local_storage, active_transaction_state, cleanup>>
  BY <1>1 DEF manager, transactions
<1>3. T # NoTxn /\ T \in Txns /\ status[T] = "active" /\ T \in Running
  BY <1>1, CommitFields DEF OneCommit, NoCommit, T, Running
<1>4. /\ commit.entries \in Nat /\ Len(undo_buffer[T]) \in Nat /\ DOMAIN undo_buffer[T] = 1 .. Len(undo_buffer[T])
      /\ undo_buffer[T] \in Seq(SUBSET RowId) /\ k \in DOMAIN undo_buffer[T]
  <2>1. /\ commit.entries \in Nat /\ Len(undo_buffer[T]) \in Nat /\ DOMAIN undo_buffer[T] = 1 .. Len(undo_buffer[T])
        /\ undo_buffer[T] \in Seq(SUBSET RowId)
    BY <1>3, CommitFields, TxnFields
  <2> QED
    BY <1>1, <2>1
<1>5. /\ commit'.txn = commit.txn /\ T' = T /\ commit'.pc = "undo" /\ commit'.row_start = commit.row_start
      /\ commit'.chunks = commit.chunks /\ commit'.entries = k
      /\ commit'.appended = commit.appended /\ commit'.checkpoint_id = commit.checkpoint_id
      /\ commit' \in CommitStates
  BY <1>1, <1>4 DEF Types, CommitStates, T
<1>6. /\ \A r \in R : r \in RowIds /\ rows[r].deleter = T /\ rows[r].inserted <= last_commit /\ rows[r].deleted = Never
      /\ R \subseteq DeletedBy(T) /\ R \subseteq Live
  <2>1. \A r \in R : r \in RowIds /\ rows[r].deleter = T /\ rows[r].inserted <= last_commit
    BY <1>3, <1>4 DEF Deletes
  <2>2. ~(k <= commit.entries)
    BY <1>4
  <2>3. \A r \in R : rows[r].deleted = Never
    BY <1>1, <1>4, <2>2 DEF Deletes
  <2>4. R \subseteq DeletedBy(T)
    BY <1>4, DeletedRows
  <2> QED
    BY <2>1, <2>3, <2>4 DEF Live
<1>7. others \/ active_transaction_state[T] = "none"
  BY <1>1, <1>3, TxnFields DEF Kept
<1>8. type = IF others THEN "MAIN_INDEX" ELSE "MAIN_INDEX_ONLY"
  BY <1>7 DEF GetIndexRemovalType
<1>9. id \in Nat /\ last_commit \in Nat /\ last_commit < id /\ id < Infinity /\ id # Never /\ id \in Ids
  BY CheckpointFields, Constants DEF Times, Ids
<1> HIDE DEF k, R, type, others, removal
<1>10. /\ rows' \in Seq(RowRecords) /\ Len(rows') = Len(rows) /\ RowIds' = RowIds
       /\ \A r \in RowIds : /\ rows'[r].key = rows[r].key /\ rows'[r].inserted = rows[r].inserted
                            /\ rows'[r].deleter = rows[r].deleter
                            /\ rows'[r].deleted = IF r \in R THEN id ELSE rows[r].deleted
  <2>1. RowIds = 1 .. Len(rows) /\ Len(rows) \in Nat /\ \A r \in RowIds : rows[r] \in RowRecords
    BY RowFields
  <2>2. \A r \in RowIds : rows'[r] = IF r \in R THEN [rows[r] EXCEPT !.deleted = id] ELSE rows[r]
    BY <1>1
  <2>3. \A row \in RowRecords : /\ [row EXCEPT !.deleted = id] \in RowRecords
                                /\ [row EXCEPT !.deleted = id].key = row.key
                                /\ [row EXCEPT !.deleted = id].inserted = row.inserted
                                /\ [row EXCEPT !.deleted = id].deleter = row.deleter
                                /\ [row EXCEPT !.deleted = id].deleted = id
    BY <1>9 DEF RowRecords
  <2>4. \A r \in RowIds : /\ rows'[r] \in RowRecords
                          /\ rows'[r].key = rows[r].key /\ rows'[r].inserted = rows[r].inserted
                          /\ rows'[r].deleter = rows[r].deleter
                          /\ rows'[r].deleted = IF r \in R THEN id ELSE rows[r].deleted
    <3> TAKE r \in RowIds
    <3>1. CASE r \in R
      BY <2>1, <2>2, <2>3, <3>1
    <3>2. CASE r \notin R
      BY <2>1, <2>2, <3>2
    <3> QED
      BY <3>1, <3>2
  <2>5. rows' = [r \in 1 .. Len(rows) |-> rows'[r]]
    BY <1>1, <2>1
  <2>6. rows' \in Seq(RowRecords) /\ Len(rows') = Len(rows) /\ DOMAIN rows' = 1 .. Len(rows)
    BY <2>1, <2>4, <2>5
  <2> QED
    BY <2>1, <2>4, <2>6 DEF RowIds
<1>11. Running' = Running /\ Chunks' = Chunks /\ \A u : DeletedBy(u)' = DeletedBy(u)
  BY <1>1, <1>2, <1>5 DEF Running, DeletedBy, Chunks
<1>12. Live' = Live \ R /\ Old' = Old /\ Alive' = Alive /\ Delta' = Delta
  <2>1. Live' = Live \ R
    BY <1>9, <1>10 DEF Live, Never
  <2>2. Old' = Old
    BY <1>1, <1>10 DEF Old
  <2>3. Alive' = Alive
    BY <1>3, <1>5, <1>6, <1>10 DEF Alive, Never
  <2> QED
    BY <1>1, <2>1, <2>2, <2>3 DEF Delta
<1>13. InUse' = IF others THEN InUse \cup R ELSE InUse
  <2> DEFINE P(r) == \E t \in Txns : r \in DeletedBy(t) /\ active_transaction_state[t] = "others"
  <2>1. InUse' = {r \in RowIds : rows'[r].deleted # Never /\ P(r)}
    BY <1>2, <1>10, <1>11 DEF InUse, Never
  <2>2. InUse = {r \in RowIds : rows[r].deleted # Never /\ P(r)}
    BY DEF InUse
  <2>3. \A r \in R : P(r) <=> others
    <3>1. \A t \in Txns : \A r \in DeletedBy(t) : rows[r].deleter = t
      BY DeletedRows, TxnFields DEF Deletes
    <3> QED
      BY <1>3, <1>6, <3>1 DEF others
  <2> HIDE DEF P
  <2>4. \A r \in RowIds : rows'[r].deleted # Never <=> (r \in R \/ rows[r].deleted # Never)
    BY <1>9, <1>10
  <2> QED
    BY <1>6, <2>1, <2>2, <2>3, <2>4
<1>14. EntriesOf(R) \in Index
  BY <1>6, EntriesType
<1>15. Pending = {} /\ Pending' = {}
  BY <1>1, <1>5 DEF Pending
<1>16. UseDeltas(entry, active_checkpoint) <=> Delta
  BY DeltasInUse
<1>17. /\ entry' \in IndexEntries /\ entry'.last_written = entry.last_written
       /\ Entries(entry'.deleted_rows_in_use) = (IF type = "MAIN_INDEX" THEN Entries(entry.deleted_rows_in_use) \cup EntriesOf(R)
                                                 ELSE Entries(entry.deleted_rows_in_use))
       /\ ~Delta => /\ entry'.index = entry.index \ EntriesOf(R) /\ entry'.added = entry.added
                    /\ entry'.removed = entry.removed /\ fatal' = ~(EntriesOf(R) \subseteq entry.index)
       /\ Delta => /\ entry'.index = entry.index /\ Entries(entry'.added) = Entries(entry.added) \ EntriesOf(R)
                   /\ Exists(entry'.added) <=> Exists(entry.added)
                   /\ Entries(entry'.removed) =
                        (IF EntriesOf(R) \cap Entries(entry.added) = {} THEN Entries(entry.removed) \cup EntriesOf(R)
                         ELSE Entries(entry.removed))
                   /\ fatal' = \/ EntriesOf(R) \cap Entries(entry.added) \notin {{}, EntriesOf(R)}
                               \/ /\ EntriesOf(R) \cap Entries(entry.added) = {}
                                  /\ AppendConflicts(Entries(entry.removed), EntriesOf(R))
  <2>1. entry \in IndexEntries /\ type \in {"MAIN_INDEX", "MAIN_INDEX_ONLY"}
    BY <1>8 DEF Types
  <2>2. entry' = RemoveFromIndexes(entry, type, EntriesOf(R), active_checkpoint).entry
        /\ fatal' = RemoveFromIndexes(entry, type, EntriesOf(R), active_checkpoint).error
    BY <1>1 DEF removal
  <2>3. Removed(entry, type, EntriesOf(R), UseDeltas(entry, active_checkpoint), entry', fatal')
    BY <1>14, <2>1, <2>2, RemovedFromIndexes
  <2> QED
    BY <1>16, <2>3 DEF Removed
<1>18. Entries(entry'.deleted_rows_in_use) = EntriesOf(InUse')
  <2>1. EntriesOf(InUse \cup R) = EntriesOf(InUse) \cup EntriesOf(R)
    BY EntriesAlgebra
  <2>2. Entries(entry.deleted_rows_in_use) = EntriesOf(InUse)
    BY DEF Indexed
  <2> QED
    BY <1>8, <1>13, <1>17, <2>1, <2>2
<1>19. ~Delta => entry'.index = EntriesOf(Live') /\ entry'.added = <<>> /\ entry'.removed = <<>> /\ fatal' = FALSE
  <2> SUFFICES ASSUME ~Delta PROVE entry'.index = EntriesOf(Live') /\ entry'.added = <<>> /\ entry'.removed = <<>> /\ fatal' = FALSE
    OBVIOUS
  <2>1. entry.index = EntriesOf(Live) /\ entry.added = <<>> /\ entry.removed = <<>>
    BY <1>15 DEF Indexed
  <2>2. EntriesOf(R) \subseteq entry.index
    <3>1. EntriesOf(R) \subseteq EntriesOf(Live) <=> R \subseteq Live
      BY EntriesAlgebra
    <3> QED
      BY <1>6, <2>1, <3>1
  <2>3. EntriesOf(Live \ R) = EntriesOf(Live) \ EntriesOf(R)
    BY EntriesAlgebra
  <2> QED
    BY <1>12, <1>17, <2>1, <2>2, <2>3
<1> DEFINE D == {r \in Old : rows[r].deleted > checkpoint.id}
           D2 == {r \in Old : rows[r].deleted > checkpoint.id /\ rows[r].deleted # Never}
<1>20. Delta => /\ entry'.index = EntriesOf(D)
                /\ Entries(entry'.removed) = EntriesOf(D2 \cup (R \cap Old))
                /\ Entries(entry'.added) = EntriesOf(Live' \ Old)
                /\ RowIds \subseteq Old \/ Exists(entry'.added)
                /\ fatal' = FALSE
  <2> SUFFICES ASSUME Delta
               PROVE  /\ entry'.index = EntriesOf(D)
                      /\ Entries(entry'.removed) = EntriesOf(D2 \cup (R \cap Old))
                      /\ Entries(entry'.added) = EntriesOf(Live' \ Old)
                      /\ RowIds \subseteq Old \/ Exists(entry'.added)
                      /\ fatal' = FALSE
    OBVIOUS
  <2>1. /\ entry.index = EntriesOf(D) /\ Entries(entry.removed) = EntriesOf(D2)
        /\ Entries(entry.added) = EntriesOf(Live \ Old)
        /\ RowIds \subseteq Old \/ Exists(entry.added)
    BY <1>15 DEF Indexed
  <2>2. entry'.index = EntriesOf(D) /\ (RowIds \subseteq Old \/ Exists(entry'.added))
    BY <1>17, <2>1
  <2>3. Entries(entry'.added) = EntriesOf(Live' \ Old)
    <3>1. EntriesOf((Live \ Old) \ R) = EntriesOf(Live \ Old) \ EntriesOf(R)
      BY EntriesAlgebra
    <3>2. (Live \ Old) \ R = Live' \ Old
      BY <1>12
    <3> QED
      BY <1>17, <2>1, <3>1, <3>2
  <2>4. EntriesOf(R) \cap Entries(entry.added) = EntriesOf(R \ Old)
    <3>1. EntriesOf(R \cap (Live \ Old)) = EntriesOf(R) \cap EntriesOf(Live \ Old)
      <4> DEFINE N == Live \ Old
      <4> HIDE DEF N
      <4>1. EntriesOf(R \cap N) = EntriesOf(R) \cap EntriesOf(N)
        BY EntriesAlgebra
      <4> QED
        BY <4>1 DEF N
    <3>2. R \cap (Live \ Old) = R \ Old
      BY <1>6
    <3> QED
      BY <2>1, <3>1, <3>2
  <2>5. R \subseteq Old \/ R \cap Old = {}
    BY <1>3, <1>4 DEF Split, R
  <2>6. CASE R \subseteq Old
    <3>1. R \ Old = {} /\ R \cap Old = R
      BY <2>6
    <3>2. EntriesOf(R) \cap Entries(entry.added) = {}
      BY <2>4, <3>1, EntriesAlgebra
    <3>3. ~AppendConflicts(EntriesOf(D2), EntriesOf(R))
      <4>1. checkpoint.id < Infinity /\ checkpoint.id \in Nat
        BY DeltasInUse, CheckpointFields
      <4>2. R \subseteq D /\ D2 \subseteq D /\ R \cap D2 = {} /\ D \subseteq Old
        BY <1>6, <2>6, <4>1, Constants
      <4>3. \A r, s \in D : rows[r].key = rows[s].key => r = s
        BY ImageDistinct
      <4> HIDE DEF D, D2
      <4>4. \A r \in R, s \in R \cup D2 : rows[r].key = rows[s].key => r = s
        BY <4>2, <4>3
      <4> QED
        BY <4>2, <4>4, NoAppendConflict
    <3>4. EntriesOf(D2 \cup R) = EntriesOf(D2) \cup EntriesOf(R)
      BY EntriesAlgebra
    <3>5. fatal' = FALSE
      BY <1>17, <2>1, <3>2, <3>3
    <3> QED
      BY <1>17, <2>1, <2>2, <2>3, <3>1, <3>2, <3>4, <3>5
  <2>7. CASE R \cap Old = {} /\ R # {}
    <3>1. R \ Old = R
      BY <2>7
    <3>2. EntriesOf(R) \cap Entries(entry.added) = EntriesOf(R) /\ EntriesOf(R) # {}
      BY <2>4, <2>7, <3>1, EntriesAlgebra
    <3>3. fatal' = FALSE
      BY <1>17, <3>2
    <3>4. D2 \cup (R \cap Old) = D2
      BY <2>7
    <3> QED
      BY <1>17, <2>1, <2>2, <2>3, <3>2, <3>3, <3>4
  <2> QED
    BY <2>5, <2>6, <2>7
<1>21. fatal' = FALSE
  BY <1>19, <1>20
<1>22. Types'
  BY <1>1, <1>2, <1>5, <1>10, <1>17, <1>21 DEF Types, TransactionTypes, TableTypes
<1>23. Times'
  <2>1. \A r \in RowIds : \/ rows'[r].deleted <= last_commit \/ rows'[r].deleted = Never
                          \/ rows'[r].deleted = id /\ rows'[r].deleter = T
    BY <1>6, <1>10 DEF Times
  <2>2. \A r \in RowIds : \/ rows'[r].inserted <= last_commit
                          \/ rows'[r].inserted = Infinity /\ commit.appended /\ r > commit.row_start
    BY <1>10 DEF Times
  <2>3. \A r, s \in RowIds : r <= s => rows'[r].inserted <= rows'[s].inserted
    BY <1>10 DEF Times
  <2> QED
    BY <1>2, <1>5, <1>10, <1>11, <2>1, <2>2, <2>3 DEF Times, Never
<1>24. OneCommit'
  <2>1. Appended'
    <3> SUFFICES ASSUME commit.appended PROVE Appended'
      BY <1>5 DEF Appended
    <3>1. Len(Chunks) \in Nat /\ commit.row_start \in Nat
      BY <1>3, CommitFields, TxnFields DEF Chunks
    <3>2. Len(rows) = commit.row_start + Len(Chunks) /\ commit.chunks = Len(Chunks)
      BY DEF OneCommit, Appended
    <3>3. \A i \in 1 .. Len(Chunks) : commit.row_start + i \in RowIds
      BY <3>1, <3>2, RowFields
    <3>4. \A i \in 1 .. Len(Chunks) : LET row == rows[commit.row_start + i] IN
              /\ row.key = Chunks[i] /\ row.inserted = Infinity
              /\ row.deleter = NoTxn /\ row.deleted = Never
      BY DEF OneCommit, Appended
    <3>5. ASSUME NEW i \in 1 .. Len(Chunks)
          PROVE  LET row == rows'[commit.row_start + i] IN
                    /\ row.key = Chunks[i] /\ row.inserted = Infinity
                    /\ row.deleter = NoTxn /\ row.deleted = Never
      BY <1>3, <1>6, <1>10, <3>3, <3>4
    <3> QED
      BY <1>5, <1>10, <1>11, <3>2, <3>5 DEF Appended, Never
  <2>2. k <= Len(undo_buffer[T])
    BY <1>4
  <2> QED
    BY <1>1, <1>2, <1>3, <1>5, <1>11, <2>1, <2>2 DEF OneCommit, HasChanges, T, Flushing
<1>25. Deletes'
  <2>1. \A t \in Txns : \A i \in DOMAIN undo_buffer[t] : \A r \in undo_buffer[t][i] :
           r \in RowIds /\ rows'[r].deleter = t /\ rows'[r].inserted <= last_commit
    BY <1>10 DEF Deletes
  <2>2. \A r \in RowIds : rows'[r].deleter = NoTxn => rows'[r].deleted = Never
    BY <1>3, <1>6, <1>10 DEF Deletes
  <2>3. \A t \in Txns, r \in RowIds : rows'[r].deleter = t =>
          IF t \in Running
          THEN /\ r \in DeletedBy(t)
               /\ ~(t = T /\ commit.pc = "undo") => rows'[r].deleted = Never
          ELSE status[t] = "done" /\ rows'[r].deleted <= last_commit
    <3> SUFFICES ASSUME NEW t \in Txns, NEW r \in RowIds, rows[r].deleter = t
                 PROVE  IF t \in Running
                        THEN /\ r \in DeletedBy(t)
                             /\ ~(t = T /\ commit.pc = "undo") => rows'[r].deleted = Never
                        ELSE status[t] = "done" /\ rows'[r].deleted <= last_commit
      BY <1>10
    <3>1. IF t \in Running
          THEN /\ r \in DeletedBy(t)
               /\ ~(t = T /\ commit.pc = "undo") => rows[r].deleted = Never
          ELSE status[t] = "done" /\ rows[r].deleted <= last_commit
      BY DEF Deletes
    <3>2. t # T => rows'[r].deleted = rows[r].deleted
      BY <1>6, <1>10
    <3> QED
      BY <1>1, <1>3, <3>1, <3>2
  <2>4. \A i \in DOMAIN undo_buffer[T] : \A r \in undo_buffer[T][i] :
          rows'[r].deleted = IF i <= k THEN id ELSE Never
    <3> SUFFICES ASSUME NEW i \in DOMAIN undo_buffer[T], NEW r \in undo_buffer[T][i]
                 PROVE  rows'[r].deleted = IF i <= k THEN id ELSE Never
      OBVIOUS
    <3>1. r \in RowIds /\ rows[r].deleted = IF i <= commit.entries THEN id ELSE Never
      BY <1>1, <1>3 DEF Deletes
    <3>2. i \in Nat /\ i > 0
      BY <1>4
    <3>3. CASE i = k
      BY <1>4, <1>10, <3>1, <3>2, <3>3 DEF R
    <3>4. CASE i # k
      <4>1. r \notin R
        BY <1>3, <1>4, <3>4 DEF Deletes, R
      <4>2. i <= commit.entries <=> i <= k
        BY <1>4, <3>2, <3>4 DEF k
      <4> QED
        BY <1>10, <3>1, <4>1, <4>2
    <3> QED
      BY <3>3, <3>4
  <2>5. \A t \in Txns : \A i, j \in DOMAIN undo_buffer[t] :
          i # j => undo_buffer[t][i] \cap undo_buffer[t][j] = {}
    BY DEF Deletes
  <2>6. \A i \in DOMAIN undo_buffer'[T'] : \A r \in undo_buffer'[T'][i] :
          rows'[r].deleted = IF i <= commit'.entries THEN current_start_timestamp' ELSE Never
    BY <1>2, <1>5, <2>4
  <2>7. Never' = Never
    BY DEF Never
  <2>8. \A t \in Txns, r \in RowIds' : rows'[r].deleter = t =>
          IF t \in Running'
          THEN /\ r \in DeletedBy(t)'
               /\ ~(t = T' /\ commit'.pc = "undo") => rows'[r].deleted = Never
          ELSE status'[t] = "done" /\ rows'[r].deleted <= last_commit'
    BY <1>1, <1>2, <1>5, <1>10, <1>11, <2>3, ZenonT(30)
  <2> QED
    BY <1>2, <1>10, <2>1, <2>2, <2>5, <2>6, <2>7, <2>8 DEF Deletes
<1>26. Ended'
  <2>1. ASSUME NEW t \in Txns, cleanup[t] # "none", NEW r \in DeletedBy(t) PROVE rows'[r].deleted = commit_id[t]
    <3>1. rows[r].deleted = commit_id[t] /\ status[t] = "done"
      BY <2>1 DEF Ended
    <3>2. r \in RowIds /\ rows[r].deleter = t
      BY DeletedRows, TxnFields DEF Deletes
    <3>3. t # T
      BY <1>3, <3>1
    <3> QED
      BY <1>6, <1>10, <3>1, <3>2, <3>3
  <2> QED
    BY <1>2, <1>11, <2>1 DEF Ended
<1>27. Kept'
  <2>1. \A t \in Running, r \in RowIds :
          start_time[t] <= rows'[r].deleted /\ rows'[r].deleted # Never /\ rows'[r].deleter # t => r \in InUse'
    <3> SUFFICES ASSUME NEW t \in Running, NEW r \in RowIds, start_time[t] <= rows'[r].deleted,
                        rows'[r].deleted # Never, rows[r].deleter # t
                 PROVE  r \in InUse'
      BY <1>10
    <3>1. CASE r \in R
      <4>1. t # T
        BY <1>6, <3>1
      <4>2. others
        BY <1>1, <4>1 DEF Kept, others
      <4> QED
        BY <1>13, <3>1, <4>2
    <3>2. CASE r \notin R
      BY <1>10, <1>13, <3>2 DEF Kept
    <3> QED
      BY <3>1, <3>2
  <2> QED
    BY <1>1, <1>2, <1>5, <1>10, <1>11, <2>1 DEF Kept, Never
<1>28. Distinct'
  <2>1. \A r \in Alive : rows'[r].key = rows[r].key
    BY <1>10 DEF Alive
  <2> QED
    BY <1>1, <1>2, <1>5, <1>11, <1>12, <2>1 DEF Distinct
<1>29. UniqueKeys'
  <2> SUFFICES ASSUME NEW r \in RowIds, NEW s \in RowIds, r # s, rows[r].key = rows[s].key,
                      rows[r].inserted <= rows[s].inserted
               PROVE  rows[s].inserted = Infinity \/ rows'[r].deleted <= rows[s].inserted
    BY <1>10 DEF UniqueKeys
  <2>1. rows[s].inserted = Infinity \/ rows[r].deleted <= rows[s].inserted
    BY DEF UniqueKeys
  <2>2. CASE r \notin R
    BY <1>10, <2>1, <2>2
  <2>3. CASE r \in R
    <3>1. rows[r].deleted = Infinity /\ rows[s].inserted \in Nat /\ rows[s].inserted <= Infinity
      BY <1>6, <2>3, RowFields, Constants
    <3> QED
      BY <2>1, <3>1, Constants
  <2> QED
    BY <2>2, <2>3
<1>30. Groups'
  <2>1. rows # <<>> <=> rows' # <<>>
    <3>1. rows \in Seq(RowRecords) /\ rows' \in Seq(RowRecords)
      BY <1>10 DEF Types, TableTypes
    <3> QED
      BY <1>10, <3>1
  <2> QED
    BY <1>1, <1>10, <2>1 DEF Groups
<1>31. CheckpointIds'
  <2>1. commit'.pc = commit.pc /\ commit'.checkpoint_id = commit.checkpoint_id
    BY <1>1, <1>5
  <2> QED
    BY <1>1, <1>2, <1>17, <2>1 DEF CheckpointIds, WALSwitched, Earlier, Delta, TableLockExclusive, TableLockShared
<1>32. Split'
  <2>1. \A r : NewGroup(r)' = NewGroup(r)
    BY <1>1 DEF NewGroup
  <2>2. ~TableLockShared'
    BY <1>5 DEF TableLockShared
  <2> QED
    BY <1>1, <1>2, <1>10, <1>11, <1>12, <2>1, <2>2 DEF Split
<1>33. Written'
  <2>1. checkpoint.pc = "tables_written" => entry'.index = entry.index
    BY <1>17 DEF Delta
  <2> QED
    BY <1>1, <1>12, <2>1 DEF Written
<1>34. Indexed'
  <2>1. \A A \in SUBSET RowIds : EntriesOf(A) = {<<rows'[r].key, r>> : r \in A}
    <3> TAKE A \in SUBSET RowIds
    <3>1. \A r \in A : rows'[r].key = rows[r].key
      BY <1>10
    <3> QED
      BY <3>1, EntriesKept
  <2>2. InUse' \subseteq RowIds /\ Live' \subseteq RowIds /\ Live' \ Old \subseteq RowIds
    BY <1>10 DEF InUse, Live
  <2>3. /\ EntriesOf(InUse)' = EntriesOf(InUse') /\ EntriesOf(Live)' = EntriesOf(Live')
        /\ EntriesOf(Live \ Old)' = EntriesOf(Live' \ Old)
    BY <1>12, <2>1, <2>2 DEF EntriesOf, EntryOf
  <2>4. Delta => /\ EntriesOf({r \in Old : rows[r].deleted > checkpoint.id})' = EntriesOf(D)
                 /\ EntriesOf({r \in Old : rows[r].deleted > checkpoint.id /\ rows[r].deleted # Never})' =
                    EntriesOf(D2 \cup (R \cap Old))
    <3> SUFFICES ASSUME Delta
                 PROVE  /\ EntriesOf({r \in Old : rows[r].deleted > checkpoint.id})' = EntriesOf(D)
                        /\ EntriesOf({r \in Old : rows[r].deleted > checkpoint.id /\ rows[r].deleted # Never})' =
                           EntriesOf(D2 \cup (R \cap Old))
      OBVIOUS
    <3>1. checkpoint.id < id /\ checkpoint.id < Infinity /\ checkpoint.id \in Nat
      BY <1>9, DeltasInUse, CheckpointFields
    <3>2. \A r \in RowIds : rows'[r].deleted > checkpoint.id <=> rows[r].deleted > checkpoint.id
      BY <1>6, <1>9, <1>10, <3>1, Constants
    <3>3. \A r \in RowIds : (rows'[r].deleted > checkpoint.id /\ rows'[r].deleted # Never) <=>
                            (r \in R \/ (rows[r].deleted > checkpoint.id /\ rows[r].deleted # Never))
      BY <1>6, <1>9, <1>10, <3>1, Constants
    <3>4. Old \subseteq RowIds
      BY DEF Old
    <3>5. {r \in Old' : rows'[r].deleted > checkpoint'.id} = D
      BY <1>1, <1>12, <3>2, <3>4
    <3>6. {r \in Old' : rows'[r].deleted > checkpoint'.id /\ rows'[r].deleted # Never} = D2 \cup (R \cap Old)
      BY <1>1, <1>12, <3>3, <3>4
    <3>7. D \subseteq RowIds /\ D2 \cup (R \cap Old) \subseteq RowIds
      BY <3>4
    <3> HIDE DEF D, D2
    <3> QED
      BY <2>1, <3>5, <3>6, <3>7 DEF EntriesOf, EntryOf, Never
  <2> HIDE DEF D, D2
  <2> QED
    BY <1>10, <1>12, <1>15, <1>18, <1>19, <1>20, <2>3, <2>4 DEF Indexed
<1>35. NoLateConflict'
  BY <1>5 DEF NoLateConflict
<1>36. Regular'
  BY <1>1, FrameRegular
<1> QED
  BY <1>21, <1>22, <1>23, <1>24, <1>25, <1>26, <1>27, <1>28, <1>29, <1>30, <1>31, <1>32, <1>33, <1>34, <1>35, <1>36

\* What is deleted by the commit under way, once its undo buffer has been committed.
LEMMA CommittedDeletes ==
    ASSUME TableInv, UndoCommitted
    PROVE  /\ T # NoTxn /\ T \in Txns /\ T \in Running /\ status[T] = "active" /\ cleanup[T] = "none"
           /\ \A r \in DeletedBy(T) : r \in RowIds /\ rows[r].deleter = T /\ rows[r].deleted = current_start_timestamp
           /\ \A r \in RowIds : rows[r].deleter = T => r \in DeletedBy(T)
<1> USE DEF TableInv
<1>1. T # NoTxn /\ T \in Txns /\ T \in Running /\ status[T] = "active" /\ cleanup[T] = "none"
      /\ commit.pc = "undo" /\ commit.entries = Len(undo_buffer[T])
  BY CommitFields DEF UndoCommitted, OneCommit, NoCommit, T, Running, Ended
<1>2. undo_buffer[T] \in Seq(SUBSET RowId) /\ DOMAIN undo_buffer[T] = 1 .. Len(undo_buffer[T]) /\ Len(undo_buffer[T]) \in Nat
  BY <1>1, TxnFields
<1>3. ASSUME NEW r \in DeletedBy(T) PROVE r \in RowIds /\ rows[r].deleter = T /\ rows[r].deleted = current_start_timestamp
  <2>1. PICK i \in DOMAIN undo_buffer[T] : r \in undo_buffer[T][i]
    BY <1>2, DeletedRows
  <2>2. i <= commit.entries
    BY <1>1, <1>2
  <2> QED
    BY <1>1, <2>1, <2>2 DEF Deletes
<1>4. \A r \in RowIds : rows[r].deleter = T => r \in DeletedBy(T)
  BY <1>1 DEF Deletes
<1> QED
  BY <1>1, <1>3, <1>4

\* Committed rows have different keys: a row that the commit replaces is deleted by it.
LEMMA CommittedDistinct ==
    ASSUME TableInv, UndoCommitted, NEW r \in Live, NEW s \in Live, rows[r].key = rows[s].key
    PROVE  r = s
<1> USE DEF TableInv
<1>1. r \in Alive /\ s \in Alive /\ r \in Nat /\ s \in Nat
  BY RowFields DEF Live, Alive, RowId
<1>2. r \notin DeletedBy(T) /\ s \notin DeletedBy(T)
  <2>1. current_start_timestamp # Never
    BY CheckpointFields, Constants DEF Times
  <2> QED
    BY <2>1, CommittedDeletes DEF Live
<1> QED
  BY <1>1, <1>2 DEF Distinct

\* UndoBuffer::Commit ends: the rows get their commit id and the transaction is removed.
LEMMA FlushCommitInv ==
    ASSUME TableInv, FlushCommit
    PROVE  TableInv'
<1> USE DEF TableInv
<1> DEFINE id == current_start_timestamp
           new(r) == commit.appended /\ r > commit.row_start
<1>1. /\ UndoCommitted
      /\ rows' = [r \in RowIds |-> IF commit.appended /\ r \in LocalRows
                                   THEN [rows[r] EXCEPT !.inserted = id] ELSE rows[r]]
      /\ last_commit' = id /\ id + 1 < Infinity /\ current_start_timestamp' = id + 1
      /\ RemoveTransaction(T, id) /\ AutomaticCheckpoint
      /\ wal' = (wal \/ ~WALSwitched) /\ checkpoint_wal' = (checkpoint_wal \/ WALSwitched)
      /\ commit' = NoCommit
      /\ UNCHANGED <<active_checkpoint, undo_buffer, row_groups, require_new, last_seen_checkpoint,
                     checkpoint_row_group_count, entry, fatal, behaviours>>
  BY DEF FlushCommit, DrawTimestamp
<1>2. /\ T # NoTxn /\ T \in Txns /\ T \in Running /\ status[T] = "active" /\ cleanup[T] = "none"
      /\ \A r \in DeletedBy(T) : r \in RowIds /\ rows[r].deleter = T /\ rows[r].deleted = id
      /\ \A r \in RowIds : rows[r].deleter = T => r \in DeletedBy(T)
  BY <1>1, CommittedDeletes
<1>3. /\ id \in Nat /\ last_commit \in Nat /\ last_commit < id /\ id < Infinity /\ id # Never /\ id \in Ids
      /\ id # 0 /\ last_commit < Infinity
  BY CheckpointFields, Constants DEF Times, Ids
<1>4. /\ commit.pc = "undo" /\ commit'.pc = "none" /\ commit'.appended = FALSE /\ T' = NoTxn
      /\ commit'.txn = NoTxn
  BY <1>1 DEF UndoCommitted, NoCommit, T
<1>5. \A r \in RowIds : (commit.appended /\ r \in LocalRows) <=> new(r)
  <2> SUFFICES ASSUME commit.appended PROVE \A r \in RowIds : r \in LocalRows <=> r > commit.row_start
    OBVIOUS
  <2>1. /\ commit.chunks = Len(Chunks) /\ Len(rows) = commit.row_start + Len(Chunks)
        /\ Len(Chunks) \in Nat /\ commit.row_start \in Nat
    BY <1>2, CommitFields, TxnFields DEF OneCommit, Appended, Chunks
  <2>2. RowIds = 1 .. Len(rows)
    BY RowFields
  <2> QED
    BY <2>1, <2>2 DEF LocalRows
<1>6. \A r \in RowIds : /\ new(r) => rows[r].inserted = Infinity /\ rows[r].deleter = NoTxn /\ rows[r].deleted = Never
                        /\ ~new(r) => rows[r].inserted <= last_commit
  <2>1. ASSUME NEW r \in RowIds, new(r)
        PROVE  rows[r].inserted = Infinity /\ rows[r].deleter = NoTxn /\ rows[r].deleted = Never
    <3> DEFINE i == r - commit.row_start
    <3>1. /\ Len(rows) = commit.row_start + Len(Chunks)
          /\ Len(Chunks) \in Nat /\ commit.row_start \in Nat
      BY <1>2, <2>1, CommitFields, TxnFields DEF OneCommit, Appended, Chunks
    <3>2. i \in 1 .. Len(Chunks) /\ commit.row_start + i = r
      BY <2>1, <3>1, RowFields
    <3>3. \A j \in 1 .. Len(Chunks) : LET row == rows[commit.row_start + j] IN
              row.inserted = Infinity /\ row.deleter = NoTxn /\ row.deleted = Never
      BY <2>1 DEF OneCommit, Appended
    <3> HIDE DEF i
    <3> QED
      BY <3>2, <3>3
  <2>2. \A r \in RowIds : ~new(r) => rows[r].inserted <= last_commit
    BY DEF Times
  <2> QED
    BY <2>1, <2>2
<1> HIDE DEF new
<1>7. /\ rows' \in Seq(RowRecords) /\ Len(rows') = Len(rows) /\ RowIds' = RowIds
      /\ \A r \in RowIds : /\ rows'[r].key = rows[r].key /\ rows'[r].deleted = rows[r].deleted
                           /\ rows'[r].deleter = rows[r].deleter
                           /\ rows'[r].inserted = IF new(r) THEN id ELSE rows[r].inserted
  <2>1. RowIds = 1 .. Len(rows) /\ Len(rows) \in Nat /\ \A r \in RowIds : rows[r] \in RowRecords
    BY RowFields
  <2>2. \A r \in RowIds : rows'[r] = IF new(r) THEN [rows[r] EXCEPT !.inserted = id] ELSE rows[r]
    BY <1>1, <1>5
  <2>3. \A row \in RowRecords : /\ [row EXCEPT !.inserted = id] \in RowRecords
                                /\ [row EXCEPT !.inserted = id].key = row.key
                                /\ [row EXCEPT !.inserted = id].deleted = row.deleted
                                /\ [row EXCEPT !.inserted = id].deleter = row.deleter
                                /\ [row EXCEPT !.inserted = id].inserted = id
    BY <1>3 DEF RowRecords
  <2>4. \A r \in RowIds : /\ rows'[r] \in RowRecords
                          /\ rows'[r].key = rows[r].key /\ rows'[r].deleted = rows[r].deleted
                          /\ rows'[r].deleter = rows[r].deleter
                          /\ rows'[r].inserted = IF new(r) THEN id ELSE rows[r].inserted
    <3> TAKE r \in RowIds
    <3>1. CASE new(r)
      <4>1. rows'[r] = [rows[r] EXCEPT !.inserted = id] /\ rows[r] \in RowRecords
        BY <2>1, <2>2, <3>1
      <4> HIDE DEF id
      <4> QED
        BY <2>3, <3>1, <4>1
    <3>2. CASE ~new(r)
      BY <2>1, <2>2, <3>2
    <3> QED
      BY <3>1, <3>2
  <2>5. rows' = [r \in 1 .. Len(rows) |-> rows'[r]]
    BY <1>1, <2>1
  <2>6. rows' \in Seq(RowRecords) /\ Len(rows') = Len(rows) /\ DOMAIN rows' = 1 .. Len(rows)
    BY <2>1, <2>4, <2>5
  <2> QED
    BY <2>1, <2>4, <2>6 DEF RowIds
<1>8. \A r \in RowIds : rows'[r].inserted \in Nat /\ rows'[r].inserted <= id
                        /\ (~new(r) => rows'[r].inserted <= last_commit)
  BY <1>3, <1>6, <1>7, RowFields
<1>9. /\ Running' = Running \ {T} /\ status'[T] = "done" /\ status' \in [Txns -> Statuses]
      /\ start_time' \in [Txns -> Nat] /\ commit_id' \in [Txns -> Nat]
      /\ local_storage' \in [Txns -> Seq(Keys)] /\ local_storage'[T] = <<>>
      /\ active_transaction_state' \in [Txns -> {"unset", "none", "others"}]
      /\ cleanup' \in [Txns -> {"none", "stored", "scheduled"}]
      /\ \A u \in Txns \ {T} : /\ status'[u] = status[u] /\ start_time'[u] = start_time[u]
                               /\ commit_id'[u] = commit_id[u] /\ local_storage'[u] = local_storage[u]
                               /\ active_transaction_state'[u] = active_transaction_state[u]
                               /\ cleanup'[u] # "none" <=> cleanup[u] # "none"
      /\ IF id # 0 /\ undo_buffer[T] # <<>>
         THEN /\ cleanup'[T] # "none" /\ commit_id'[T] = id
              /\ active_transaction_state'[T] = active_transaction_state[T]
         ELSE cleanup'[T] = "none" /\ commit_id'[T] = 0 /\ active_transaction_state'[T] = "unset"
      /\ \A u \in Txns : cleanup'[u] = "scheduled" =>
            \/ cleanup[u] = "scheduled" /\ u # T
            \/ \A v \in Running \ {T} : commit_id'[u] < start_time[v]
  BY <1>1, <1>2, <1>3, RemoveTransactionEffect, Zenon
<1>10. /\ undo_buffer[T] # <<>> => /\ cleanup'[T] # "none" /\ commit_id'[T] = id
                                   /\ active_transaction_state'[T] = active_transaction_state[T]
       /\ undo_buffer[T] = <<>> => cleanup'[T] = "none" /\ commit_id'[T] = 0
  BY <1>3, <1>9
<1>11. /\ \A u : DeletedBy(u)' = DeletedBy(u)
       /\ \A u \in Txns : \A r \in DeletedBy(u) : r \in RowIds /\ rows[r].deleter = u
  <2>1. \A u \in Txns : \A r \in DeletedBy(u) : r \in RowIds /\ rows[r].deleter = u
    BY DeletedRows, TxnFields DEF Deletes
  <2> QED
    BY <1>1, <2>1 DEF DeletedBy
<1>12. /\ checkpoint' \in CheckpointStates /\ checkpoint'.id = checkpoint.id
       /\ checkpoint'.pc # "idle" => checkpoint'.left > 0
       /\ \/ checkpoint' = checkpoint
          \/ checkpoint.pc = "idle" /\ checkpoint'.pc = "decided"
  BY <1>1 DEF AutomaticCheckpoint, Types, CheckpointStates, CheckpointPCs
<1>13. WALSwitched' = WALSwitched /\ Delta' = Delta /\ TableLockExclusive' = TableLockExclusive
  BY <1>12 DEF WALSwitched, Delta, TableLockExclusive
<1>14. wal' \in BOOLEAN /\ checkpoint_wal' \in BOOLEAN
  BY <1>1
<1>15. commit' \in CommitStates
  BY <1>1, Constants DEF NoCommit, CommitStates, CommitPCs
<1>16. Types'
  <2>1. current_start_timestamp' \in Nat /\ last_commit' \in Nat
    BY <1>1, <1>3
  <2>2. TransactionTypes'
    BY <1>1, <1>9 DEF Types, TransactionTypes
  <2>3. TableTypes'
    BY <1>1, <1>7 DEF Types, TableTypes
  <2> QED
    BY <1>1, <1>12, <1>14, <1>15, <2>1, <2>2, <2>3 DEF Types
<1>17. Times'
  <2>1. \A u \in Running' : start_time'[u] < id + 1
    <3> TAKE u \in Running'
    <3>1. u \in Running /\ u \in Txns /\ start_time'[u] = start_time[u]
      BY <1>9 DEF Running
    <3>2. start_time[u] < id /\ start_time[u] \in Nat
      BY <3>1, TxnFields DEF Times
    <3> QED
      BY <1>3, <3>1, <3>2
  <2>2. \A u \in Txns : commit_id'[u] <= id
    <3> TAKE u \in Txns
    <3>1. commit_id'[u] = 0 \/ commit_id'[u] = id \/ commit_id'[u] = commit_id[u]
      BY <1>9
    <3>2. commit_id[u] <= last_commit /\ commit_id[u] \in Nat
      BY TxnFields DEF Times
    <3> QED
      BY <1>3, <3>1, <3>2
  <2>3. \A r \in RowIds : rows'[r].deleted <= id \/ rows'[r].deleted = Never
    <3> TAKE r \in RowIds
    <3>1. rows[r].deleted <= last_commit \/ rows[r].deleted = Never \/ rows[r].deleted = id
      BY DEF Times
    <3> QED
      BY <1>3, <1>7, <3>1, RowFields
  <2>4. \A r, s \in RowIds : r <= s => rows'[r].inserted <= rows'[s].inserted
    <3> SUFFICES ASSUME NEW r \in RowIds, NEW s \in RowIds, r <= s PROVE rows'[r].inserted <= rows'[s].inserted
      OBVIOUS
    <3>1. CASE new(s)
      BY <1>7, <1>8, <3>1
    <3>2. CASE ~new(s)
      <4>1. r \in Nat /\ s \in Nat /\ commit.row_start \in Nat
        BY RowFields, CommitFields DEF RowId
      <4>2. ~new(r)
        BY <3>2, <4>1 DEF new
      <4>3. rows[r].inserted <= rows[s].inserted
        BY DEF Times
      <4> QED
        BY <1>7, <3>2, <4>2, <4>3
    <3> QED
      BY <3>1, <3>2
  <2>5. id < id + 1
    BY <1>3
  <2>6. /\ last_commit' < current_start_timestamp' /\ current_start_timestamp' < Infinity
        /\ \A u \in Running' : start_time'[u] < current_start_timestamp'
        /\ \A u \in Txns : commit_id'[u] <= last_commit'
    BY <1>1, <2>1, <2>2, <2>5
  <2>7. /\ \A r \in RowIds' : rows'[r].inserted <= last_commit'
        /\ \A r \in RowIds' : rows'[r].deleted <= last_commit' \/ rows'[r].deleted = Never
        /\ \A r, s \in RowIds' : r <= s => rows'[r].inserted <= rows'[s].inserted
    BY <1>1, <1>7, <1>8, <2>3, <2>4, ZenonT(30)
  <2>8. Never' = Never
    BY DEF Never
  <2> QED
    BY <2>6, <2>7, <2>8, Zenon DEF Times
<1>18. OneCommit'
  BY <1>1, <1>4 DEF OneCommit, Appended, NoCommit
<1>19. Deletes'
  <2>1. \A t \in Txns : \A i \in DOMAIN undo_buffer[t] : \A r \in undo_buffer[t][i] :
           r \in RowIds /\ rows'[r].deleter = t /\ rows'[r].inserted <= id
    BY <1>7, <1>8 DEF Deletes
  <2>2. \A t \in Txns : \A i, j \in DOMAIN undo_buffer[t] :
          i # j => undo_buffer[t][i] \cap undo_buffer[t][j] = {}
    BY DEF Deletes
  <2>3. \A r \in RowIds : rows'[r].deleter = NoTxn => rows'[r].deleted = Never
    BY <1>7 DEF Deletes
  <2>4. \A t \in Txns, r \in RowIds : rows'[r].deleter = t =>
          IF t \in Running' THEN r \in DeletedBy(t) /\ rows'[r].deleted = Never
          ELSE status'[t] = "done" /\ rows'[r].deleted <= id
    <3> SUFFICES ASSUME NEW t \in Txns, NEW r \in RowIds, rows[r].deleter = t
                 PROVE  IF t \in Running' THEN r \in DeletedBy(t) /\ rows[r].deleted = Never
                        ELSE status'[t] = "done" /\ rows[r].deleted <= id
      BY <1>7
    <3>1. CASE t = T
      BY <1>2, <1>3, <1>9, <3>1
    <3>2. CASE t # T
      <4>1. IF t \in Running THEN r \in DeletedBy(t) /\ rows[r].deleted = Never
            ELSE status[t] = "done" /\ rows[r].deleted <= last_commit
        BY <3>2 DEF Deletes
      <4>2. (t \in Running' <=> t \in Running) /\ status'[t] = status[t]
        BY <1>9, <3>2
      <4> QED
        BY <1>3, <4>1, <4>2, RowFields
    <3> QED
      BY <3>1, <3>2
  <2>5. Never' = Never
    BY DEF Never
  <2>6. \A t \in Txns, r \in RowIds' : rows'[r].deleter = t =>
          IF t \in Running' THEN r \in DeletedBy(t)' /\ rows'[r].deleted = Never
          ELSE status'[t] = "done" /\ rows'[r].deleted <= last_commit'
    <3>1. RowIds' = RowIds /\ last_commit' = id
      BY <1>1, <1>7
    <3>2. \A t : DeletedBy(t)' = DeletedBy(t)
      BY <1>11
    <3> HIDE DEF id, TableInv
    <3> QED
      BY <2>4, <3>1, <3>2, Zenon
  <2>7. /\ \A t \in Txns : \A i \in DOMAIN undo_buffer'[t] : \A r \in undo_buffer'[t][i] :
              r \in RowIds' /\ rows'[r].deleter = t /\ rows'[r].inserted <= last_commit'
        /\ \A t \in Txns : \A i, j \in DOMAIN undo_buffer'[t] :
              i # j => undo_buffer'[t][i] \cap undo_buffer'[t][j] = {}
        /\ \A r \in RowIds' : rows'[r].deleter = NoTxn => rows'[r].deleted = Never
    <3>1. undo_buffer' = undo_buffer /\ RowIds' = RowIds /\ last_commit' = id
      BY <1>1, <1>7
    <3>2. \A t \in Txns : \A i \in DOMAIN undo_buffer'[t] : \A r \in undo_buffer'[t][i] :
              r \in RowIds' /\ rows'[r].deleter = t /\ rows'[r].inserted <= last_commit'
      BY <2>1, <3>1
    <3>3. \A t \in Txns : \A i, j \in DOMAIN undo_buffer'[t] :
              i # j => undo_buffer'[t][i] \cap undo_buffer'[t][j] = {}
      BY <2>2, <3>1
    <3> QED
      BY <2>3, <3>1, <3>2, <3>3
  <2>8. commit'.pc # "undo"
    BY <1>4
  <2> QED
    BY <2>5, <2>6, <2>7, <2>8 DEF Deletes
<1>20. Ended'
  <2>1. ASSUME NEW u \in Txns \ {T}
        PROVE  /\ status'[u] = "idle" => undo_buffer[u] = <<>> /\ local_storage'[u] = <<>>
               /\ status'[u] = "done" => /\ local_storage'[u] = <<>>
                                         /\ cleanup'[u] = "none" => undo_buffer[u] = <<>>
               /\ cleanup'[u] # "none" => /\ status'[u] = "done"
                                          /\ \A r \in DeletedBy(u) : rows'[r].deleted = commit_id'[u]
    <3>1. /\ status[u] = "idle" => undo_buffer[u] = <<>> /\ local_storage[u] = <<>>
          /\ status[u] = "done" => /\ local_storage[u] = <<>>
                                   /\ cleanup[u] = "none" => undo_buffer[u] = <<>>
          /\ cleanup[u] # "none" => /\ status[u] = "done"
                                    /\ \A r \in DeletedBy(u) : rows[r].deleted = commit_id[u]
      BY DEF Ended
    <3>2. /\ status'[u] = status[u] /\ commit_id'[u] = commit_id[u] /\ local_storage'[u] = local_storage[u]
          /\ cleanup'[u] # "none" <=> cleanup[u] # "none"
      BY <1>9
    <3>3. \A r \in DeletedBy(u) : rows'[r].deleted = rows[r].deleted
      BY <1>7, <1>11
    <3> QED
      BY <3>1, <3>2, <3>3
  <2>2. /\ status'[T] = "done" /\ local_storage'[T] = <<>>
        /\ cleanup'[T] = "none" => undo_buffer[T] = <<>>
        /\ cleanup'[T] # "none" => \A r \in DeletedBy(T) : rows'[r].deleted = commit_id'[T]
    BY <1>2, <1>7, <1>9, <1>10
  <2>3. \A u \in Txns :
               /\ status'[u] = "idle" => undo_buffer[u] = <<>> /\ local_storage'[u] = <<>>
               /\ status'[u] = "done" => /\ local_storage'[u] = <<>>
                                         /\ cleanup'[u] = "none" => undo_buffer[u] = <<>>
               /\ cleanup'[u] # "none" => /\ status'[u] = "done"
                                          /\ \A r \in DeletedBy(u) : rows'[r].deleted = commit_id'[u]
    <3> TAKE u \in Txns
    <3>1. CASE u = T
      BY <2>2, <3>1
    <3>2. CASE u # T
      BY <2>1, <3>2
    <3> QED
      BY <3>1, <3>2
  <2> QED
    BY <1>1, <1>11, <2>3 DEF Ended
<1>21. InUse' = InUse
  <2>1. \A r, t : t \in Txns /\ r \in DeletedBy(t) => active_transaction_state'[t] = active_transaction_state[t]
    <3> SUFFICES ASSUME NEW r, NEW t \in Txns, r \in DeletedBy(t)
                 PROVE  active_transaction_state'[t] = active_transaction_state[t]
      OBVIOUS
    <3>1. undo_buffer[t] # <<>>
      BY NoDeletedRows
    <3> QED
      BY <1>9, <1>10, <3>1
  <2> QED
    BY <1>7, <1>11, <2>1 DEF InUse, Never
<1>22. Kept'
  <2>1. \A t \in Running', r \in RowIds' :
          start_time'[t] <= rows'[r].deleted /\ rows'[r].deleted # Never /\ rows'[r].deleter # t => r \in InUse
    <3> TAKE t \in Running', r \in RowIds'
    <3>1. t \in Running /\ t # T /\ t \in Txns /\ start_time'[t] = start_time[t] /\ r \in RowIds
      BY <1>7, <1>9 DEF Running
    <3>2. start_time[t] <= rows[r].deleted /\ rows[r].deleted # Never /\ rows[r].deleter # t => r \in InUse
      BY <3>1 DEF Kept
    <3> QED
      BY <1>7, <3>1, <3>2
  <2>2. \A t \in Running', u \in Txns : cleanup'[u] = "scheduled" => commit_id'[u] < start_time'[t]
    <3> SUFFICES ASSUME NEW t \in Running', NEW u \in Txns, cleanup'[u] = "scheduled"
                 PROVE  commit_id'[u] < start_time'[t]
      OBVIOUS
    <3>1. t \in Running \ {T} /\ start_time'[t] = start_time[t]
      BY <1>9 DEF Running
    <3>2. CASE cleanup[u] = "scheduled" /\ u # T
      BY <1>9, <3>1, <3>2 DEF Kept
    <3> QED
      BY <1>9, <3>1, <3>2
  <2>3. Never' = Never
    BY DEF Never
  <2> QED
    BY <1>4, <1>21, <2>1, <2>2, <2>3 DEF Kept
<1>23. Live' = Live /\ Alive' = Live /\ Live \subseteq RowIds
  BY <1>4, <1>7 DEF Live, Alive, Never
<1>24. \A r, s \in Live : rows[r].key = rows[s].key => r = s
  BY <1>1, CommittedDistinct
<1>25. Distinct'
  <2>1. \A u \in Txns : \A i, j \in 1 .. Len(local_storage'[u]) :
           local_storage'[u][i] = local_storage'[u][j] => i = j
    <3>1. \A i \in 1 .. Len(local_storage'[T]) : FALSE
      BY <1>9
    <3>2. \A u \in Txns \ {T} : \A i, j \in 1 .. Len(local_storage[u]) : local_storage[u][i] = local_storage[u][j] => i = j
      BY DEF Distinct
    <3> TAKE u \in Txns
    <3>3. u # T => local_storage'[u] = local_storage[u]
      BY <1>9
    <3> QED
      BY <3>1, <3>2, <3>3
  <2>2. \A r, s \in Alive' : r < s => rows'[r].key # rows'[s].key
    <3>1. \A r \in Live : r \in Nat /\ rows'[r].key = rows[r].key
      BY <1>7, <1>23, RowFields DEF RowId
    <3> QED
      BY <1>23, <1>24, <3>1
  <2> QED
    BY <1>4, <2>1, <2>2 DEF Distinct
<1>26. UniqueKeys'
  <2> SUFFICES ASSUME NEW r \in RowIds, NEW s \in RowIds, r # s, rows[r].key = rows[s].key,
                      rows'[r].inserted <= rows'[s].inserted
               PROVE  rows[r].deleted <= rows'[s].inserted
    BY <1>7 DEF UniqueKeys
  <2>1. CASE ~new(s)
    <3>1. rows'[s].inserted = rows[s].inserted /\ rows[s].inserted <= last_commit /\ rows[s].inserted \in Nat
      BY <1>6, <1>7, <2>1, RowFields
    <3>2. ~new(r)
      BY <1>3, <1>7, <3>1
    <3>3. rows'[r].inserted = rows[r].inserted
      BY <1>7, <3>2
    <3>4. rows[s].inserted # Infinity
      BY <1>3, <3>1, Constants
    <3> QED
      BY <3>1, <3>3, <3>4 DEF UniqueKeys
  <2>2. CASE new(s)
    <3>1. rows'[s].inserted = id /\ s \in Live
      BY <1>6, <1>7, <2>2 DEF Live
    <3>2. r \notin Live
      BY <1>24, <3>1
    <3>3. rows[r].deleted <= last_commit \/ rows[r].deleted = id
      BY <3>2 DEF Times, Live
    <3> QED
      BY <1>3, <3>1, <3>3, RowFields
  <2> QED
    BY <2>1, <2>2
<1>27. Groups'
  <2>1. rows # <<>> <=> rows' # <<>>
    <3>1. rows \in Seq(RowRecords) /\ rows' \in Seq(RowRecords)
      BY <1>7 DEF Types, TableTypes
    <3> QED
      BY <1>7, <3>1
  <2> QED
    BY <1>1, <1>7, <2>1 DEF Groups
<1>28. /\ checkpoint.id \in Nat /\ entry.last_written \in Nat /\ last_seen_checkpoint \in Nat
       /\ checkpoint.pc \in CheckpointPCs
  BY CheckpointFields, EntryFields, Constants
<1>29. CheckpointIds'
  <2>1. \A x \in Nat : Earlier(x, last_commit + 1) => Earlier(x, id) /\ Earlier(x, id + 1)
    <3>1. \A a, b, x \in Nat : a < b /\ x < a + 1 => x < b /\ x < b + 1
      OBVIOUS
    <3> QED
      BY <1>3, <3>1 DEF Earlier
  <2>2. /\ Earlier(entry.last_written, id) /\ Earlier(last_seen_checkpoint, id)
        /\ Earlier(entry.last_written, id + 1) /\ Earlier(last_seen_checkpoint, id + 1)
    BY <1>28, <2>1 DEF CheckpointIds
  <2>3. checkpoint.pc \notin {"idle", "decided"} => checkpoint.id <= last_commit
    BY DEF CheckpointIds
  <2>4. checkpoint'.pc \notin {"idle", "decided"} => checkpoint' = checkpoint /\ checkpoint.id <= id /\ checkpoint.id < id
    BY <1>3, <1>12, <1>28, <2>3
  <2>5. active_checkpoint = IF checkpoint'.pc \in {"idle", "decided"} THEN Infinity ELSE checkpoint'.id
    BY <1>12 DEF CheckpointIds
  <2>6. ~WALSwitched => ~checkpoint_wal'
    BY <1>1, Zenon DEF CheckpointIds
  <2>7. WALSwitched' => checkpoint'.id < id
    BY <2>4 DEF WALSwitched
  <2>8. checkpoint'.pc \in {"wal_finished", "merged"} => checkpoint'.id < id
    BY <2>4
  <2>9. /\ Delta' => Earlier(entry.last_written, checkpoint'.id)
        /\ checkpoint'.pc = "merged" => entry.last_written = checkpoint'.id
        /\ Delta' \/ checkpoint'.pc = "merged" => Earlier(last_seen_checkpoint, checkpoint'.id + 1)
    BY <1>12, <1>13 DEF CheckpointIds
  <2>10. commit'.pc # "indexes" /\ ~TableLockShared'
    BY <1>4 DEF TableLockShared
  <2>11. \A x, b : Earlier(x, b)' = Earlier(x, b)
    BY DEF Earlier
  <2>12. checkpoint'.pc \notin {"idle", "decided"} => checkpoint'.id <= id
    BY <2>4
  <2> QED
    BY <1>1, <1>13, <2>2, <2>5, <2>6, <2>7, <2>8, <2>9, <2>10, <2>12, Zenon DEF CheckpointIds, Earlier
<1>30. Delta => Old' = Old
  <2> SUFFICES ASSUME Delta PROVE Old' = Old
    OBVIOUS
  <2>1. checkpoint.id \in Nat /\ checkpoint.id <= last_commit /\ checkpoint.id < Infinity /\ checkpoint'.id = checkpoint.id
    BY <1>12, <1>28, DeltasInUse
  <2>2. \A r \in RowIds : rows'[r].inserted <= checkpoint.id <=> rows[r].inserted <= checkpoint.id
    <3> TAKE r \in RowIds
    <3>1. CASE new(r)
      BY <1>3, <1>6, <1>7, <2>1, <3>1, Constants
    <3>2. CASE ~new(r)
      BY <1>7, <3>2
    <3> QED
      BY <3>1, <3>2
  <2> QED
    BY <1>7, <2>1, <2>2 DEF Old
<1>31. Split'
  <2> SUFFICES ASSUME Delta PROVE Split'
    BY <1>13 DEF Split
  <2>1. checkpoint' = checkpoint /\ Old' = Old /\ Delta'
    BY <1>12, <1>13, <1>30 DEF Delta
  <2>2. \A r : NewGroup(r)' = NewGroup(r)
    BY <1>1 DEF NewGroup
  <2>3. ~TableLockShared'
    BY <1>4 DEF TableLockShared
  <2>4. \A t \in Running' : \A i \in DOMAIN undo_buffer[t] : undo_buffer[t][i] \subseteq Old \/ undo_buffer[t][i] \cap Old = {}
    BY <1>9 DEF Split
  <2>5. /\ last_seen_checkpoint # checkpoint.id => RowIds \subseteq Old
        /\ last_seen_checkpoint = checkpoint.id =>
              checkpoint_row_group_count <= Len(row_groups) /\ \A r \in RowIds : r \in Old <=> ~NewGroup(r)
    BY DEF Split
  <2> QED
    BY <1>1, <1>7, <2>1, <2>2, <2>3, <2>4, <2>5 DEF Split
<1>32. Written'
  <2>1. checkpoint'.pc \in {"row_groups", "tables_written"} => checkpoint' = checkpoint /\ Old' = Old
    BY <1>12, <1>30 DEF Delta
  <2> QED
    BY <1>1, <2>1 DEF Written
<1>33. Indexed'
  <2>1. \A A \in SUBSET RowIds : EntriesOf(A) = {<<rows'[r].key, r>> : r \in A}
    <3> TAKE A \in SUBSET RowIds
    <3>1. \A r \in A : rows'[r].key = rows[r].key
      BY <1>7
    <3> QED
      BY <3>1, EntriesKept
  <2>2. InUse \subseteq RowIds /\ Live \ Old \subseteq RowIds
    BY <1>23 DEF InUse
  <2>3. EntriesOf(InUse)' = EntriesOf(InUse) /\ EntriesOf(Live)' = EntriesOf(Live)
    BY <1>21, <1>23, <2>1, <2>2 DEF EntriesOf, EntryOf
  <2>4. Pending = {} /\ Pending' = {}
    BY <1>4 DEF Pending
  <2>5. Entries(entry'.deleted_rows_in_use) = EntriesOf(InUse)'
    BY <1>1, <2>3 DEF Indexed
  <2>6. CASE ~Delta
    BY <1>1, <1>13, <2>3, <2>4, <2>5, <2>6 DEF Indexed
  <2>7. CASE Delta
    <3> DEFINE D == {r \in Old : rows[r].deleted > checkpoint.id}
               D2 == {r \in Old : rows[r].deleted > checkpoint.id /\ rows[r].deleted # Never}
    <3>1. checkpoint'.id = checkpoint.id /\ Old' = Old /\ Old \subseteq RowIds
      BY <1>12, <1>30, <2>7 DEF Old
    <3>2. {r \in Old' : rows'[r].deleted > checkpoint'.id} = D
      BY <1>7, <3>1
    <3>3. {r \in Old' : rows'[r].deleted > checkpoint'.id /\ rows'[r].deleted # Never} = D2
      BY <1>7, <3>1
    <3>4. D \subseteq RowIds /\ D2 \subseteq RowIds
      BY <3>1
    <3>5. /\ entry.index = EntriesOf(D) /\ Entries(entry.removed) = EntriesOf(D2)
          /\ Entries(entry.added) = EntriesOf(Live \ Old)
          /\ RowIds \subseteq Old \/ Exists(entry.added)
      BY <2>4, <2>7 DEF Indexed
    <3> HIDE DEF D, D2
    <3>6. /\ EntriesOf({r \in Old : rows[r].deleted > checkpoint.id})' = EntriesOf(D)
          /\ EntriesOf({r \in Old : rows[r].deleted > checkpoint.id /\ rows[r].deleted # Never})' = EntriesOf(D2)
      BY <2>1, <3>2, <3>3, <3>4 DEF EntriesOf, EntryOf, Never
    <3>7. EntriesOf(Live \ Old)' = EntriesOf(Live \ Old)
      BY <1>23, <2>1, <2>2, <3>1 DEF EntriesOf, EntryOf
    <3> QED
      BY <1>1, <1>7, <1>13, <2>4, <2>5, <2>7, <3>1, <3>5, <3>6, <3>7 DEF Indexed
  <2> QED
    BY <2>6, <2>7
<1>34. NoLateConflict' /\ Regular'
  BY <1>1, <1>4, FrameRegular DEF NoLateConflict
<1> QED
  BY <1>1, <1>16, <1>17, <1>18, <1>19, <1>20, <1>22, <1>25, <1>26, <1>27, <1>29, <1>31, <1>32, <1>33, <1>34

-----------------------------------------------------------------------------
(* The rollback of a commit *)

\* The rows that are left when the append of the commit is taken back.
Base == IF commit.appended THEN commit.row_start ELSE Len(rows)

\* An index whose deletes of the commit have been taken back.
Reverted(e) ==
    /\ e \in IndexEntries /\ e.last_written = entry.last_written
    /\ Entries(e.deleted_rows_in_use) = EntriesOf(InUse \ DeletedBy(T))
    /\ ~Delta => /\ e.index = EntriesOf(Live \cup DeletedBy(T))
                 /\ e.added = <<>> /\ e.removed = <<>>
    /\ Delta => /\ e.index = entry.index
                /\ Entries(e.removed) =
                      EntriesOf({r \in Old : rows[r].deleted > checkpoint.id /\ rows[r].deleted # Never} \ DeletedBy(T))
                /\ Entries(e.added) = EntriesOf((Live \cup DeletedBy(T)) \ Old)
                /\ RowIds \subseteq Old \/ Exists(e.added)

RollbackPCs == {"failed", "written", "undo"}

\* What is known of the commit whenever its rollback can start.
LEMMA RolledBackCommit ==
    ASSUME TableInv, commit.pc \in RollbackPCs
    PROVE  /\ T # NoTxn /\ T \in Txns /\ T \in Running /\ status[T] = "active" /\ Pending = {}
           /\ Base \in Nat /\ Base <= Len(rows) /\ Len(rows) \in Nat /\ (commit.appended => Base = commit.row_start)
           /\ \A r \in DeletedBy(T) : r \in RowIds /\ r <= Base /\ rows[r].deleter = T
           /\ \A r \in RowIds : rows[r].deleter = T =>
                 r \in DeletedBy(T) /\ (rows[r].deleted = Never \/ rows[r].deleted = current_start_timestamp)
           /\ \A r \in RowIds : r <= Base => rows[r].inserted <= last_commit
           /\ \A r \in RowIds : r > Base => /\ rows[r].inserted = Infinity /\ rows[r].deleter = NoTxn
                                            /\ rows[r].deleted = Never
           /\ commit.appended => LocalRows = {r \in RowIds : r > Base}
           /\ Delta => \A r \in Old : r <= Base
<1> USE DEF TableInv
<1>1. T # NoTxn /\ T \in Txns /\ T \in Running /\ status[T] = "active" /\ Pending = {}
  BY CommitFields DEF RollbackPCs, OneCommit, NoCommit, T, Running, Pending
<1>2. /\ Len(rows) \in Nat /\ RowIds = 1 .. Len(rows) /\ commit.row_start \in Nat /\ Len(Chunks) \in Nat
      /\ commit.chunks \in Nat
  BY <1>1, RowFields, CommitFields, TxnFields DEF Chunks
<1>3. commit.appended => commit.chunks = Len(Chunks) /\ Len(rows) = commit.row_start + Len(Chunks)
  BY DEF OneCommit, Appended
<1>4. Base \in Nat /\ Base <= Len(rows) /\ (commit.appended => Base = commit.row_start)
  BY <1>2, <1>3 DEF Base
<1>5. commit.appended => LocalRows = {r \in RowIds : r > Base}
  BY SMTT(30), <1>2, <1>3, <1>4 DEF LocalRows
<1>6. ASSUME NEW r \in RowIds, r > Base
      PROVE  commit.appended /\ rows[r].inserted = Infinity /\ rows[r].deleter = NoTxn /\ rows[r].deleted = Never
  <2>1. commit.appended
    BY <1>2, <1>6 DEF Base
  <2> DEFINE i == r - commit.row_start
  <2>2. i \in 1 .. Len(Chunks) /\ commit.row_start + i = r
    BY <1>2, <1>3, <1>4, <1>6, <2>1
  <2>3. \A j \in 1 .. Len(Chunks) : LET row == rows[commit.row_start + j] IN
            row.inserted = Infinity /\ row.deleter = NoTxn /\ row.deleted = Never
    BY <2>1 DEF OneCommit, Appended
  <2> HIDE DEF i
  <2> QED
    BY <2>1, <2>2, <2>3
<1>7. \A r \in RowIds : r <= Base => rows[r].inserted <= last_commit
  <2> SUFFICES ASSUME NEW r \in RowIds, r <= Base PROVE rows[r].inserted <= last_commit
    OBVIOUS
  <2>1. ~(commit.appended /\ r > commit.row_start)
    BY <1>2, <1>4
  <2> QED
    BY <2>1 DEF Times
<1>8. last_commit \in Nat /\ last_commit < Infinity /\ current_start_timestamp \in Nat
  BY CheckpointFields, Constants DEF Times
<1>9. \A r \in DeletedBy(T) : r \in RowIds /\ r <= Base /\ rows[r].deleter = T
  <2> TAKE r \in DeletedBy(T)
  <2>1. r \in RowIds /\ rows[r].deleter = T /\ rows[r].inserted <= last_commit
    BY <1>1, DeletedRows, TxnFields DEF Deletes
  <2>2. rows[r].inserted # Infinity
    BY <1>8, <2>1, Constants
  <2>3. ~(r > Base)
    BY <1>6, <2>1, <2>2
  <2> QED
    BY <1>2, <1>4, <2>1, <2>3
<1>10. \A r \in RowIds : rows[r].deleter = T =>
          r \in DeletedBy(T) /\ (rows[r].deleted = Never \/ rows[r].deleted = current_start_timestamp)
  <2> SUFFICES ASSUME NEW r \in RowIds, rows[r].deleter = T
               PROVE  r \in DeletedBy(T) /\ (rows[r].deleted = Never \/ rows[r].deleted = current_start_timestamp)
    OBVIOUS
  <2>1. r \in DeletedBy(T) /\ (commit.pc # "undo" => rows[r].deleted = Never)
    BY <1>1 DEF Deletes
  <2>2. PICK i \in DOMAIN undo_buffer[T] : r \in undo_buffer[T][i]
    BY <1>1, <2>1, DeletedRows, TxnFields
  <2> QED
    BY <1>1, <2>1, <2>2 DEF Deletes
<1>11. Delta => \A r \in Old : r <= Base
  <2> SUFFICES ASSUME Delta, NEW r \in Old PROVE r <= Base
    OBVIOUS
  <2>1. r \in RowIds /\ rows[r].inserted <= checkpoint.id /\ checkpoint.id < Infinity /\ checkpoint.id \in Nat
    BY DeltasInUse, CheckpointFields DEF Old
  <2>2. rows[r].inserted # Infinity
    BY <2>1, Constants
  <2> QED
    BY <1>2, <1>4, <1>6, <2>1, <2>2
<1> QED
  BY <1>1, <1>2, <1>4, <1>5, <1>6, <1>7, <1>9, <1>10, <1>11

\* The rows and the row groups after the rollback.
LEMMA RolledBackRows ==
    ASSUME TableInv, commit.pc \in RollbackPCs,
           rows' = IF commit.appended THEN SubSeq(Undeleted(T), 1, commit.row_start) ELSE Undeleted(T)
    PROVE  /\ rows' \in Seq(RowRecords) /\ Len(rows') = Base /\ RowIds' = 1 .. Base /\ RowIds' \subseteq RowIds
           /\ \A r \in RowIds' : /\ rows'[r].key = rows[r].key /\ rows'[r].inserted = rows[r].inserted
                                 /\ rows'[r].deleter = (IF rows[r].deleter = T THEN NoTxn ELSE rows[r].deleter)
                                 /\ rows'[r].deleted = (IF rows[r].deleter = T THEN Never ELSE rows[r].deleted)
<1> USE DEF TableInv
<1> DEFINE U == Undeleted(T)
<1>1. /\ Base \in Nat /\ Base <= Len(rows) /\ Len(rows) \in Nat /\ (commit.appended => Base = commit.row_start)
      /\ (~commit.appended => Base = Len(rows)) /\ RowIds = 1 .. Len(rows)
  BY RolledBackCommit, RowFields DEF Base
<1>2. /\ U \in Seq(RowRecords) /\ Len(U) = Len(rows)
      /\ \A r \in RowIds : /\ U[r].key = rows[r].key /\ U[r].inserted = rows[r].inserted
                           /\ U[r].deleter = (IF rows[r].deleter = T THEN NoTxn ELSE rows[r].deleter)
                           /\ U[r].deleted = (IF rows[r].deleter = T THEN Never ELSE rows[r].deleted)
  BY UndeletedRows
<1> HIDE DEF U
<1>3. rows' \in Seq(RowRecords) /\ Len(rows') = Base /\ \A r \in 1 .. Base : rows'[r] = U[r]
  <2>1. CASE commit.appended
    <3>1. rows' = SubSeq(U, 1, Base)
      BY <1>1, <2>1 DEF U
    <3>2. \A r \in 1 .. Base : r \in 1 .. Len(U)
      BY <1>1, <1>2
    <3> QED
      BY <1>1, <1>2, <3>1, <3>2
  <2>2. CASE ~commit.appended
    BY <1>1, <1>2, <2>2 DEF U
  <2> QED
    BY <2>1, <2>2
<1>4. RowIds' = 1 .. Base
  BY <1>3 DEF RowIds
<1>5. RowIds' \subseteq RowIds
  BY <1>1, <1>4
<1> QED
  BY <1>2, <1>3, <1>4, <1>5

\* The row groups that are left have rows that are left, and no other row group has.
LEMMA RolledBackGroups ==
    ASSUME TableInv, commit.pc \in RollbackPCs, rows' \in Seq(RowRecords), Len(rows') = Base,
           NEW n \in 0 .. Len(row_groups), row_groups' = SubSeq(row_groups, 1, n),
           \A g \in DOMAIN row_groups : g <= n <=> (commit.appended => row_groups[g] <= commit.row_start),
           UNCHANGED <<last_seen_checkpoint, checkpoint_row_group_count, checkpoint>>
    PROVE  /\ row_groups' \in Seq(Nat) /\ Groups'
           /\ Delta /\ last_seen_checkpoint = checkpoint.id =>
                 /\ checkpoint_row_group_count <= Len(row_groups')
                 /\ \A r \in 1 .. Base : NewGroup(r)' <=> NewGroup(r)
<1> USE DEF TableInv
<1>1. /\ Len(row_groups) \in Nat /\ row_groups \in Seq(Nat) /\ DOMAIN row_groups = 1 .. Len(row_groups) /\ n \in Nat
      /\ n <= Len(row_groups) /\ \A g \in 1 .. Len(row_groups) : row_groups[g] \in Nat
  BY RowFields DEF Types, TableTypes
<1>2. /\ Base \in Nat /\ Base <= Len(rows) /\ Len(rows) \in Nat
      /\ \A g \in 1 .. Len(row_groups) : g <= n <=> row_groups[g] <= Base
  <2>1. /\ Base \in Nat /\ Base <= Len(rows) /\ Len(rows) \in Nat /\ (commit.appended => Base = commit.row_start)
    BY RolledBackCommit
  <2>2. \A g \in 1 .. Len(row_groups) : row_groups[g] <= Len(rows)
    BY <2>1 DEF Groups
  <2>3. CASE commit.appended
    BY <1>1, <2>1, <2>3
  <2>4. CASE ~commit.appended
    BY <1>1, <2>1, <2>2, <2>4 DEF Base
  <2> QED
    BY <2>1, <2>3, <2>4
<1>3. row_groups' \in Seq(Nat) /\ Len(row_groups') = n /\ \A g \in 1 .. n : row_groups'[g] = row_groups[g]
  BY <1>1
<1>4. Groups'
  <2>1. \A g \in 1 .. n : g \in 1 .. Len(row_groups) /\ row_groups'[g] \in 1 .. Base
    <3> TAKE g \in 1 .. n
    <3>1. g \in 1 .. Len(row_groups) /\ g <= n
      BY <1>1
    <3>2. row_groups[g] \in 1 .. Len(rows) /\ row_groups[g] <= Base
      BY <1>2, <3>1 DEF Groups
    <3> QED
      BY <1>2, <1>3, <3>1, <3>2
  <2>2. \A g, h \in 1 .. n : g < h => row_groups'[g] < row_groups'[h]
    BY <1>3, <2>1 DEF Groups
  <2>3. rows' # <<>> => row_groups' # <<>> /\ row_groups'[1] = 1
    <3> SUFFICES ASSUME rows' # <<>> PROVE row_groups' # <<>> /\ row_groups'[1] = 1
      OBVIOUS
    <3>1. Base >= 1
      BY <1>2
    <3>2. rows # <<>>
      <4>1. Len(rows) >= 1
        BY <1>2, <3>1
      <4> QED
        BY <4>1
    <3>3. row_groups # <<>> /\ row_groups[1] = 1
      BY <3>2 DEF Groups
    <3>4. 1 \in 1 .. Len(row_groups)
      BY <1>1, <3>3
    <3>5. 1 <= n
      BY <1>2, <3>1, <3>3, <3>4
    <3> QED
      BY <1>3, <3>3, <3>5
  <2> QED
    BY <1>3, <2>1, <2>2, <2>3 DEF Groups
<1>5. ASSUME Delta, last_seen_checkpoint = checkpoint.id
      PROVE  /\ checkpoint_row_group_count <= Len(row_groups')
             /\ \A r \in 1 .. Base : NewGroup(r)' <=> NewGroup(r)
  <2> DEFINE c == checkpoint_row_group_count
  <2>1. c \in Nat /\ c <= Len(row_groups) /\ \A r \in RowIds : r \in Old <=> ~NewGroup(r)
    BY <1>5, CheckpointFields DEF Split
  <2>2. c <= n
    <3>1. CASE c = 0
      BY <1>1, <3>1
    <3>2. CASE c # 0
      <4>1. c \in 1 .. Len(row_groups) /\ row_groups[c] \in RowIds
        <5>1. c \in 1 .. Len(row_groups)
          BY <1>1, <2>1, <3>2
        <5> QED
          BY <5>1, RowFields DEF Groups
      <4>2. ~NewGroup(row_groups[c])
        <5> SUFFICES ASSUME c < Len(row_groups), row_groups[c] >= row_groups[c + 1] PROVE FALSE
          BY DEF NewGroup
        <5>1. c + 1 \in 1 .. Len(row_groups) /\ c < c + 1
          BY <1>1, <2>1
        <5>2. row_groups[c] < row_groups[c + 1] /\ row_groups[c] \in Nat /\ row_groups[c + 1] \in Nat
          BY <1>1, <4>1, <5>1 DEF Groups
        <5> QED
          BY <5>2
      <4>3. row_groups[c] <= Base
        BY <1>5, <2>1, <4>1, <4>2, RolledBackCommit
      <4> QED
        BY <1>2, <4>1, <4>3
    <3> QED
      BY <3>1, <3>2
  <2>3. ASSUME NEW r \in 1 .. Base PROVE NewGroup(r)' <=> NewGroup(r)
    <3>1. NewGroup(r)' <=> c < n /\ r >= row_groups'[c + 1]
      BY <1>3 DEF NewGroup
    <3>2. c < n => row_groups'[c + 1] = row_groups[c + 1] /\ c < Len(row_groups)
      BY <1>1, <1>3, <2>1
    <3>3. NewGroup(r) => c < n
      <4> SUFFICES ASSUME NewGroup(r) PROVE c < n
        OBVIOUS
      <4>1. c < Len(row_groups) /\ r >= row_groups[c + 1]
        BY DEF NewGroup
      <4>2. c + 1 \in 1 .. Len(row_groups)
        BY <1>1, <2>1, <4>1
      <4>3. row_groups[c + 1] <= Base
        BY <1>1, <1>2, <4>1, <4>2
      <4>4. c + 1 <= n
        BY <1>2, <4>2, <4>3
      <4> QED
        BY <1>1, <2>1, <4>4
    <3> QED
      BY <3>1, <3>2, <3>3 DEF NewGroup
  <2> QED
    BY <1>3, <2>2, <2>3
<1> QED
  BY <1>3, <1>4, <1>5

\* The append of the commit leaves the index that it is in.
LEMMA RolledBackEntry ==
    ASSUME TableInv, commit.pc \in RollbackPCs, NEW e, Reverted(e), RollbackCommit(e, FALSE)
    PROVE  LET live == {r \in Live \cup DeletedBy(T) : r <= Base} IN
           /\ fatal' = FALSE
           /\ entry' \in IndexEntries /\ entry'.last_written = entry.last_written
           /\ Entries(entry'.deleted_rows_in_use) = EntriesOf(InUse \ DeletedBy(T))
           /\ ~Delta => entry'.index = EntriesOf(live) /\ entry'.added = <<>> /\ entry'.removed = <<>>
           /\ Delta => /\ entry'.index = entry.index /\ Entries(entry'.removed) = Entries(e.removed)
                       /\ Entries(entry'.added) = EntriesOf(live \ Old)
                       /\ 1 .. Base \subseteq Old \/ Exists(entry'.added)
<1> USE DEF TableInv
<1> DEFINE live == {r \in Live \cup DeletedBy(T) : r <= Base}
           all == Live \cup DeletedBy(T)
           E == EntriesOf(LocalRows)
           undone == IF commit.appended THEN RemoveAppended(e, E) ELSE [entry |-> e, error |-> FALSE]
<1>1. entry' = undone.entry /\ fatal' = (FALSE \/ undone.error)
  BY DEF RollbackCommit
<1>2. /\ e \in IndexEntries /\ e.last_written = entry.last_written
      /\ Entries(e.deleted_rows_in_use) = EntriesOf(InUse \ DeletedBy(T))
      /\ ~Delta => e.index = EntriesOf(all) /\ e.added = <<>> /\ e.removed = <<>>
      /\ Delta => /\ e.index = entry.index /\ Entries(e.added) = EntriesOf(all \ Old)
                  /\ RowIds \subseteq Old \/ Exists(e.added)
  BY DEF Reverted
<1>3. /\ Base \in Nat /\ Base <= Len(rows) /\ Len(rows) \in Nat /\ RowIds = 1 .. Len(rows)
      /\ \A r \in DeletedBy(T) : r \in RowIds /\ r <= Base
      /\ \A r \in RowIds : r > Base => rows[r].inserted = Infinity /\ rows[r].deleted = Never
      /\ commit.appended => LocalRows = {r \in RowIds : r > Base}
      /\ Delta => \A r \in Old : r <= Base
  BY RolledBackCommit, RowFields
<1>4. all \subseteq RowIds /\ \A r \in all : r \in Nat
  BY <1>3 DEF Live
<1>5. 1 .. Base \subseteq RowIds
  BY <1>3
<1>6. CASE ~commit.appended
  <2>1. live = all
    <3>1. Base = Len(rows)
      BY <1>6 DEF Base
    <3> QED
      BY <1>3, <1>4, <3>1
  <2>2. entry' = e /\ fatal' = FALSE
    BY <1>1, <1>6
  <2> HIDE DEF live, all
  <2> QED
    BY <1>2, <1>5, <2>1, <2>2 DEF live
<1>7. CASE commit.appended
  <2>1. LocalRows \subseteq Live /\ LocalRows = {r \in RowIds : r > Base} /\ (Delta => LocalRows \cap Old = {})
    BY <1>3, <1>7 DEF Live
  <2>2. live = all \ LocalRows /\ LocalRows \subseteq all
    BY <1>3, <1>4, <2>1
  <2>3. EntriesOf(live) = EntriesOf(all) \ E /\ E \subseteq EntriesOf(all)
    <3> HIDE DEF live, all
    <3> QED
      BY <2>2, EntriesAlgebra
  <2>4. Delta => EntriesOf(live \ Old) = EntriesOf(all \ Old) \ E /\ E \subseteq EntriesOf(all \ Old)
    <3> SUFFICES ASSUME Delta PROVE EntriesOf(live \ Old) = EntriesOf(all \ Old) \ E /\ E \subseteq EntriesOf(all \ Old)
      OBVIOUS
    <3> DEFINE B == all \ Old
               L == LocalRows
    <3>1. live \ Old = B \ L /\ L \subseteq B
      BY <2>1, <2>2
    <3> HIDE DEF B, L
    <3>2. EntriesOf(B \ L) = EntriesOf(B) \ EntriesOf(L)
      BY EntriesAlgebra
    <3>3. EntriesOf(L) \subseteq EntriesOf(B)
      BY <3>1, EntriesAlgebra
    <3>4. E = EntriesOf(L)
      BY DEF L
    <3> QED
      BY <3>1, <3>2, <3>3, <3>4 DEF B
  <2>5. Entries(e.added) \in Index /\ e.index \in Index /\ e.added \in Ptrs
    BY <1>2, Pointers DEF IndexEntries
  <2>6. CASE Exists(e.added)
    <3> DEFINE A == Entries(e.added) \ E
    <3>1. <<A>> \in Ptrs
      BY <2>5, Pointers DEF Index
    <3>2. Delta
      BY <1>2, <2>6, Pointers
    <3>3. E \subseteq Entries(e.added)
      BY <1>2, <2>4, <3>2
    <3>4. entry' = [e EXCEPT !.added = <<A>>] /\ fatal' = FALSE
      <4>1. RemoveAppended(e, E).entry = [e EXCEPT !.added = <<A>>] /\ RemoveAppended(e, E).error = FALSE
        BY <1>2, <2>6, <3>3 DEF RemoveAppended, IndexEntries, DeleteFails
      <4> QED
        BY <1>1, <1>7, <4>1
    <3>5. A = EntriesOf(live \ Old)
      BY <1>2, <2>4, <3>2
    <3> HIDE DEF A, E, live, all
    <3>6. /\ entry' \in IndexEntries /\ entry'.last_written = e.last_written /\ entry'.index = e.index
          /\ entry'.deleted_rows_in_use = e.deleted_rows_in_use /\ entry'.removed = e.removed
          /\ entry'.added = <<A>>
      BY <1>2, <3>1, <3>4 DEF IndexEntries
    <3>7. Entries(entry'.added) = A /\ Exists(entry'.added)
      BY <3>6, Pointers
    <3> QED
      BY <1>2, <3>2, <3>4, <3>5, <3>6, <3>7 DEF live
  <2>7. CASE ~Exists(e.added)
    <3> DEFINE A == e.index \ E
    <3>1. A \in Index
      BY <2>5 DEF Index
    <3>2. Delta => E = {}
      <4> SUFFICES ASSUME Delta PROVE E = {}
        OBVIOUS
      <4>1. LocalRows = {}
        BY <1>2, <2>1, <2>7
      <4> QED
        BY <4>1 DEF EntriesOf
    <3>3. E \subseteq e.index
      BY <1>2, <2>3, <3>2
    <3>4. entry' = [e EXCEPT !.index = A] /\ fatal' = FALSE
      <4>1. RemoveAppended(e, E).entry = [e EXCEPT !.index = A] /\ RemoveAppended(e, E).error = FALSE
        BY <1>2, <2>7, <3>3 DEF RemoveAppended, IndexEntries, DeleteFails
      <4> QED
        BY <1>1, <1>7, <4>1
    <3>5. (~Delta => A = EntriesOf(live)) /\ (Delta => A = e.index)
      BY <1>2, <2>3, <3>2
    <3>6. Delta => Entries(e.added) = EntriesOf(live \ Old)
      BY <1>2, <2>4, <3>2
    <3> HIDE DEF A, E, live, all
    <3>7. /\ entry' \in IndexEntries /\ entry'.last_written = e.last_written /\ entry'.added = e.added
          /\ entry'.deleted_rows_in_use = e.deleted_rows_in_use /\ entry'.removed = e.removed
          /\ entry'.index = A
      BY <1>2, <3>1, <3>4 DEF IndexEntries
    <3>8. Delta => 1 .. Base \subseteq Old
      BY <1>2, <1>5, <2>7
    <3> QED
      BY <1>2, <3>4, <3>5, <3>6, <3>7, <3>8 DEF live
  <2> QED
    BY <2>6, <2>7
<1> QED
  BY <1>6, <1>7

\* A commit that fails leaves the table and its index as they would be without it.
LEMMA RollbackCommitInv ==
    ASSUME TableInv, commit.pc \in RollbackPCs, NEW e, Reverted(e), RollbackCommit(e, FALSE)
    PROVE  TableInv'
<1> USE DEF TableInv
<1> DEFINE live == {r \in Live \cup DeletedBy(T) : r <= Base}
<1>1. /\ rows' = IF commit.appended THEN SubSeq(Undeleted(T), 1, commit.row_start) ELSE Undeleted(T)
      /\ \E n \in 0 .. Len(row_groups) :
            /\ row_groups' = SubSeq(row_groups, 1, n)
            /\ \A g \in DOMAIN row_groups :
                  g <= n <=> (commit.appended => row_groups[g] <= commit.row_start)
      /\ current_start_timestamp + 1 < Infinity /\ current_start_timestamp' = current_start_timestamp + 1
      /\ RemoveTransaction(T, 0)
      /\ undo_buffer' = [undo_buffer EXCEPT ![T] = <<>>]
      /\ commit' = NoCommit
      /\ UNCHANGED <<last_commit, active_checkpoint, require_new, last_seen_checkpoint,
                     checkpoint_row_group_count, wal, checkpoint_wal, checkpoint, behaviours>>
  BY DEF RollbackCommit, DrawTimestamp
<1>2. /\ T # NoTxn /\ T \in Txns /\ T \in Running /\ status[T] = "active" /\ Pending = {}
      /\ Base \in Nat /\ Base <= Len(rows) /\ Len(rows) \in Nat
      /\ \A r \in DeletedBy(T) : r \in RowIds /\ r <= Base /\ rows[r].deleter = T
      /\ \A r \in RowIds : rows[r].deleter = T =>
            r \in DeletedBy(T) /\ (rows[r].deleted = Never \/ rows[r].deleted = current_start_timestamp)
      /\ \A r \in RowIds : r <= Base => rows[r].inserted <= last_commit
      /\ Delta => \A r \in Old : r <= Base
  BY RolledBackCommit
<1>3. /\ rows' \in Seq(RowRecords) /\ Len(rows') = Base /\ RowIds' = 1 .. Base /\ RowIds' \subseteq RowIds
      /\ \A r \in RowIds' : /\ rows'[r].key = rows[r].key /\ rows'[r].inserted = rows[r].inserted
                            /\ rows'[r].deleter = (IF rows[r].deleter = T THEN NoTxn ELSE rows[r].deleter)
                            /\ rows'[r].deleted = (IF rows[r].deleter = T THEN Never ELSE rows[r].deleted)
  BY <1>1, RolledBackRows
<1>4. /\ row_groups' \in Seq(Nat) /\ Groups'
      /\ Delta /\ last_seen_checkpoint = checkpoint.id =>
            /\ checkpoint_row_group_count <= Len(row_groups')
            /\ \A r \in 1 .. Base : NewGroup(r)' <=> NewGroup(r)
  BY <1>1, <1>3, RolledBackGroups
<1>5. /\ fatal' = FALSE
      /\ entry' \in IndexEntries /\ entry'.last_written = entry.last_written
      /\ Entries(entry'.deleted_rows_in_use) = EntriesOf(InUse \ DeletedBy(T))
      /\ ~Delta => entry'.index = EntriesOf(live) /\ entry'.added = <<>> /\ entry'.removed = <<>>
      /\ Delta => /\ entry'.index = entry.index /\ Entries(entry'.removed) = Entries(e.removed)
                  /\ Entries(entry'.added) = EntriesOf(live \ Old)
                  /\ 1 .. Base \subseteq Old \/ Exists(entry'.added)
  BY RolledBackEntry
<1>6. /\ Running' = Running \ {T} /\ status'[T] = "done" /\ status' \in [Txns -> Statuses]
      /\ start_time' \in [Txns -> Nat] /\ commit_id' \in [Txns -> Nat]
      /\ local_storage' \in [Txns -> Seq(Keys)] /\ local_storage'[T] = <<>>
      /\ active_transaction_state' \in [Txns -> {"unset", "none", "others"}]
      /\ cleanup' \in [Txns -> {"none", "stored", "scheduled"}]
      /\ \A u \in Txns \ {T} : /\ status'[u] = status[u] /\ start_time'[u] = start_time[u]
                               /\ commit_id'[u] = commit_id[u] /\ local_storage'[u] = local_storage[u]
                               /\ active_transaction_state'[u] = active_transaction_state[u]
                               /\ cleanup'[u] # "none" <=> cleanup[u] # "none"
      /\ cleanup'[T] = "none" /\ commit_id'[T] = 0
      /\ \A u \in Txns : cleanup'[u] = "scheduled" =>
            \/ cleanup[u] = "scheduled" /\ u # T
            \/ \A v \in Running \ {T} : commit_id'[u] < start_time[v]
  BY <1>1, <1>2, RemoveTransactionEffect, Zenon
<1>7. /\ undo_buffer' \in [Txns -> Seq(SUBSET RowId)] /\ undo_buffer'[T] = <<>>
      /\ \A u \in Txns \ {T} : undo_buffer'[u] = undo_buffer[u]
  BY <1>1, <1>2 DEF Types, TransactionTypes
<1>8. /\ last_commit \in Nat /\ last_commit < Infinity /\ current_start_timestamp \in Nat
      /\ last_commit < current_start_timestamp /\ current_start_timestamp < Infinity
      /\ current_start_timestamp # Never
  BY CheckpointFields, Constants DEF Times
<1>9. /\ \A u \in Txns : DeletedBy(u)' = (IF u = T THEN {} ELSE DeletedBy(u))
      /\ \A u \in Txns : \A r \in DeletedBy(u) : r \in RowIds' /\ rows[r].deleter = u
  <2>1. \A u \in Txns : u = T => DeletedBy(u)' = {}
    BY <1>7 DEF DeletedBy, Range
  <2>2. \A u \in Txns \ {T} : DeletedBy(u)' = DeletedBy(u)
    BY <1>7 DEF DeletedBy
  <2>3. ASSUME NEW u \in Txns, NEW r \in DeletedBy(u) PROVE r \in RowIds' /\ rows[r].deleter = u
    <3>1. r \in RowIds /\ rows[r].deleter = u /\ rows[r].inserted <= last_commit
      BY DeletedRows, TxnFields DEF Deletes
    <3>2. rows[r].inserted # Infinity
      BY <1>8, <3>1, Constants
    <3>3. r <= Base
      BY <1>2, <3>1, <3>2, RolledBackCommit, RowFields
    <3> QED
      BY <1>2, <1>3, <3>1, <3>3, RowFields
  <2> QED
    BY <2>1, <2>2, <2>3
<1>10. /\ commit'.pc = "none" /\ commit'.appended = FALSE /\ T' = NoTxn /\ commit'.txn = NoTxn
       /\ commit' \in CommitStates
  BY <1>1, Constants DEF NoCommit, T, CommitStates, CommitPCs
<1>11. Types'
  <2>1. current_start_timestamp' \in Nat
    BY <1>1, <1>8
  <2>2. TransactionTypes'
    BY <1>6, <1>7 DEF TransactionTypes
  <2>3. TableTypes'
    BY <1>1, <1>3, <1>4 DEF Types, TableTypes
  <2> QED
    BY <1>1, <1>5, <1>10, <2>1, <2>2, <2>3 DEF Types
<1>12. \A r \in RowIds' : /\ r <= Base /\ rows[r].inserted <= last_commit /\ rows[r].inserted \in Nat
                          /\ rows[r].deleted \in Nat
                          /\ rows'[r].deleted <= last_commit \/ rows'[r].deleted = Never
  <2> TAKE r \in RowIds'
  <2>1. r \in RowIds /\ r <= Base /\ rows[r].inserted <= last_commit
    BY <1>2, <1>3
  <2>2. CASE rows[r].deleter = T
    BY <1>3, <2>1, <2>2, RowFields
  <2>3. CASE rows[r].deleter # T
    <3>1. rows[r].deleted <= last_commit \/ rows[r].deleted = Never
      BY <2>1, <2>3 DEF Times
    <3> QED
      BY <1>3, <2>1, <2>3, <3>1, RowFields
  <2> QED
    BY <2>2, <2>3
<1>13. Times'
  <2>1. \A u \in Running' : start_time'[u] < current_start_timestamp'
    <3> TAKE u \in Running'
    <3>1. u \in Running /\ u \in Txns /\ start_time'[u] = start_time[u]
      BY <1>6 DEF Running
    <3>2. start_time[u] < current_start_timestamp /\ start_time[u] \in Nat
      BY <3>1, TxnFields DEF Times
    <3> QED
      BY <1>1, <1>8, <3>1, <3>2
  <2>2. \A u \in Txns : commit_id'[u] <= last_commit'
    <3> TAKE u \in Txns
    <3>1. commit_id'[u] = 0 \/ commit_id'[u] = commit_id[u]
      BY <1>6
    <3>2. commit_id[u] <= last_commit /\ commit_id[u] \in Nat
      BY TxnFields DEF Times
    <3> QED
      BY <1>1, <1>8, <3>1, <3>2
  <2>3. /\ \A r \in RowIds' : rows'[r].inserted <= last_commit'
        /\ \A r \in RowIds' : rows'[r].deleted <= last_commit' \/ rows'[r].deleted = Never
    BY <1>1, <1>3, <1>12
  <2>4. \A r, s \in RowIds' : r <= s => rows'[r].inserted <= rows'[s].inserted
    BY <1>3 DEF Times
  <2>5. last_commit' < current_start_timestamp' /\ current_start_timestamp' < Infinity
    BY <1>1, <1>8
  <2>6. Never' = Never
    BY DEF Never
  <2> QED
    BY <2>1, <2>2, <2>3, <2>4, <2>5, <2>6, Zenon DEF Times
<1>14. OneCommit'
  BY <1>1, <1>10 DEF OneCommit, Appended, NoCommit
<1>15. Deletes'
  <2>1. \A u \in Txns : \A i \in DOMAIN undo_buffer'[u] : \A r \in undo_buffer'[u][i] :
           r \in RowIds' /\ rows'[r].deleter = u /\ rows'[r].inserted <= last_commit'
    <3> SUFFICES ASSUME NEW u \in Txns, NEW i \in DOMAIN undo_buffer'[u], NEW r \in undo_buffer'[u][i]
                 PROVE  r \in RowIds' /\ rows'[r].deleter = u /\ rows'[r].inserted <= last_commit'
      OBVIOUS
    <3>1. u # T
      BY <1>7
    <3>2. r \in DeletedBy(u)
      <4>1. undo_buffer'[u] = undo_buffer[u]
        BY <1>7, <3>1
      <4> QED
        BY <4>1, DeletedRows, TxnFields
    <3>3. r \in RowIds' /\ rows[r].deleter = u
      BY <1>9, <3>2
    <3> QED
      BY <1>1, <1>3, <1>12, <3>1, <3>3
  <2>2. \A u \in Txns : \A i, j \in DOMAIN undo_buffer'[u] :
           i # j => undo_buffer'[u][i] \cap undo_buffer'[u][j] = {}
    <3> SUFFICES ASSUME NEW u \in Txns, NEW i \in DOMAIN undo_buffer'[u], NEW j \in DOMAIN undo_buffer'[u], i # j
                 PROVE  undo_buffer'[u][i] \cap undo_buffer'[u][j] = {}
      OBVIOUS
    <3>1. u # T
      BY <1>7
    <3> QED
      BY <1>7, <3>1 DEF Deletes
  <2>3. \A r \in RowIds' : rows'[r].deleter = NoTxn => rows'[r].deleted = Never
    BY <1>3 DEF Deletes
  <2>4. \A u \in Txns, r \in RowIds' : rows'[r].deleter = u =>
          IF u \in Running' THEN r \in DeletedBy(u)' /\ rows'[r].deleted = Never
          ELSE status'[u] = "done" /\ rows'[r].deleted <= last_commit'
    <3> SUFFICES ASSUME NEW u \in Txns, NEW r \in RowIds', rows'[r].deleter = u
                 PROVE  IF u \in Running' THEN r \in DeletedBy(u)' /\ rows'[r].deleted = Never
                        ELSE status'[u] = "done" /\ rows'[r].deleted <= last_commit'
      OBVIOUS
    <3>1. u # NoTxn
      BY TxnFields
    <3>2. rows[r].deleter = u /\ u # T /\ r \in RowIds
      BY <1>3, <3>1
    <3>3. IF u \in Running THEN r \in DeletedBy(u) /\ rows[r].deleted = Never
          ELSE status[u] = "done" /\ rows[r].deleted <= last_commit
      BY <3>2 DEF Deletes
    <3>4. rows'[r].deleted = rows[r].deleted /\ DeletedBy(u)' = DeletedBy(u) /\ status'[u] = status[u]
          /\ (u \in Running' <=> u \in Running)
      BY <1>3, <1>6, <1>9, <3>2
    <3> QED
      BY <1>1, <3>3, <3>4
  <2>5. Never' = Never /\ commit'.pc # "undo"
    BY <1>10 DEF Never
  <2> QED
    BY <2>1, <2>2, <2>3, <2>4, <2>5 DEF Deletes
<1>16. Ended'
  <2>1. ASSUME NEW u \in Txns
        PROVE  /\ status'[u] = "idle" => undo_buffer'[u] = <<>> /\ local_storage'[u] = <<>>
               /\ status'[u] = "done" => /\ local_storage'[u] = <<>>
                                         /\ cleanup'[u] = "none" => undo_buffer'[u] = <<>>
               /\ cleanup'[u] # "none" => /\ status'[u] = "done"
                                          /\ \A r \in DeletedBy(u)' : rows'[r].deleted = commit_id'[u]
    <3>1. CASE u = T
      BY <1>6, <1>7, <3>1
    <3>2. CASE u # T
      <4>1. /\ status[u] = "idle" => undo_buffer[u] = <<>> /\ local_storage[u] = <<>>
            /\ status[u] = "done" => /\ local_storage[u] = <<>>
                                     /\ cleanup[u] = "none" => undo_buffer[u] = <<>>
            /\ cleanup[u] # "none" => /\ status[u] = "done"
                                      /\ \A r \in DeletedBy(u) : rows[r].deleted = commit_id[u]
        BY DEF Ended
      <4>2. /\ status'[u] = status[u] /\ commit_id'[u] = commit_id[u] /\ local_storage'[u] = local_storage[u]
            /\ cleanup'[u] # "none" <=> cleanup[u] # "none"
        BY <1>6, <3>2
      <4>3. \A r \in DeletedBy(u) : rows'[r].deleted = rows[r].deleted
        BY <1>3, <1>9, <3>2
      <4>4. undo_buffer'[u] = undo_buffer[u] /\ DeletedBy(u)' = DeletedBy(u)
        BY <1>7, <1>9, <3>2
      <4> QED
        BY <4>1, <4>2, <4>3, <4>4
    <3> QED
      BY <3>1, <3>2
  <2> QED
    BY <2>1 DEF Ended
<1>17. InUse' = InUse \ DeletedBy(T)
  <2>1. InUse' = {r \in RowIds' : /\ rows'[r].deleted # Never
                                  /\ \E u \in Txns \ {T} : r \in DeletedBy(u) /\ active_transaction_state[u] = "others"}
    <3>1. \A u \in Txns \ {T} : active_transaction_state'[u] = active_transaction_state[u] /\ DeletedBy(u)' = DeletedBy(u)
      BY <1>6, <1>9
    <3>2. \A u \in Txns : u = T => DeletedBy(u)' = {}
      BY <1>9
    <3>3. \A r : (\E u \in Txns : r \in DeletedBy(u)' /\ active_transaction_state'[u] = "others")
                  <=> (\E u \in Txns \ {T} : r \in DeletedBy(u) /\ active_transaction_state[u] = "others")
      BY <3>1, <3>2
    <3>4. Never' = Never
      BY DEF Never
    <3> QED
      BY <3>3, <3>4 DEF InUse
  <2>2. \A r : \A u \in Txns \ {T} : r \in DeletedBy(u) =>
            r \in RowIds' /\ r \in RowIds /\ r \notin DeletedBy(T) /\ rows'[r].deleted = rows[r].deleted
    <3> SUFFICES ASSUME NEW r, NEW u \in Txns \ {T}, r \in DeletedBy(u)
                 PROVE  r \in RowIds' /\ r \in RowIds /\ r \notin DeletedBy(T) /\ rows'[r].deleted = rows[r].deleted
      OBVIOUS
    <3>1. r \in RowIds' /\ rows[r].deleter = u
      BY <1>9
    <3> QED
      BY <1>2, <1>3, <3>1
  <2>3. InUse \ DeletedBy(T) = {r \in RowIds : /\ rows[r].deleted # Never
                                 /\ \E u \in Txns \ {T} : r \in DeletedBy(u) /\ active_transaction_state[u] = "others"}
    BY <2>2 DEF InUse
  <2> QED
    BY <2>1, <2>2, <2>3
<1>18. Kept'
  <2>1. \A v \in Running', r \in RowIds' :
          start_time'[v] <= rows'[r].deleted /\ rows'[r].deleted # Never /\ rows'[r].deleter # v => r \in InUse'
    <3> SUFFICES ASSUME NEW v \in Running', NEW r \in RowIds', start_time'[v] <= rows'[r].deleted,
                        rows'[r].deleted # Never, rows'[r].deleter # v
                 PROVE  r \in InUse'
      OBVIOUS
    <3>1. v \in Running /\ v # T /\ v \in Txns /\ start_time'[v] = start_time[v] /\ r \in RowIds
      BY <1>3, <1>6 DEF Running
    <3>2. rows[r].deleter # T /\ rows'[r].deleted = rows[r].deleted /\ rows'[r].deleter = rows[r].deleter
      BY <1>3
    <3>3. r \in InUse
      BY <3>1, <3>2 DEF Kept
    <3>4. r \notin DeletedBy(T)
      BY <1>2, <3>2
    <3> QED
      BY <1>17, <3>3, <3>4
  <2>2. \A v \in Running', u \in Txns : cleanup'[u] = "scheduled" => commit_id'[u] < start_time'[v]
    <3> SUFFICES ASSUME NEW v \in Running', NEW u \in Txns, cleanup'[u] = "scheduled"
                 PROVE  commit_id'[u] < start_time'[v]
      OBVIOUS
    <3>1. v \in Running \ {T} /\ start_time'[v] = start_time[v]
      BY <1>6 DEF Running
    <3>2. CASE cleanup[u] = "scheduled" /\ u # T
      BY <1>6, <3>1, <3>2 DEF Kept
    <3> QED
      BY <1>6, <3>1, <3>2
  <2>3. Never' = Never
    BY DEF Never
  <2> QED
    BY <1>10, <2>1, <2>2, <2>3 DEF Kept
<1>19. Live' = live /\ Alive' = live /\ live \subseteq RowIds' /\ live \subseteq Alive
  <2>1. \A r \in RowIds' : rows'[r].deleted = Never <=> r \in Live \/ r \in DeletedBy(T)
    <3> TAKE r \in RowIds'
    <3>1. r \in RowIds /\ (rows[r].deleter = T <=> r \in DeletedBy(T))
      BY <1>2, <1>3
    <3> QED
      BY <1>3, <3>1 DEF Live
  <2>2. live \subseteq RowIds'
    <3>1. \A r \in Live \cup DeletedBy(T) : r \in RowIds
      BY <1>2 DEF Live
    <3> QED
      BY <1>2, <1>3, <3>1, RowFields
  <2>3. Live' = {r \in RowIds' : rows'[r].deleted = Never}
    BY DEF Live, Never
  <2>4. \A r \in RowIds' : r <= Base
    BY <1>12
  <2>5. Alive' = Live'
    BY <1>10 DEF Alive, Live
  <2>6. live \subseteq Alive
    BY <1>2 DEF Alive, Live
  <2> QED
    BY <2>1, <2>2, <2>3, <2>4, <2>5, <2>6
<1>20. Distinct'
  <2>1. \A u \in Txns : \A i, j \in 1 .. Len(local_storage'[u]) :
           local_storage'[u][i] = local_storage'[u][j] => i = j
    <3>1. \A i \in 1 .. Len(local_storage'[T]) : FALSE
      BY <1>6
    <3>2. \A u \in Txns \ {T} : \A i, j \in 1 .. Len(local_storage[u]) : local_storage[u][i] = local_storage[u][j] => i = j
      BY DEF Distinct
    <3> TAKE u \in Txns
    <3>3. u # T => local_storage'[u] = local_storage[u]
      BY <1>6
    <3> QED
      BY <3>1, <3>2, <3>3
  <2>2. \A r, s \in Alive' : r < s => rows'[r].key # rows'[s].key
    <3> SUFFICES ASSUME NEW r \in live, NEW s \in live, r < s, rows[r].key = rows[s].key PROVE FALSE
      BY <1>3, <1>19
    <3>1. commit.appended /\ s > commit.row_start
      BY <1>19 DEF Distinct
    <3>2. s <= commit.row_start /\ s \in Nat /\ commit.row_start \in Nat
      BY <1>2, <1>3, <1>19, <3>1, CommitFields DEF Base
    <3> QED
      BY <3>1, <3>2
  <2> QED
    BY <1>10, <2>1, <2>2 DEF Distinct
<1>21. UniqueKeys'
  <2> SUFFICES ASSUME NEW r \in RowIds', NEW s \in RowIds', r # s, rows[r].key = rows[s].key,
                      rows[r].inserted <= rows[s].inserted
               PROVE  rows'[r].deleted <= rows[s].inserted
    BY <1>3 DEF UniqueKeys
  <2>1. rows[s].inserted <= last_commit /\ rows[s].inserted \in Nat /\ r \in RowIds /\ s \in RowIds
    BY <1>3, <1>12
  <2>2. rows[r].deleted <= rows[s].inserted
    <3>1. rows[s].inserted # Infinity
      BY <1>8, <2>1, Constants
    <3> QED
      BY <2>1, <3>1 DEF UniqueKeys
  <2>3. rows[r].deleter # T
    <3> SUFFICES ASSUME rows[r].deleter = T PROVE FALSE
      OBVIOUS
    <3>1. rows[r].deleted = Infinity \/ rows[r].deleted = current_start_timestamp
      BY <1>2, <2>1, Constants
    <3> QED
      BY <1>8, <2>1, <2>2, <3>1, Constants
  <2> QED
    BY <1>3, <2>2, <2>3
<1>22. CheckpointIds'
  <2>1. commit'.pc # "indexes" /\ ~TableLockShared'
    BY <1>10 DEF TableLockShared
  <2> QED
    BY <1>1, <1>5, <2>1 DEF CheckpointIds, WALSwitched, Earlier, Delta, TableLockExclusive
<1>23. Delta' = Delta /\ Pending' = {} /\ (Delta => Old' = Old)
  <2>1. Delta => Old' = Old
    <3> SUFFICES ASSUME Delta PROVE Old' = Old
      OBVIOUS
    <3>1. \A r \in Old : r \in RowIds'
      BY <1>2, <1>3, RowFields DEF Old
    <3> QED
      BY <1>1, <1>3, <3>1 DEF Old
  <2> QED
    BY <1>1, <1>10, <2>1 DEF Delta, Pending
<1>24. Split'
  <2> SUFFICES ASSUME Delta PROVE Split'
    BY <1>23 DEF Split
  <2>1. Old' = Old /\ Delta' /\ ~TableLockShared'
    BY <1>10, <1>23 DEF TableLockShared
  <2>2. \A u \in Running' : \A i \in DOMAIN undo_buffer'[u] :
              undo_buffer'[u][i] \subseteq Old \/ undo_buffer'[u][i] \cap Old = {}
    <3> TAKE u \in Running'
    <3>1. u \in Running /\ undo_buffer'[u] = undo_buffer[u]
      BY <1>6, <1>7 DEF Running
    <3> QED
      BY <3>1 DEF Split
  <2>3. last_seen_checkpoint # checkpoint.id => RowIds' \subseteq Old
    BY <1>3 DEF Split
  <2>4. last_seen_checkpoint = checkpoint.id => \A r \in RowIds' : r \in Old <=> ~NewGroup(r)'
    BY <1>3, <1>4 DEF Split
  <2> QED
    BY <1>1, <1>4, <2>1, <2>2, <2>3, <2>4 DEF Split
<1>25. Written'
  <2>1. checkpoint.pc \in {"row_groups", "tables_written"} => Old' = Old /\ entry'.index = entry.index
    BY <1>5, <1>23 DEF Delta
  <2> QED
    BY <1>1, <2>1 DEF Written
<1>26. Indexed'
  <2>1. \A A \in SUBSET RowIds' : EntriesOf(A) = {<<rows'[r].key, r>> : r \in A}
    <3> TAKE A \in SUBSET RowIds'
    <3>1. \A r \in A : rows'[r].key = rows[r].key
      BY <1>3
    <3> QED
      BY <3>1, EntriesKept
  <2>2. InUse' \subseteq RowIds' /\ live \ Old \subseteq RowIds'
    BY <1>19 DEF InUse
  <2>3. EntriesOf(InUse)' = EntriesOf(InUse') /\ EntriesOf(Live)' = EntriesOf(live)
    BY <1>19, <2>1, <2>2 DEF EntriesOf, EntryOf
  <2>4. Entries(entry'.deleted_rows_in_use) = EntriesOf(InUse)'
    BY <1>5, <1>17, <2>3
  <2>5. CASE ~Delta
    BY <1>5, <1>23, <2>3, <2>4, <2>5 DEF Indexed
  <2>6. CASE Delta
    <3> DEFINE D == {r \in Old : rows[r].deleted > checkpoint.id}
               D2 == {r \in Old : rows[r].deleted > checkpoint.id /\ rows[r].deleted # Never}
    <3>1. checkpoint' = checkpoint /\ Old' = Old /\ Old \subseteq RowIds'
      BY <1>1, <1>23, <2>6 DEF Old
    <3>2. checkpoint.id \in Nat /\ checkpoint.id < current_start_timestamp /\ checkpoint.id < Infinity
      BY <1>8, <2>6, DeltasInUse, CheckpointFields
    <3>3. \A r \in Old : rows'[r].deleted > checkpoint.id <=> rows[r].deleted > checkpoint.id
      BY <1>2, <1>3, <1>8, <3>1, <3>2, Constants
    <3>4. \A r \in Old : (rows'[r].deleted > checkpoint.id /\ rows'[r].deleted # Never) <=>
                         (rows[r].deleted > checkpoint.id /\ rows[r].deleted # Never /\ r \notin DeletedBy(T))
      BY <1>2, <1>3, <1>8, <3>1, <3>2, Constants
    <3>5. {r \in Old' : rows'[r].deleted > checkpoint'.id} = D
      BY <3>1, <3>3
    <3>6. {r \in Old' : rows'[r].deleted > checkpoint'.id /\ rows'[r].deleted # Never} = D2 \ DeletedBy(T)
      BY <3>1, <3>4
    <3>7. D \subseteq RowIds' /\ D2 \ DeletedBy(T) \subseteq RowIds'
      BY <3>1
    <3>8. entry.index = EntriesOf(D) /\ Entries(e.removed) = EntriesOf(D2 \ DeletedBy(T))
      BY <2>6 DEF Indexed, Reverted
    <3> HIDE DEF D, D2, live
    <3>9. /\ EntriesOf({r \in Old : rows[r].deleted > checkpoint.id})' = EntriesOf(D)
          /\ EntriesOf({r \in Old : rows[r].deleted > checkpoint.id /\ rows[r].deleted # Never})' =
             EntriesOf(D2 \ DeletedBy(T))
      BY <2>1, <3>5, <3>6, <3>7 DEF EntriesOf, EntryOf, Never
    <3>10. EntriesOf(Live \ Old)' = EntriesOf(live \ Old)
      BY <1>19, <2>1, <2>2, <3>1 DEF EntriesOf, EntryOf
    <3> HIDE DEF TableInv
    <3>11. Delta'
      BY <1>23, <2>6
    <3>12. entry'.index = EntriesOf({r \in Old : rows[r].deleted > checkpoint.id})'
      BY <1>5, <2>6, <3>8, <3>9
    <3>13. Entries(entry'.removed) =
           EntriesOf({r \in Old : rows[r].deleted > checkpoint.id /\ rows[r].deleted # Never})'
      BY <1>5, <2>6, <3>8, <3>9
    <3>14. Entries(entry'.added) = EntriesOf(Live \ Old)' \cup Pending'
      BY <1>5, <1>23, <2>6, <3>10
    <3>15. (RowIds' \subseteq Old' /\ Pending' = {}) \/ Exists(entry'.added)
      BY <1>3, <1>5, <1>23, <2>6, <3>1
    <3> QED
      BY <2>4, <3>11, <3>12, <3>13, <3>14, <3>15 DEF Indexed
  <2> QED
    BY <2>5, <2>6
<1>27. NoLateConflict' /\ Regular'
  BY <1>1, <1>10, FrameRegular DEF NoLateConflict
<1> QED
  BY <1>4, <1>5, <1>11, <1>13, <1>14, <1>15, <1>16, <1>18, <1>20, <1>21, <1>22, <1>24, <1>25, <1>26, <1>27

\* Before its deletes are committed, a commit that fails has none to take back.
LEMMA NothingToRevert ==
    ASSUME TableInv, commit.pc \in {"failed", "written"}
    PROVE  Reverted(entry)
<1> USE DEF TableInv
<1>1. T \in Txns /\ T \in Running /\ Pending = {} /\ commit.pc # "undo"
  BY RolledBackCommit DEF RollbackPCs
<1>2. \A r \in DeletedBy(T) : r \in RowIds /\ rows[r].deleted = Never
  <2> TAKE r \in DeletedBy(T)
  <2>1. r \in RowIds /\ rows[r].deleter = T
    BY RolledBackCommit DEF RollbackPCs
  <2> QED
    BY <1>1, <2>1 DEF Deletes
<1>3. InUse \ DeletedBy(T) = InUse
  BY <1>2 DEF InUse
<1>4. Live \cup DeletedBy(T) = Live
  BY <1>2 DEF Live
<1> DEFINE D2 == {r \in Old : rows[r].deleted > checkpoint.id /\ rows[r].deleted # Never}
<1>5. D2 \ DeletedBy(T) = D2
  BY <1>2
<1>6. entry \in IndexEntries
  BY DEF Types
<1> HIDE DEF D2
<1>7. /\ Entries(entry.deleted_rows_in_use) = EntriesOf(InUse)
      /\ ~Delta => entry.index = EntriesOf(Live) /\ entry.added = <<>> /\ entry.removed = <<>>
      /\ Delta => /\ Entries(entry.removed) = EntriesOf(D2) /\ Entries(entry.added) = EntriesOf(Live \ Old)
                  /\ RowIds \subseteq Old \/ Exists(entry.added)
  BY <1>1 DEF Indexed, D2
<1> QED
  BY <1>3, <1>4, <1>5, <1>6, <1>7 DEF Reverted, D2

\* A conflict in the append rolls the commit back; the rows have not been appended.
LEMMA AppendFailsInv ==
    ASSUME TableInv, AppendFails
    PROVE  TableInv'
<1>1. commit.pc = "failed" /\ RollbackCommit(entry, FALSE)
  BY DEF AppendFails
<1>2. Reverted(entry) /\ commit.pc \in RollbackPCs
  BY <1>1, NothingToRevert DEF RollbackPCs
<1> QED
  BY <1>1, <1>2, RollbackCommitInv

\* A WAL that cannot be written rolls the commit back, with its rows appended.
LEMMA WriteFailsInv ==
    ASSUME TableInv, WriteFails
    PROVE  TableInv'
<1>1. commit.pc = "written" /\ RollbackCommit(entry, FALSE)
  BY DEF WriteFails
<1>2. Reverted(entry) /\ commit.pc \in RollbackPCs
  BY <1>1, NothingToRevert DEF RollbackPCs
<1> QED
  BY <1>1, <1>2, RollbackCommitInv

-----------------------------------------------------------------------------
(* The deletes of a commit that fails are taken back *)

\* What the revert of a delete puts back into an index, and into the delta indexes.
Readded(e, type, E, deltas, new, error) ==
    /\ new \in IndexEntries /\ new.last_written = e.last_written
    /\ Entries(new.deleted_rows_in_use) = (IF type = "REVERT_MAIN_INDEX" THEN Entries(e.deleted_rows_in_use) \ E
                                           ELSE Entries(e.deleted_rows_in_use))
    /\ ~deltas => new.index = e.index \cup E /\ new.added = e.added /\ new.removed = e.removed
    /\ deltas => /\ new.index = e.index /\ Entries(new.removed) = Entries(e.removed) \ E
                 /\ Exists(new.added) <=> Exists(e.added)
                 /\ Entries(new.added) = (IF Exists(e.added) /\ E \cap Entries(e.removed) = {}
                                          THEN Entries(e.added) \cup E ELSE Entries(e.added))
    /\ /\ type = "REVERT_MAIN_INDEX" => E \subseteq Entries(e.deleted_rows_in_use)
       /\ ~deltas => ~AppendConflicts(e.index, E)
       /\ deltas => /\ E \cap Entries(e.removed) \in {{}, E}
                    /\ E \cap Entries(e.removed) = {} => ~AppendConflicts(Entries(e.added), E)
       => error = FALSE

\* TableIndexList::RemoveFromIndexes, for a delete that is reverted, does what Readded says.
LEMMA ReaddedToIndexes ==
    ASSUME NEW e \in IndexEntries, NEW type \in {"REVERT_MAIN_INDEX", "REVERT_MAIN_INDEX_ONLY"},
           NEW E \in Index, NEW id
    PROVE  Readded(e, type, E, UseDeltas(e, id), RemoveFromIndexes(e, type, E, id).entry,
                   RemoveFromIndexes(e, type, E, id).error)
<1> DEFINE new == RemoveFromIndexes(e, type, E, id).entry
           error == RemoveFromIndexes(e, type, E, id).error
           fails == type = "REVERT_MAIN_INDEX" /\ DeleteFails(Entries(e.deleted_rows_in_use), E)
           found == E \cap Entries(e.removed)
           readd == Exists(e.added) /\ found = {}
           used == IF type = "REVERT_MAIN_INDEX" THEN <<Entries(e.deleted_rows_in_use) \ E>> ELSE e.deleted_rows_in_use
           added == IF readd THEN <<Entries(e.added) \cup E>> ELSE e.added
           removed == <<Entries(e.removed) \ E>>
<1>1. /\ e.index \in Index /\ e.deleted_rows_in_use \in Ptrs /\ e.added \in Ptrs /\ e.removed \in Ptrs
  BY DEF IndexEntries
<1>2. /\ Entries(e.deleted_rows_in_use) \in Index /\ Entries(e.added) \in Index /\ Entries(e.removed) \in Index
  BY <1>1, Pointers
<1>3. \A A \in Index : A \ E \in Index /\ A \cup E \in Index
  BY DEF Index
<1>4. \A A \in Index : <<A>> \in Ptrs
  BY Pointers
<1>5. \A A : Entries(<<A>>) = A /\ Exists(<<A>>)
  BY Pointers
<1>6. used \in Ptrs /\ added \in Ptrs /\ removed \in Ptrs
  <2>1. used \in Ptrs
    BY <1>1, <1>2, <1>3, <1>4, Zenon
  <2>2. added \in Ptrs
    BY <1>1, <1>2, <1>3, <1>4, Zenon
  <2>3. removed \in Ptrs
    BY <1>1, <1>2, <1>3, <1>4, Zenon
  <2> QED
    BY <2>1, <2>2, <2>3
<1>7. /\ Entries(used) = (IF type = "REVERT_MAIN_INDEX" THEN Entries(e.deleted_rows_in_use) \ E
                          ELSE Entries(e.deleted_rows_in_use))
      /\ Exists(added) <=> Exists(e.added)
      /\ Entries(added) = (IF readd THEN Entries(e.added) \cup E ELSE Entries(e.added))
      /\ Entries(removed) = Entries(e.removed) \ E
  <2>1. Entries(used) = (IF type = "REVERT_MAIN_INDEX" THEN Entries(e.deleted_rows_in_use) \ E
                         ELSE Entries(e.deleted_rows_in_use))
    BY <1>5
  <2>2. Exists(added) <=> Exists(e.added)
    BY <1>5
  <2>3. Entries(added) = (IF readd THEN Entries(e.added) \cup E ELSE Entries(e.added))
    <3>1. CASE readd
      BY <1>5, <3>1
    <3>2. CASE ~readd
      BY <3>2
    <3> QED
      BY <3>1, <3>2
  <2>4. Entries(removed) = Entries(e.removed) \ E
    BY <1>5
  <2> QED
    BY <2>1, <2>2, <2>3, <2>4, Zenon
<1>8. CASE UseDeltas(e, id)
  <2>1. /\ new = [e EXCEPT !.removed = removed, !.added = added, !.deleted_rows_in_use = used]
        /\ error = (found \notin {{}, E} \/ (readd /\ AppendConflicts(Entries(e.added), E)) \/ fails)
    BY <1>8 DEF RemoveFromIndexes, RevertInDeltas, IndexEntries
  <2>2. ASSUME type = "REVERT_MAIN_INDEX" => E \subseteq Entries(e.deleted_rows_in_use),
               found \in {{}, E}, found = {} => ~AppendConflicts(Entries(e.added), E)
        PROVE  error = FALSE
    <3>1. ~fails
      BY <2>2 DEF DeleteFails
    <3>2. ~(found \notin {{}, E} \/ (readd /\ AppendConflicts(Entries(e.added), E)) \/ fails)
      BY <2>2, <3>1
    <3> QED
      BY <2>1, <3>2
  <2> HIDE DEF added, removed, used, new, error
  <2>3. /\ new \in IndexEntries /\ new.last_written = e.last_written /\ new.index = e.index
        /\ new.added = added /\ new.removed = removed /\ new.deleted_rows_in_use = used
    BY <1>6, <2>1 DEF IndexEntries
  <2> QED
    BY <1>7, <1>8, <2>2, <2>3 DEF Readded, new, error
<1>9. CASE ~UseDeltas(e, id)
  <2>1. /\ new = [e EXCEPT !.index = e.index \cup E, !.deleted_rows_in_use = used]
        /\ error = (AppendConflicts(e.index, E) \/ fails)
    BY <1>9 DEF RemoveFromIndexes, IndexEntries
  <2>2. ASSUME type = "REVERT_MAIN_INDEX" => E \subseteq Entries(e.deleted_rows_in_use),
               ~AppendConflicts(e.index, E)
        PROVE  error = FALSE
    <3>1. ~fails
      BY <2>2 DEF DeleteFails
    <3> QED
      BY <2>1, <2>2, <3>1
  <2> HIDE DEF added, removed, used, new, error
  <2>3. /\ new \in IndexEntries /\ new.last_written = e.last_written /\ new.index = e.index \cup E
        /\ new.added = e.added /\ new.removed = e.removed /\ new.deleted_rows_in_use = used
    BY <1>1, <1>3, <1>6, <2>1 DEF IndexEntries
  <2> QED
    BY <1>7, <1>9, <2>2, <2>3 DEF Readded, new, error
<1> QED
  BY <1>8, <1>9

\* The rows of the first n DeleteInfos of the commit.
FirstRows(n) == UNION {undo_buffer[T][i] : i \in 1 .. n}

RemovedRows == {r \in Old : rows[r].deleted > checkpoint.id /\ rows[r].deleted # Never}

\* An index after the deletes of a set of rows have been taken back.
Revert(acc, R) ==
    /\ acc.error = FALSE
    /\ acc.entry \in IndexEntries /\ acc.entry.last_written = entry.last_written
    /\ Entries(acc.entry.deleted_rows_in_use) = EntriesOf(InUse \ R)
    /\ ~Delta => /\ acc.entry.index = EntriesOf(Live \cup R)
                 /\ acc.entry.added = <<>> /\ acc.entry.removed = <<>>
    /\ Delta => /\ acc.entry.index = entry.index
                /\ Entries(acc.entry.removed) = EntriesOf(RemovedRows \ R)
                /\ Entries(acc.entry.added) = EntriesOf((Live \cup R) \ Old)
                /\ RowIds \subseteq Old \/ Exists(acc.entry.added)

\* The keys of rows that a commit has deleted are those of no other row of an index to which
\* they are appended again, unless the transaction replaces a key.
LEMMA RevertDistinct ==
    ASSUME TableInv, commit.pc = "undo", ~Replaces(T),
           NEW r \in DeletedBy(T), NEW s \in Live \cup DeletedBy(T),
           EntryOf(r) \notin Entries(entry.removed), rows[r].key = rows[s].key
    PROVE  r = s
<1> USE DEF TableInv
<1>1. /\ T \in Txns /\ T # NoTxn /\ Base \in Nat /\ (commit.appended => Base = commit.row_start)
      /\ r \in RowIds /\ r <= Base /\ rows[r].deleter = T
      /\ \A q \in DeletedBy(T) : q \in RowIds /\ rows[q].deleter = T
  BY RolledBackCommit DEF RollbackPCs
<1>2. r \in Alive /\ s \in Alive /\ RowIds = 1 .. Len(rows) /\ Len(rows) \in Nat
  BY <1>1, RowFields DEF Alive, Live
<1>3. r \in Nat /\ s \in Nat /\ s \in 1 .. Len(rows)
  BY <1>1, <1>2 DEF Alive
<1>4. \A p, q \in Alive : p < q /\ rows[p].key = rows[q].key => commit.appended /\ q > commit.row_start
  BY DEF Distinct
<1>5. ASSUME s < r PROVE FALSE
  <2>1. commit.appended /\ r > commit.row_start
    BY <1>2, <1>4, <1>5
  <2> QED
    BY <1>1, <1>3, <2>1
<1>6. ASSUME r < s PROVE FALSE
  <2>1. commit.appended /\ s > commit.row_start /\ commit.row_start \in Nat
    BY <1>2, <1>4, <1>6, CommitFields
  <2>2. /\ Len(rows) = commit.row_start + Len(Chunks)
        /\ \A i \in 1 .. Len(Chunks) : rows[commit.row_start + i].key = Chunks[i]
    BY <2>1 DEF OneCommit, Appended
  <2> DEFINE i == s - commit.row_start
  <2>3. Chunks \in Seq(Keys) /\ Len(Chunks) \in Nat
    BY <1>1, TxnFields DEF Chunks
  <2>4. i \in 1 .. Len(Chunks) /\ commit.row_start + i = s
    BY <1>3, <2>1, <2>2, <2>3
  <2> HIDE DEF i
  <2>5. Chunks[i] = rows[r].key
    BY <2>2, <2>4
  <2>6. Contains(local_storage[T], rows[r].key)
    BY <2>3, <2>4, <2>5 DEF Contains, Chunks
  <2> QED
    BY <2>6 DEF Replaces
<1> QED
  BY <1>3, <1>5, <1>6

\* The revert of one more DeleteInfo.
LEMMA RevertCommitDeleteStep ==
    ASSUME TableInv, UndoCommitted, ~Replaces(T), NEW acc, NEW F, F \subseteq DeletedBy(T), Revert(acc, F),
           NEW k \in DOMAIN undo_buffer[T], undo_buffer[T][k] \cap F = {}
    PROVE  Revert(RevertCommitDelete(acc, undo_buffer[T][k]), F \cup undo_buffer[T][k])
<1> USE DEF TableInv
<1> DEFINE R == undo_buffer[T][k]
           E == EntriesOf(R)
           e == acc.entry
           type == GetIndexRemovalType(active_transaction_state[T], "REVERT_COMMIT")
           new == RemoveFromIndexes(e, type, E, active_checkpoint).entry
           error == RemoveFromIndexes(e, type, E, active_checkpoint).error
           next == RevertCommitDelete(acc, R)
           U == InUse \ F
           L == Live \cup F
           M == RemovedRows \ F
           N == (Live \cup F) \ Old
<1> SUFFICES Revert(next, F \cup R)
  OBVIOUS
<1>0. /\ EntriesOf(U \ R) = EntriesOf(U) \ EntriesOf(R)
      /\ EntriesOf(R) \subseteq EntriesOf(U) <=> R \subseteq U
      /\ EntriesOf(L \cup R) = EntriesOf(L) \cup EntriesOf(R)
      /\ EntriesOf(M \ R) = EntriesOf(M) \ EntriesOf(R)
      /\ EntriesOf(R \cap M) = EntriesOf(R) \cap EntriesOf(M)
      /\ EntriesOf(R \cap M) = {} <=> R \cap M = {}
      /\ EntriesOf(N \cup R) = EntriesOf(N) \cup EntriesOf(R)
  <2> HIDE DEF U, L, M, N, R
  <2>1. EntriesOf(U \ R) = EntriesOf(U) \ EntriesOf(R) /\ (EntriesOf(R) \subseteq EntriesOf(U) <=> R \subseteq U)
    BY EntriesAlgebra
  <2>2. EntriesOf(L \cup R) = EntriesOf(L) \cup EntriesOf(R)
    BY EntriesAlgebra
  <2>3. EntriesOf(M \ R) = EntriesOf(M) \ EntriesOf(R)
    BY EntriesAlgebra
  <2>4. EntriesOf(R \cap M) = EntriesOf(R) \cap EntriesOf(M)
    BY EntriesAlgebra
  <2>5. EntriesOf(R \cap M) = {} <=> R \cap M = {}
    BY EntriesAlgebra, ZenonT(30)
  <2>6. EntriesOf(N \cup R) = EntriesOf(N) \cup EntriesOf(R)
    BY EntriesAlgebra
  <2> QED
    BY <2>1, <2>2, <2>3, <2>4, <2>5, <2>6
<1>1. commit.pc = "undo" /\ commit.entries = Len(undo_buffer[T])
  BY DEF UndoCommitted
<1>2. /\ T \in Txns /\ T # NoTxn /\ T \in Running
      /\ \A r \in DeletedBy(T) : r \in RowIds /\ rows[r].deleter = T
  BY <1>1, RolledBackCommit DEF RollbackPCs
<1>3. /\ R \subseteq DeletedBy(T) /\ R \cap F = {} /\ R \subseteq RowIds
      /\ \A r \in R : rows[r].deleted = current_start_timestamp
  <2>1. R \subseteq DeletedBy(T)
    BY <1>2, DeletedRows, TxnFields
  <2>2. k <= commit.entries
    BY <1>1, <1>2, TxnFields
  <2>3. \A r \in R : rows[r].deleted = current_start_timestamp
    BY <1>1, <2>2 DEF Deletes
  <2> QED
    BY <1>2, <2>1, <2>3
<1>4. /\ current_start_timestamp \in Nat /\ current_start_timestamp # Never
      /\ last_commit < current_start_timestamp /\ last_commit \in Nat
      /\ Delta => checkpoint.id <= last_commit /\ checkpoint.id \in Nat
  BY CheckpointFields, Constants, DeltasInUse DEF Times
<1>5. type \in {"REVERT_MAIN_INDEX", "REVERT_MAIN_INDEX_ONLY"}
      /\ (type = "REVERT_MAIN_INDEX" <=> active_transaction_state[T] = "others")
  <2>1. active_transaction_state[T] \in {"none", "others"}
    BY <1>1, <1>2, TxnFields DEF Kept
  <2> QED
    BY <2>1 DEF GetIndexRemovalType
<1>6. e \in IndexEntries /\ e.last_written = entry.last_written /\ E \in Index
  BY <1>3, EntriesType DEF Revert
<1>7. UseDeltas(e, active_checkpoint) <=> Delta
  BY <1>6, DeltasInUse DEF UseDeltas
<1> HIDE DEF type
<1>8. Readded(e, type, E, UseDeltas(e, active_checkpoint), new, error)
  BY <1>5, <1>6, ReaddedToIndexes
<1>9. next.entry = new /\ next.error = (acc.error \/ error)
  BY DEF RevertCommitDelete, type
<1> HIDE DEF new, error
<1>10. /\ type = "REVERT_MAIN_INDEX" => R \subseteq InUse
       /\ type # "REVERT_MAIN_INDEX" => R \cap InUse = {}
  <2>1. type = "REVERT_MAIN_INDEX" => R \subseteq InUse
    BY <1>2, <1>3, <1>4, <1>5 DEF InUse
  <2>2. ASSUME type # "REVERT_MAIN_INDEX", NEW r \in R, r \in InUse PROVE FALSE
    <3>1. PICK t \in Txns : r \in DeletedBy(t) /\ active_transaction_state[t] = "others"
      BY <2>2 DEF InUse
    <3>2. rows[r].deleter = t
      BY <3>1, DeletedRows, TxnFields DEF Deletes
    <3>3. t = T
      BY <1>2, <1>3, <3>2
    <3> QED
      BY <1>5, <2>2, <3>1, <3>3
  <2> QED
    BY <2>1, <2>2
<1>11. Entries(new.deleted_rows_in_use) = EntriesOf(InUse \ (F \cup R))
  <2>1. Entries(e.deleted_rows_in_use) = EntriesOf(InUse \ F)
    BY DEF Revert
  <2>2. EntriesOf((InUse \ F) \ R) = EntriesOf(InUse \ F) \ EntriesOf(R)
    BY <1>0
  <2>3. (InUse \ F) \ R = InUse \ (F \cup R)
    OBVIOUS
  <2>4. type # "REVERT_MAIN_INDEX" => InUse \ F = InUse \ (F \cup R)
    BY <1>10
  <2> QED
    BY <1>8, <2>1, <2>2, <2>3, <2>4 DEF Readded
<1>12. type = "REVERT_MAIN_INDEX" => E \subseteq Entries(e.deleted_rows_in_use)
  <2>1. Entries(e.deleted_rows_in_use) = EntriesOf(InUse \ F)
    BY DEF Revert
  <2>2. type = "REVERT_MAIN_INDEX" => R \subseteq InUse \ F
    BY <1>3, <1>10
  <2>3. EntriesOf(R) \subseteq EntriesOf(InUse \ F) <=> R \subseteq InUse \ F
    BY <1>0
  <2> QED
    BY <2>1, <2>2, <2>3
<1>13. R \cap Live = {}
  BY <1>3, <1>4 DEF Live
<1>14. CASE ~Delta
  <2>1. e.index = EntriesOf(Live \cup F) /\ e.added = <<>> /\ e.removed = <<>>
    BY <1>14 DEF Revert
  <2>2. new.index = EntriesOf(Live \cup (F \cup R)) /\ new.added = <<>> /\ new.removed = <<>>
    <3>1. EntriesOf((Live \cup F) \cup R) = EntriesOf(Live \cup F) \cup EntriesOf(R)
      BY <1>0
    <3>2. (Live \cup F) \cup R = Live \cup (F \cup R)
      OBVIOUS
    <3> QED
      BY <1>7, <1>8, <1>14, <2>1, <3>1, <3>2 DEF Readded
  <2>3. ~AppendConflicts(e.index, E)
    <3>1. entry.removed = <<>>
      BY <1>14 DEF Indexed
    <3>2. \A r : EntryOf(r) \notin Entries(entry.removed)
      BY <3>1, Pointers
    <3>3. \A r \in R, s \in R \cup (Live \cup F) : rows[r].key = rows[s].key => r = s
      BY <1>1, <1>3, <3>2, RevertDistinct
    <3>4. R \cap (Live \cup F) = {}
      BY <1>3, <1>13
    <3> QED
      BY <2>1, <3>3, <3>4, NoAppendConflict
  <2>4. error = FALSE
    BY <1>7, <1>8, <1>12, <1>14, <2>3 DEF Readded
  <2>5. new \in IndexEntries /\ new.last_written = entry.last_written
    BY <1>6, <1>8 DEF Readded
  <2>6. (acc.error \/ error) = FALSE
    BY <2>4 DEF Revert
  <2>9. next.error = FALSE
    BY <1>9, <2>6, Zenon
  <2> HIDE DEF R, next
  <2> QED
    BY <1>9, <1>11, <1>14, <2>9, <2>2, <2>5, <2>6 DEF Revert
<1>15. CASE Delta
  <2>1. /\ e.index = entry.index /\ Entries(e.removed) = EntriesOf(RemovedRows \ F)
        /\ Entries(e.added) = EntriesOf((Live \cup F) \ Old) /\ (RowIds \subseteq Old \/ Exists(e.added))
    BY <1>15 DEF Revert
  <2>2. new.index = entry.index /\ Entries(new.removed) = EntriesOf(RemovedRows \ (F \cup R))
    <3>1. EntriesOf((RemovedRows \ F) \ R) = EntriesOf(RemovedRows \ F) \ EntriesOf(R)
      BY <1>0
    <3>2. (RemovedRows \ F) \ R = RemovedRows \ (F \cup R)
      OBVIOUS
    <3> QED
      BY <1>7, <1>8, <1>15, <2>1, <3>1, <3>2 DEF Readded
  <2>3. /\ E \cap Entries(e.removed) = EntriesOf(R \cap (RemovedRows \ F))
        /\ EntriesOf(R \cap (RemovedRows \ F)) = {} <=> R \cap (RemovedRows \ F) = {}
    <3>1. EntriesOf(R \cap (RemovedRows \ F)) = EntriesOf(R) \cap EntriesOf(RemovedRows \ F)
      BY <1>0
    <3>2. EntriesOf(R \cap (RemovedRows \ F)) = {} <=> R \cap (RemovedRows \ F) = {}
      BY <1>0
    <3> QED
      BY <2>1, <3>1, <3>2
  <2>4. R \subseteq Old \/ R \cap Old = {}
    BY <1>2, <1>15 DEF Split
  <2>5. /\ Entries(new.added) = EntriesOf((Live \cup (F \cup R)) \ Old) /\ E \cap Entries(e.removed) \in {{}, E}
        /\ E \cap Entries(e.removed) = {} => ~AppendConflicts(Entries(e.added), E)
    <3>1. CASE R \subseteq Old
      <4>1. R \subseteq RemovedRows \ F
        BY <1>3, <1>4, <1>15, <3>1 DEF RemovedRows
      <4>2. R \cap (RemovedRows \ F) = R
        BY <4>1
      <4>3. E \cap Entries(e.removed) = E
        BY <2>3, <4>2
      <4>4. (Live \cup (F \cup R)) \ Old = (Live \cup F) \ Old
        BY <3>1
      <4>5. Entries(new.added) = Entries(e.added)
        <5>1. Entries(e.added) \cup E = Entries(e.added) \/ E # {}
          OBVIOUS
        <5> HIDE DEF E
        <5> QED
          BY <1>7, <1>8, <1>15, <4>3, <5>1 DEF Readded
      <4>6. E = {} => ~AppendConflicts(Entries(e.added), E)
        BY DEF AppendConflicts
      <4> HIDE DEF E
      <4> QED
        BY <2>1, <4>3, <4>4, <4>5, <4>6
    <3>2. CASE R \cap Old = {} /\ R # {}
      <4>1. R \cap (RemovedRows \ F) = {}
        BY <3>2 DEF RemovedRows
      <4>2. E \cap Entries(e.removed) = {}
        BY <2>3, <4>1
      <4>3. Exists(e.added)
        BY <1>3, <2>1, <3>2
      <4>4. Entries(new.added) = Entries(e.added) \cup E
        BY <1>7, <1>8, <1>15, <4>2, <4>3 DEF Readded
      <4>5. EntriesOf(((Live \cup F) \ Old) \cup R) = EntriesOf((Live \cup F) \ Old) \cup EntriesOf(R)
        BY <1>0
      <4>6. ((Live \cup F) \ Old) \cup R = (Live \cup (F \cup R)) \ Old
        BY <3>2
      <4>7. \A r \in R : EntryOf(r) \notin Entries(entry.removed)
        <5>1. Entries(entry.removed) = EntriesOf(RemovedRows)
          BY <1>15 DEF Indexed, RemovedRows
        <5>2. \A r \in R : r \notin RemovedRows /\ EntryOf(r)[2] = r
          BY <3>2 DEF RemovedRows, EntryOf
        <5> QED
          BY <5>1, <5>2, InEntries
      <4>8. \A r \in R, s \in R \cup ((Live \cup F) \ Old) : rows[r].key = rows[s].key => r = s
        BY <1>1, <1>3, <4>7, RevertDistinct
      <4>9. R \cap ((Live \cup F) \ Old) = {}
        BY <1>3, <1>13
      <4>10. ~AppendConflicts(EntriesOf((Live \cup F) \ Old), EntriesOf(R))
        BY <4>8, <4>9, NoAppendConflict
      <4> QED
        BY <2>1, <4>2, <4>4, <4>5, <4>6, <4>10
    <3> QED
      BY <2>4, <3>1, <3>2
  <2>6. error = FALSE
    BY <1>7, <1>8, <1>12, <1>15, <2>5 DEF Readded
  <2>7. /\ new \in IndexEntries /\ new.last_written = entry.last_written
        /\ RowIds \subseteq Old \/ Exists(new.added)
    BY <1>6, <1>7, <1>8, <1>15, <2>1 DEF Readded
  <2>8. (acc.error \/ error) = FALSE
    BY <2>6 DEF Revert
  <2>9. next.error = FALSE
    BY <1>9, <2>8, Zenon
  <2> HIDE DEF R, next
  <2> QED
    BY <1>9, <1>11, <1>15, <2>9, <2>2, <2>5, <2>7, <2>8 DEF Revert
<1> QED
  BY <1>14, <1>15

\* The recursion of RevertCommit.
RevertStep(f) ==
    [i \in 0 .. Len(undo_buffer[T]) |-> IF i = 0 THEN [entry |-> entry, error |-> FALSE]
                                        ELSE RevertCommitDelete(f[i - 1], undo_buffer[T][i])]

\* There is a function that satisfies the recursion, up to every index: otherwise there is a
\* least one without it.
LEMMA RevertStepExists ==
    ASSUME Len(undo_buffer[T]) \in Nat
    PROVE  \E f : f = RevertStep(f)
<1> DEFINE Upto(f, k) == f = [i \in 0 .. k |-> IF i = 0 THEN [entry |-> entry, error |-> FALSE]
                                               ELSE RevertCommitDelete(f[i - 1], undo_buffer[T][i])]
           D == {k \in Nat : ~ \E f : Upto(f, k)}
<1>1. D = {}
  <2> SUFFICES ASSUME D # {} PROVE FALSE
    OBVIOUS
  <2>1. D \subseteq Nat
    OBVIOUS
  <2> HIDE DEF D
  <2>2. PICK k \in D : \A j \in D : ~(<<j, k>> \in OpToRel(<, Nat))
    BY <2>1, NatLessThanWellFounded, WFMin, Zenon
  <2>3. \A j \in D : ~(j < k)
    BY <2>1, <2>2 DEF OpToRel
  <2>4. k \in Nat /\ ~ \E f : Upto(f, k)
    BY DEF D
  <2>5. CASE k = 0
    <3>1. PICK f : f = [i \in 0 .. 0 |-> [entry |-> entry, error |-> FALSE]]
      OBVIOUS
    <3>2. Upto(f, 0)
      <4>1. \A i \in 0 .. 0 : i = 0
        OBVIOUS
      <4> QED
        BY <3>1, <4>1
    <3> QED
      BY <2>4, <2>5, <3>2
  <2>6. CASE k # 0
    <3>1. k - 1 \in Nat /\ k - 1 < k
      BY <2>4, <2>6
    <3>2. k - 1 \notin D
      BY <2>3, <3>1
    <3>3. PICK g : Upto(g, k - 1)
      BY <3>1, <3>2 DEF D
    <3>4. PICK f : f = [i \in 0 .. k |-> IF i = k THEN RevertCommitDelete(g[k - 1], undo_buffer[T][k]) ELSE g[i]]
      OBVIOUS
    <3>5. \A i \in 0 .. k : f[i] = IF i = 0 THEN [entry |-> entry, error |-> FALSE]
                                   ELSE RevertCommitDelete(f[i - 1], undo_buffer[T][i])
      <4> TAKE i \in 0 .. k
      <4>1. CASE i = k
        <5>1. f[k] = RevertCommitDelete(g[k - 1], undo_buffer[T][k])
          BY <2>4, <3>4
        <5>2. f[k - 1] = g[k - 1]
          BY <2>4, <2>6, <3>1, <3>4
        <5> QED
          BY <2>6, <4>1, <5>1, <5>2
      <4>2. CASE i # k
        <5>1. i \in 0 .. k - 1 /\ (i # 0 => i - 1 \in 0 .. k - 1 /\ i - 1 \in 0 .. k /\ i - 1 # k)
          BY <2>4, <4>2
        <5>2. f[i] = g[i] /\ (i # 0 => f[i - 1] = g[i - 1])
          BY <3>4, <4>2, <5>1
        <5>3. g[i] = IF i = 0 THEN [entry |-> entry, error |-> FALSE]
                     ELSE RevertCommitDelete(g[i - 1], undo_buffer[T][i])
          BY <3>3, <5>1
        <5> QED
          BY <5>2, <5>3
      <4> QED
        BY <4>1, <4>2
    <3>6. f = [i \in 0 .. k |-> f[i]]
      BY <3>4
    <3>7. Upto(f, k)
      BY <3>5, <3>6
    <3> QED
      BY <2>4, <3>7
  <2> QED
    BY <2>5, <2>6
<1>2. \E f : Upto(f, Len(undo_buffer[T]))
  BY <1>1
<1> QED
  BY <1>2 DEF RevertStep

\* FlushCommit fails: RevertCommit puts every delete of the commit back, without an error.  By
\* induction: otherwise there is a first DeleteInfo after which it is not so.
LEMMA FlushFailsInv ==
    ASSUME TableInv, FlushFails
    PROVE  TableInv'
<1> USE DEF TableInv
<1> DEFINE n == Len(undo_buffer[T])
           start == [entry |-> entry, error |-> FALSE]
<1>1. PICK f : /\ f = (CHOOSE g : g = RevertStep(g))
               /\ RollbackCommit(f[n].entry, f[n].error)
               /\ UndoCommitted /\ (Replaces(T) => "replace" \in behaviours)
  BY Zenon DEF FlushFails, RevertStep
<1>2. commit.pc = "undo" /\ commit.entries = n /\ ~Replaces(T)
  BY <1>1 DEF UndoCommitted, Regular
<1>3. T \in Txns /\ T \in Running /\ Pending = {} /\ n \in Nat /\ DOMAIN undo_buffer[T] = 1 .. n
  BY <1>2, RolledBackCommit, TxnFields DEF RollbackPCs
<1>4. f = RevertStep(f)
  BY <1>1, <1>3, RevertStepExists, Zenon
<1>5. f[0] = start /\ \A i \in 1 .. n : f[i] = RevertCommitDelete(f[i - 1], undo_buffer[T][i])
  <2>1. \A i \in 0 .. n : f[i] = IF i = 0 THEN start ELSE RevertCommitDelete(f[i - 1], undo_buffer[T][i])
    BY <1>4 DEF RevertStep
  <2>2. 0 \in 0 .. n /\ \A i \in 1 .. n : i \in 0 .. n /\ i # 0
    BY <1>3
  <2> HIDE DEF n, start
  <2> QED
    BY <2>1, <2>2
<1>6. FirstRows(0) = {} /\ FirstRows(n) = DeletedBy(T) /\ \A k \in 0 .. n : FirstRows(k) \subseteq DeletedBy(T)
  <2>1. \A r : r \in DeletedBy(T) <=> \E i \in 1 .. n : r \in undo_buffer[T][i]
    BY <1>3, DeletedRows, TxnFields
  <2>2. \A k \in 0 .. n : 1 .. k \subseteq 1 .. n
    BY <1>3
  <2> HIDE DEF n
  <2>3. FirstRows(n) = DeletedBy(T)
    BY <2>1 DEF FirstRows
  <2>4. \A k \in 0 .. n : FirstRows(k) \subseteq DeletedBy(T)
    BY <2>1, <2>2 DEF FirstRows
  <2>5. FirstRows(0) = {}
    BY DEF FirstRows
  <2> QED
    BY <2>3, <2>4, <2>5
<1>7. Revert(start, {})
  <2>1. start.entry = entry /\ start.error = FALSE
    OBVIOUS
  <2>2. entry \in IndexEntries
    BY DEF Types
  <2> HIDE DEF start
  <2>3. InUse \ {} = InUse /\ Live \cup {} = Live /\ RemovedRows \ {} = RemovedRows
    OBVIOUS
  <2>4. /\ Entries(entry.deleted_rows_in_use) = EntriesOf(InUse)
        /\ ~Delta => entry.index = EntriesOf(Live) /\ entry.added = <<>> /\ entry.removed = <<>>
        /\ Delta => /\ Entries(entry.removed) = EntriesOf(RemovedRows) /\ Entries(entry.added) = EntriesOf(Live \ Old)
                    /\ RowIds \subseteq Old \/ Exists(entry.added)
    BY <1>3 DEF Indexed, RemovedRows
  <2> QED
    BY <2>1, <2>2, <2>3, <2>4 DEF Revert
<1> HIDE DEF n, start
<1>8. \A k \in 0 .. n : Revert(f[k], FirstRows(k))
  <2> DEFINE D == {k \in 0 .. n : ~Revert(f[k], FirstRows(k))}
  <2> SUFFICES ASSUME D # {} PROVE FALSE
    OBVIOUS
  <2>1. D \subseteq Nat
    BY <1>3
  <2> HIDE DEF D
  <2>2. Min(D) \in D /\ \A j \in D : Min(D) <= j
    BY <2>1, LeastOfNats
  <2>3. PICK k \in 0 .. n : ~Revert(f[k], FirstRows(k)) /\ \A j \in D : k <= j
    BY <2>2 DEF D
  <2>4. k # 0
    BY <1>5, <1>6, <1>7, <2>3
  <2>5. k \in 1 .. n /\ k - 1 \in 0 .. n /\ k - 1 \in Nat /\ ~(k <= k - 1) /\ 1 .. k = (1 .. k - 1) \cup {k}
    BY <1>3, <2>4
  <2>6. Revert(f[k - 1], FirstRows(k - 1))
    BY <2>3, <2>5 DEF D
  <2>7. FirstRows(k) = FirstRows(k - 1) \cup undo_buffer[T][k]
    BY <2>5 DEF FirstRows
  <2>8. undo_buffer[T][k] \cap FirstRows(k - 1) = {}
    <3>1. \A i, j \in 1 .. n : i # j => undo_buffer[T][i] \cap undo_buffer[T][j] = {}
      BY <1>3 DEF Deletes
    <3>2. \A i \in 1 .. k - 1 : i \in 1 .. n /\ i # k
      BY <1>3, <2>5
    <3>3. \A i \in 1 .. k - 1 : undo_buffer[T][k] \cap undo_buffer[T][i] = {}
      BY <2>5, <3>1, <3>2
    <3> QED
      BY <3>3 DEF FirstRows
  <2>9. Revert(RevertCommitDelete(f[k - 1], undo_buffer[T][k]), FirstRows(k - 1) \cup undo_buffer[T][k])
    <3>1. FirstRows(k - 1) \subseteq DeletedBy(T) /\ k \in DOMAIN undo_buffer[T]
      BY <1>3, <1>6, <2>5
    <3> QED
      BY <1>1, <1>2, <2>6, <2>8, <3>1, RevertCommitDeleteStep
  <2> QED
    BY <1>5, <2>3, <2>5, <2>7, <2>9
<1>9. Revert(f[n], DeletedBy(T))
  BY <1>3, <1>6, <1>8
<1>10. Reverted(f[n].entry)
  BY <1>9 DEF Revert, Reverted, RemovedRows
<1>11. f[n].error = FALSE
  BY <1>9 DEF Revert
<1>12. RollbackCommit(f[n].entry, FALSE)
  BY <1>1, <1>11, Zenon DEF n
<1>13. commit.pc \in RollbackPCs
  BY <1>2 DEF RollbackPCs
<1> QED
  BY <1>10, <1>12, <1>13, RollbackCommitInv

-----------------------------------------------------------------------------
(* A checkpoint *)

\* What a step of a checkpoint that changes no row, transaction or timestamp leaves alone.
LEMMA CheckpointFrame ==
    ASSUME TableInv, UNCHANGED <<current_start_timestamp, last_commit, transactions, rows, row_groups, commit,
                                 behaviours>>
    PROVE  /\ Times' /\ OneCommit' /\ Deletes' /\ Ended' /\ Kept' /\ Distinct' /\ UniqueKeys' /\ Groups'
           /\ Regular'
           /\ TransactionTypes' /\ RowIds' = RowIds /\ T' = T /\ Chunks' = Chunks /\ Live' = Live /\ InUse' = InUse
           /\ Running' = Running /\ Pending' = Pending /\ TableLockShared' = TableLockShared
<1> USE DEF TableInv
<1>1. UNCHANGED <<status, start_time, commit_id, undo_buffer, local_storage, active_transaction_state, cleanup>>
  BY DEF transactions
<1>2. Times' /\ OneCommit' /\ Deletes' /\ Ended' /\ Kept'
  BY <1>1, FrameTimes, FrameOneCommit, FrameDeletes, FrameEnded, FrameKept
<1>3. Distinct' /\ UniqueKeys' /\ Groups' /\ Regular'
  BY <1>1, FrameDistinct, FrameUniqueKeys, FrameGroups, FrameRegular
<1>4. TransactionTypes'
  BY <1>1 DEF Types, TransactionTypes
<1>5. RowIds' = RowIds /\ T' = T /\ Chunks' = Chunks /\ Live' = Live /\ Running' = Running
  BY <1>1 DEF RowIds, T, Chunks, Live, Never, Running
<1>6. InUse' = InUse
  BY <1>1, <1>5 DEF InUse, DeletedBy, Never
<1>7. Pending' = Pending /\ TableLockShared' = TableLockShared
  BY <1>5 DEF Pending, TableLockShared
<1> QED
  BY <1>2, <1>3, <1>4, <1>5, <1>6, <1>7

\* A step of a checkpoint that leaves the indexes and the row groups of it alone.
LEMMA SameDeltas ==
    ASSUME TableInv, UNCHANGED <<transactions, rows, row_groups, commit, entry, require_new,
                                 last_seen_checkpoint, checkpoint_row_group_count>>,
           Delta' = Delta, Delta => checkpoint'.id = checkpoint.id
    PROVE  Split' /\ Indexed' /\ NoLateConflict'
<1> USE DEF TableInv
<1>1. UNCHANGED <<status, start_time, commit_id, undo_buffer, local_storage, active_transaction_state, cleanup>>
  BY DEF transactions
<1>2. /\ RowIds' = RowIds /\ T' = T /\ Chunks' = Chunks /\ Live' = Live /\ Running' = Running
      /\ TableLockShared' = TableLockShared /\ Never' = Never
  BY <1>1 DEF RowIds, T, Chunks, Live, Never, Running, TableLockShared
<1>3. InUse' = InUse /\ Pending' = Pending
  BY <1>1, <1>2 DEF InUse, DeletedBy, Pending
<1>4. Delta => Old' = Old
  BY <1>2 DEF Old
<1>5. Split'
  <2>1. \A r : NewGroup(r)' = NewGroup(r)
    BY DEF NewGroup
  <2> QED
    BY <1>1, <1>2, <1>4, <2>1 DEF Split
<1>6. Indexed'
  <2>1. EntriesOf(Live)' = EntriesOf(Live) /\ EntriesOf(InUse)' = EntriesOf(InUse)
    BY <1>2, <1>3 DEF EntriesOf, EntryOf
  <2> DEFINE D == {r \in Old : rows[r].deleted > checkpoint.id}
             D2 == {r \in Old : rows[r].deleted > checkpoint.id /\ rows[r].deleted # Never}
  <2>2. Delta => D' = D /\ D2' = D2 /\ (Live \ Old)' = Live \ Old
    BY <1>2, <1>4
  <2>3. \A S : {<<rows'[r].key, r>> : r \in S} = EntriesOf(S)
    BY EntriesKept
  <2>4. Delta => /\ EntriesOf(D)' = EntriesOf(D) /\ EntriesOf(D2)' = EntriesOf(D2)
                 /\ EntriesOf(Live \ Old)' = EntriesOf(Live \ Old)
    BY <1>2, <1>4, <2>2, <2>3 DEF EntriesOf, EntryOf
  <2> QED
    BY <1>2, <1>3, <1>4, <2>1, <2>4 DEF Indexed
<1>7. NoLateConflict'
  BY <1>1, <1>2 DEF NoLateConflict, DeletedBy
<1> QED
  BY <1>5, <1>6, <1>7

\* A CHECKPOINT statement only decides to checkpoint.
LEMMA CheckpointStatementInv ==
    ASSUME TableInv, CheckpointStatement
    PROVE  TableInv'
<1> USE DEF TableInv
<1>1. /\ checkpoint.pc = "idle" /\ checkpoint.left > 0 /\ wal
      /\ checkpoint' = [checkpoint EXCEPT !.pc = "decided", !.statement = TRUE]
      /\ UNCHANGED <<manager, transactions, table, entry, commit, wal, checkpoint_wal, fatal, behaviours>>
  BY DEF CheckpointStatement
<1>2. UNCHANGED <<current_start_timestamp, last_commit, active_checkpoint, rows, row_groups, require_new,
                  last_seen_checkpoint, checkpoint_row_group_count>>
  BY <1>1 DEF manager, table
<1>3. /\ Times' /\ OneCommit' /\ Deletes' /\ Ended' /\ Kept' /\ Distinct' /\ UniqueKeys' /\ Groups'
      /\ Regular' /\ TransactionTypes'
  BY <1>1, <1>2, CheckpointFrame
<1>4. /\ checkpoint'.pc = "decided" /\ checkpoint'.id = checkpoint.id /\ checkpoint'.left = checkpoint.left
      /\ checkpoint' \in CheckpointStates
  BY <1>1 DEF Types, CheckpointStates, CheckpointPCs
<1>5. Types'
  BY <1>1, <1>2, <1>3, <1>4 DEF Types, TableTypes
<1>6. Split' /\ Indexed' /\ NoLateConflict'
  <2>1. ~Delta /\ Delta' = Delta
    BY <1>1, <1>4 DEF Delta
  <2> QED
    BY <1>1, <1>2, <2>1, SameDeltas
<1>7. Written'
  BY <1>4 DEF Written
<1>8. CheckpointIds'
  BY <1>1, <1>2, <1>4 DEF CheckpointIds, Delta, WALSwitched, TableLockExclusive, Earlier
<1> QED
  BY <1>1, <1>3, <1>5, <1>6, <1>7, <1>8

\* DataTable::GetCheckpointLock is taken exclusively; no append holds it then.
LEMMA GetCheckpointLockInv ==
    ASSUME TableInv, GetCheckpointLock
    PROVE  TableInv'
<1> USE DEF TableInv
<1>1. /\ checkpoint.pc = "started" /\ ~TableLockShared
      /\ checkpoint' = [checkpoint EXCEPT !.pc = "table"]
      /\ UNCHANGED <<manager, transactions, table, entry, commit, wal, checkpoint_wal, fatal, behaviours>>
  BY DEF GetCheckpointLock
<1>2. UNCHANGED <<current_start_timestamp, last_commit, active_checkpoint, rows, row_groups, require_new,
                  last_seen_checkpoint, checkpoint_row_group_count>>
  BY <1>1 DEF manager, table
<1>3. /\ Times' /\ OneCommit' /\ Deletes' /\ Ended' /\ Kept' /\ Distinct' /\ UniqueKeys' /\ Groups'
      /\ Regular' /\ TransactionTypes' /\ TableLockShared' = TableLockShared
  BY <1>1, <1>2, CheckpointFrame
<1>4. /\ checkpoint'.pc = "table" /\ checkpoint'.id = checkpoint.id /\ checkpoint'.left = checkpoint.left
      /\ checkpoint' \in CheckpointStates
  BY <1>1 DEF Types, CheckpointStates, CheckpointPCs
<1>5. Types'
  BY <1>1, <1>2, <1>3, <1>4 DEF Types, TableTypes
<1>6. Delta /\ Delta'
  BY <1>1, <1>4 DEF Delta
<1>7. Split' /\ Indexed' /\ NoLateConflict'
  BY <1>1, <1>2, <1>4, <1>6, SameDeltas
<1>8. Written'
  BY <1>4 DEF Written
<1>9. CheckpointIds'
  BY <1>1, <1>2, <1>3, <1>4, <1>6 DEF CheckpointIds, WALSwitched, Earlier
<1> QED
  BY <1>1, <1>3, <1>5, <1>7, <1>8, <1>9

\* A checkpoint writes the index while the delta indexes take the changes of the commits.
LEMMA SerializeToDiskInv ==
    ASSUME TableInv, SerializeToDisk
    PROVE  TableInv'
<1> USE DEF TableInv
<1>1. /\ checkpoint.pc = "row_groups"
      /\ checkpoint' = [checkpoint EXCEPT !.pc = "tables_written", !.index = entry.index]
      /\ UNCHANGED <<manager, transactions, table, entry, commit, wal, checkpoint_wal, fatal, behaviours>>
  BY DEF SerializeToDisk
<1>2. UNCHANGED <<current_start_timestamp, last_commit, active_checkpoint, rows, row_groups, require_new,
                  last_seen_checkpoint, checkpoint_row_group_count>>
  BY <1>1 DEF manager, table
<1>3. /\ Times' /\ OneCommit' /\ Deletes' /\ Ended' /\ Kept' /\ Distinct' /\ UniqueKeys' /\ Groups'
      /\ Regular' /\ TransactionTypes' /\ RowIds' = RowIds
  BY <1>1, <1>2, CheckpointFrame
<1>4. /\ checkpoint'.pc = "tables_written" /\ checkpoint'.id = checkpoint.id /\ checkpoint'.left = checkpoint.left
      /\ checkpoint'.written = checkpoint.written /\ checkpoint'.index = entry.index
      /\ checkpoint' \in CheckpointStates
  BY <1>1, EntryFields DEF Types, CheckpointStates, CheckpointPCs
<1>5. Types'
  BY <1>1, <1>2, <1>3, <1>4 DEF Types, TableTypes
<1>6. Delta /\ Delta'
  BY <1>1, <1>4 DEF Delta
<1>7. Split' /\ Indexed' /\ NoLateConflict'
  BY <1>1, <1>2, <1>4, <1>6, SameDeltas
<1>8. Written'
  BY <1>1, <1>2, <1>3, <1>4 DEF Written, Old
<1>9. CheckpointIds'
  BY <1>1, <1>2, <1>4, <1>6 DEF CheckpointIds, WALSwitched, Earlier, TableLockExclusive
<1> QED
  BY <1>1, <1>3, <1>5, <1>7, <1>8, <1>9

\* The checkpoint WAL has the commits since the id of the checkpoint, if it has any.
LEMMA WALFinishCheckpointInv ==
    ASSUME TableInv, WALFinishCheckpoint
    PROVE  TableInv'
<1> USE DEF TableInv
<1>1. /\ checkpoint.pc = "tables_written" /\ wal' = checkpoint_wal /\ checkpoint_wal' = FALSE
      /\ checkpoint' = [checkpoint EXCEPT !.pc = "wal_finished"]
      /\ UNCHANGED <<manager, transactions, table, entry, commit, fatal, behaviours>>
  BY DEF WALFinishCheckpoint
<1>2. UNCHANGED <<current_start_timestamp, last_commit, active_checkpoint, rows, row_groups, require_new,
                  last_seen_checkpoint, checkpoint_row_group_count>>
  BY <1>1 DEF manager, table
<1>3. /\ Times' /\ OneCommit' /\ Deletes' /\ Ended' /\ Kept' /\ Distinct' /\ UniqueKeys' /\ Groups'
      /\ Regular' /\ TransactionTypes' /\ TableLockShared' = TableLockShared
  BY <1>1, <1>2, CheckpointFrame
<1>4. /\ checkpoint'.pc = "wal_finished" /\ checkpoint'.id = checkpoint.id /\ checkpoint'.left = checkpoint.left
      /\ checkpoint' \in CheckpointStates
  BY <1>1 DEF Types, CheckpointStates, CheckpointPCs
<1>5. Types'
  <2>1. wal' \in BOOLEAN /\ checkpoint_wal' \in BOOLEAN
    BY <1>1, Zenon DEF Types
  <2> QED
    BY <1>1, <1>2, <1>3, <1>4, <2>1 DEF Types, TableTypes
<1>6. Delta /\ Delta'
  BY <1>1, <1>4 DEF Delta
<1>7. Split' /\ Indexed' /\ NoLateConflict'
  BY <1>1, <1>2, <1>4, <1>6, SameDeltas
<1>8. Written'
  BY <1>4 DEF Written
<1>9. CheckpointIds'
  <2>1. checkpoint_wal => checkpoint.id < last_commit
    BY <1>1 DEF CheckpointIds, WALSwitched
  <2> QED
    BY <1>1, <1>2, <1>4, <1>6, <2>1 DEF CheckpointIds, WALSwitched, Earlier, TableLockExclusive
<1> QED
  BY <1>1, <1>3, <1>5, <1>7, <1>8, <1>9

\* A checkpoint has the rows of all commits before it; it is the first with its id.
LEMMA WALStartCheckpointInv ==
    ASSUME TableInv, WALStartCheckpoint
    PROVE  TableInv'
<1> USE DEF TableInv
<1>1. /\ checkpoint.pc = "decided" /\ commit.txn = NoTxn /\ active_checkpoint' = last_commit
      /\ checkpoint' = [checkpoint EXCEPT !.pc = "started", !.id = last_commit]
      /\ UNCHANGED <<current_start_timestamp, last_commit, transactions, table, entry, commit, wal,
                     checkpoint_wal, fatal, behaviours>>
  BY DEF WALStartCheckpoint
<1>2. UNCHANGED <<rows, row_groups, require_new, last_seen_checkpoint, checkpoint_row_group_count>>
  BY <1>1 DEF table
<1>3. /\ Times' /\ OneCommit' /\ Deletes' /\ Ended' /\ Kept' /\ Distinct' /\ UniqueKeys' /\ Groups'
      /\ Regular' /\ TransactionTypes' /\ RowIds' = RowIds /\ TableLockShared' = TableLockShared
      /\ Live' = Live /\ InUse' = InUse /\ Running' = Running /\ Pending' = Pending
  BY <1>1, <1>2, CheckpointFrame
<1>4. /\ last_commit \in Nat /\ last_commit < Infinity /\ last_commit \in Ids
      /\ last_seen_checkpoint \in Nat /\ entry.last_written \in Nat /\ current_start_timestamp \in Nat
  BY CheckpointFields, EntryFields, Constants DEF Times, Ids
<1>5. /\ checkpoint'.pc = "started" /\ checkpoint'.id = last_commit /\ checkpoint'.left = checkpoint.left
      /\ checkpoint' \in CheckpointStates
  BY <1>1, <1>4 DEF Types, CheckpointStates, CheckpointPCs
<1>6. Types'
  BY <1>1, <1>2, <1>3, <1>4, <1>5 DEF Types, TableTypes
<1>7. ~Delta /\ Delta' /\ commit = NoCommit /\ commit.pc = "none" /\ ~commit.appended /\ Pending = {}
  BY <1>1, <1>5 DEF Delta, OneCommit, NoCommit, Pending
<1>8. \A r \in RowIds : /\ rows[r].inserted <= last_commit /\ rows[r].deleted \in Nat
                        /\ rows[r].deleted > last_commit <=> rows[r].deleted = Never
  <2> TAKE r \in RowIds
  <2>1. rows[r].deleted \in Nat /\ (rows[r].deleted <= last_commit \/ rows[r].deleted = Never)
    BY <1>7, RowFields DEF Times
  <2>2. rows[r].inserted <= last_commit
    BY <1>7 DEF Times
  <2> QED
    BY <1>4, <2>1, <2>2, Constants
<1>9. Old' = RowIds
  BY <1>2, <1>3, <1>5, <1>8 DEF Old
<1>10. Earlier(entry.last_written, last_commit) /\ Earlier(last_seen_checkpoint, last_commit)
  BY <1>1 DEF CheckpointIds
<1>11. Split'
  <2>1. last_seen_checkpoint' # checkpoint'.id
    BY <1>2, <1>4, <1>5, <1>10 DEF Earlier
  <2>2. ~TableLockShared'
    BY <1>3, <1>7 DEF TableLockShared
  <2>3. \A t \in Running' : \A i \in DOMAIN undo_buffer'[t] : undo_buffer'[t][i] \subseteq Old'
    <3>1. \A t \in Txns : \A i \in DOMAIN undo_buffer[t] : undo_buffer[t][i] \subseteq RowIds
      BY DEF Deletes
    <3> QED
      BY <1>1, <1>3, <1>9, <3>1 DEF transactions, Running
  <2>4. RowIds' \subseteq Old'
    BY <1>3, <1>9
  <2> QED
    BY <2>1, <2>2, <2>3, <2>4 DEF Split
<1>12. Written'
  BY <1>5 DEF Written
<1>13. NoLateConflict'
  BY <1>1, <1>7 DEF NoLateConflict
<1>14. Indexed'
  <2>1. entry.index = EntriesOf(Live) /\ entry.added = <<>> /\ entry.removed = <<>>
        /\ Entries(entry.deleted_rows_in_use) = EntriesOf(InUse)
    BY <1>7 DEF Indexed
  <2>2. \A S : {<<rows'[r].key, r>> : r \in S} = EntriesOf(S)
    BY <1>2, EntriesKept
  <2>3. EntriesOf({r \in Old : rows[r].deleted > checkpoint.id})' = EntriesOf(Live)
    <3>1. {r \in Old : rows[r].deleted > checkpoint.id}' = Live
      BY <1>2, <1>5, <1>8, <1>9 DEF Live
    <3> QED
      BY <1>2, <3>1 DEF EntriesOf, EntryOf
  <2>4. EntriesOf({r \in Old : rows[r].deleted > checkpoint.id /\ rows[r].deleted # Never})' = {}
    <3>1. {r \in Old : rows[r].deleted > checkpoint.id /\ rows[r].deleted # Never}' = {}
      BY <1>2, <1>5, <1>8, <1>9 DEF Never
    <3> QED
      BY <3>1 DEF EntriesOf
  <2>5. EntriesOf(Live \ Old)' = {}
    <3>1. Live' \ Old' = {}
      BY <1>3, <1>9 DEF Live
    <3> QED
      BY <3>1 DEF EntriesOf
  <2>6. EntriesOf(InUse)' = EntriesOf(InUse)
    BY <1>2, <1>3 DEF EntriesOf, EntryOf
  <2>7. RowIds' \subseteq Old' /\ Pending' = {}
    BY <1>3, <1>7, <1>9
  <2>8. Entries(entry'.added) = {} /\ Entries(entry'.removed) = {}
    BY <1>1, <2>1, Pointers
  <2> QED
    BY <1>1, <1>7, <2>1, <2>3, <2>4, <2>5, <2>6, <2>7, <2>8 DEF Indexed
<1>15. CheckpointIds'
  <2>1. WALSwitched' /\ ~checkpoint_wal
    BY <1>1, <1>5 DEF WALSwitched, CheckpointIds
  <2>2. /\ \A x \in Nat : Earlier(x, last_commit) => Earlier(x, last_commit + 1)
    BY <1>4 DEF Earlier
  <2>3. ~TableLockExclusive' /\ ~TableLockShared'
    BY <1>3, <1>5, <1>7 DEF TableLockExclusive, TableLockShared
  <2> QED
    BY <1>1, <1>2, <1>4, <1>5, <1>7, <1>10, <2>1, <2>2, <2>3 DEF CheckpointIds
<1> QED
  BY <1>1, <1>3, <1>6, <1>11, <1>12, <1>13, <1>14, <1>15

\* The bind transaction of a checkpoint draws a start time.
LEMMA StartBindTransactionInv ==
    ASSUME TableInv, StartBindTransaction
    PROVE  TableInv'
<1> USE DEF TableInv
<1>1. /\ checkpoint.pc = "started" /\ commit.pc # "undo"
      /\ checkpoint' = [checkpoint EXCEPT !.bind = current_start_timestamp]
      /\ current_start_timestamp + 1 < Infinity /\ current_start_timestamp' = current_start_timestamp + 1
      /\ UNCHANGED <<last_commit, active_checkpoint, transactions, table, entry, commit, wal,
                     checkpoint_wal, fatal, behaviours>>
  BY DEF StartBindTransaction, TransactionLockFree, DrawTimestamp
<1>2. UNCHANGED <<status, start_time, commit_id, undo_buffer, local_storage, active_transaction_state, cleanup,
                  rows, row_groups, require_new, last_seen_checkpoint, checkpoint_row_group_count>>
  BY <1>1 DEF table, transactions
<1>3. /\ current_start_timestamp \in Nat /\ last_commit \in Nat /\ last_commit < current_start_timestamp
  BY CheckpointFields DEF Times
<1>4. /\ checkpoint'.pc = "started" /\ checkpoint'.id = checkpoint.id /\ checkpoint'.left = checkpoint.left
      /\ checkpoint' \in CheckpointStates
  BY <1>1, <1>3 DEF Types, CheckpointStates
<1>5. Types'
  BY <1>1, <1>2, <1>3, <1>4 DEF Types, TransactionTypes, TableTypes
<1>6. RowIds' = RowIds /\ T' = T /\ Running' = Running /\ \A t : DeletedBy(t)' = DeletedBy(t)
  BY <1>1, <1>2 DEF RowIds, T, Running, DeletedBy
<1>7. Times'
  <2>1. \A t \in Running : start_time[t] < current_start_timestamp /\ start_time[t] \in Nat
    BY TxnFields DEF Times, Running
  <2>2. \A t \in Running' : start_time'[t] < current_start_timestamp'
    BY <1>1, <1>2, <1>3, <1>6, <2>1
  <2>3. last_commit' < current_start_timestamp' /\ current_start_timestamp' < Infinity
    BY <1>1, <1>3
  <2> QED
    BY <1>1, <1>2, <1>6, <2>2, <2>3 DEF Times, Never
<1>8. OneCommit' /\ Ended' /\ Kept' /\ Distinct' /\ UniqueKeys' /\ Groups' /\ Regular'
  BY <1>1, <1>2, FrameOneCommit, FrameEnded, FrameKept, FrameDistinct, FrameUniqueKeys, FrameGroups, FrameRegular
<1>9. Deletes'
  BY <1>1, <1>2, <1>6 DEF Deletes, Never
<1>10. Delta' = Delta
  BY <1>1, <1>4 DEF Delta
<1>11. Split' /\ Indexed' /\ NoLateConflict'
  BY <1>1, <1>2, <1>4, <1>10, SameDeltas
<1>12. Written'
  BY <1>4 DEF Written
<1>13. CheckpointIds'
  BY <1>1, <1>2, <1>4, <1>10 DEF CheckpointIds, WALSwitched, Earlier, TableLockExclusive, TableLockShared
<1> QED
  BY <1>1, <1>5, <1>7, <1>8, <1>9, <1>11, <1>12, <1>13

\* Every row is in a row group.
LEMMA RowGroupOfRow ==
    ASSUME TableInv, NEW r \in RowIds
    PROVE  \E g \in 1 .. Len(row_groups) :
              r \in RowGroup(g) /\ \A h \in 1 .. Len(row_groups) : row_groups[h] <= r => h <= g
<1> USE DEF TableInv
<1> DEFINE n == Len(row_groups)
           S == {g \in 1 .. n : row_groups[g] <= r}
<1>1. n \in Nat /\ r \in Nat /\ r >= 1 /\ \A g \in 1 .. n : row_groups[g] \in Nat
  BY RowFields DEF RowId
<1>2. rows # <<>>
  <2>1. rows = <<>> => Len(rows) = 0
    OBVIOUS
  <2> QED
    BY <2>1, RowFields
<1>3. 1 \in 1 .. n /\ row_groups[1] = 1
  <2>1. row_groups # <<>> /\ row_groups[1] = 1 /\ row_groups \in Seq(Nat)
    BY <1>2 DEF Groups, Types, TableTypes
  <2>2. n # 0
    BY <2>1, EmptySeq
  <2> QED
    BY <1>1, <2>1, <2>2
<1>4. S # {} /\ S \subseteq 0 .. n
  BY <1>1, <1>3
<1> HIDE DEF S
<1>5. PICK g \in S : \A h \in S : g >= h
  BY <1>1, <1>4, GreatestOfNats
<1>6. g \in 1 .. n /\ row_groups[g] <= r
  BY DEF S
<1>7. \A h \in 1 .. n : row_groups[h] <= r => h <= g
  BY <1>5, <1>6 DEF S
<1>8. g < n => r < row_groups[g + 1]
  <2> SUFFICES ASSUME g < n PROVE r < row_groups[g + 1]
    OBVIOUS
  <2>1. g + 1 \in 1 .. n /\ ~(g + 1 <= g)
    BY <1>1, <1>6
  <2> QED
    BY <1>1, <1>7, <2>1
<1> QED
  BY <1>6, <1>7, <1>8 DEF RowGroup

\* The row groups that a checkpoint writes have the rows of its commits and no other row.
LEMMA CheckpointRowGroupsInv ==
    ASSUME TableInv, CheckpointRowGroups
    PROVE  TableInv'
<1> USE DEF TableInv
<1> DEFINE n == IF last_seen_checkpoint = checkpoint.id THEN checkpoint_row_group_count
                ELSE Len(row_groups)
           W == UNION {RowGroup(g) : g \in 1 .. n}
<1>1. /\ checkpoint.pc = "table"
      /\ checkpoint' = [checkpoint EXCEPT !.pc = "row_groups", !.written = W]
      /\ require_new' = FALSE
      /\ UNCHANGED <<manager, transactions, rows, row_groups, last_seen_checkpoint,
                     checkpoint_row_group_count, entry, commit, wal, checkpoint_wal, fatal, behaviours>>
  BY DEF CheckpointRowGroups
<1>2. UNCHANGED <<current_start_timestamp, last_commit, active_checkpoint>>
  BY <1>1 DEF manager
<1>3. /\ Times' /\ OneCommit' /\ Deletes' /\ Ended' /\ Kept' /\ Distinct' /\ UniqueKeys' /\ Groups'
      /\ Regular' /\ TransactionTypes' /\ RowIds' = RowIds /\ TableLockShared' = TableLockShared
      /\ Running' = Running
  BY <1>1, <1>2, CheckpointFrame
<1>4. Delta /\ ~TableLockShared
  BY <1>1 DEF Delta, CheckpointIds, TableLockExclusive
<1>5. /\ RowIds = 1 .. Len(rows) /\ Len(rows) \in Nat /\ RowIds \subseteq RowId /\ Len(row_groups) \in Nat
      /\ \A g \in 1 .. Len(row_groups) : row_groups[g] \in Nat
      /\ checkpoint_row_group_count \in Nat
  BY RowFields, CheckpointFields
<1>6. W = Old
  <2>1. Old \subseteq RowIds /\ W \subseteq RowIds
    BY DEF Old, RowGroup
  <2>2. CASE last_seen_checkpoint # checkpoint.id
    <3>1. RowIds \subseteq Old /\ n = Len(row_groups)
      BY <1>4, <2>2 DEF Split
    <3>2. RowIds \subseteq W
      BY <3>1, RowGroupOfRow
    <3> QED
      BY <2>1, <3>1, <3>2
  <2>3. CASE last_seen_checkpoint = checkpoint.id
    <3>1. /\ n = checkpoint_row_group_count /\ n <= Len(row_groups) /\ n \in Nat
          /\ \A r \in RowIds : r \in Old <=> ~(n < Len(row_groups) /\ r >= row_groups[n + 1])
      BY <1>4, <1>5, <2>3 DEF Split, NewGroup
    <3> HIDE DEF n
    <3>2. ASSUME NEW r \in Old PROVE r \in W
      <4>1. PICK g \in 1 .. Len(row_groups) :
                r \in RowGroup(g) /\ \A h \in 1 .. Len(row_groups) : row_groups[h] <= r => h <= g
        BY <2>1, RowGroupOfRow
      <4>2. r \in RowIds /\ r \in Nat /\ r >= row_groups[g]
        BY <1>5, <2>1, <4>1 DEF RowGroup
      <4>3. ASSUME n < g PROVE FALSE
        <5>1. n < Len(row_groups) /\ n + 1 \in 1 .. Len(row_groups) /\ (n + 1 = g \/ n + 1 < g)
          BY <1>5, <3>1, <4>3
        <5>2. row_groups[n + 1] <= row_groups[g]
          BY <1>5, <5>1 DEF Groups
        <5>3. r >= row_groups[n + 1]
          BY <1>5, <4>2, <5>1, <5>2
        <5> QED
          BY <3>1, <3>2, <4>2, <5>1, <5>3
      <4>4. g \in 1 .. n
        BY <1>5, <3>1, <4>3
      <4> QED
        BY <4>1, <4>4
    <3>3. ASSUME NEW r \in W PROVE r \in Old
      <4>1. PICK g \in 1 .. n : r \in RowGroup(g)
        OBVIOUS
      <4>2. r \in RowIds /\ r \in Nat /\ (g < Len(row_groups) => r < row_groups[g + 1])
        BY <1>5, <4>1 DEF RowGroup
      <4>3. ASSUME n < Len(row_groups) PROVE ~(r >= row_groups[n + 1])
        <5>1. /\ g < Len(row_groups) /\ g + 1 \in 1 .. Len(row_groups) /\ n + 1 \in 1 .. Len(row_groups)
              /\ (g + 1 = n + 1 \/ g + 1 < n + 1)
          BY <1>5, <3>1, <4>1, <4>3
        <5>2. row_groups[g + 1] <= row_groups[n + 1]
          BY <1>5, <5>1 DEF Groups
        <5> QED
          BY <1>5, <4>2, <5>1, <5>2
      <4> QED
        BY <3>1, <4>2, <4>3
    <3> QED
      BY <3>2, <3>3
  <2> QED
    BY <2>2, <2>3
<1> HIDE DEF W, n
<1>7. /\ checkpoint'.pc = "row_groups" /\ checkpoint'.id = checkpoint.id /\ checkpoint'.left = checkpoint.left
      /\ checkpoint'.written = Old /\ checkpoint' \in CheckpointStates
  <2>1. W \in SUBSET RowId
    BY <1>5, <1>6 DEF Old
  <2> QED
    BY <1>1, <1>6, <2>1 DEF Types, CheckpointStates, CheckpointPCs
<1>8. Types'
  <2>1. require_new' \in BOOLEAN
    BY <1>1
  <2> QED
    BY <1>1, <1>2, <1>3, <1>7, <2>1 DEF Types, TableTypes
<1>9. Delta' /\ Old' = Old
  BY <1>1, <1>3, <1>7 DEF Delta, Old
<1>10. Split'
  <2>1. \A r : NewGroup(r)' = NewGroup(r)
    BY <1>1 DEF NewGroup
  <2>2. undo_buffer' = undo_buffer
    BY <1>1 DEF transactions
  <2> QED
    BY <1>1, <1>3, <1>4, <1>7, <1>9, <2>1, <2>2 DEF Split
<1>11. Indexed' /\ NoLateConflict'
  <2>1. UNCHANGED <<status, start_time, commit_id, undo_buffer, local_storage, active_transaction_state, cleanup>>
    BY <1>1 DEF transactions
  <2>2. /\ T' = T /\ Chunks' = Chunks /\ Live' = Live /\ InUse' = InUse /\ Pending' = Pending /\ Never' = Never
    BY <1>1, <1>2, CheckpointFrame DEF Never
  <2>3. NoLateConflict'
    BY <1>1, <1>4, <2>1, <2>2 DEF NoLateConflict, DeletedBy
  <2>4. /\ EntriesOf(InUse)' = EntriesOf(InUse) /\ EntriesOf(Live \ Old)' = EntriesOf(Live \ Old)
        /\ EntriesOf({r \in Old : rows[r].deleted > checkpoint.id})' =
              EntriesOf({r \in Old : rows[r].deleted > checkpoint.id})
        /\ EntriesOf({r \in Old : rows[r].deleted > checkpoint.id /\ rows[r].deleted # Never})' =
              EntriesOf({r \in Old : rows[r].deleted > checkpoint.id /\ rows[r].deleted # Never})
    BY <1>1, <1>7, <1>9, <2>2 DEF EntriesOf, EntryOf
  <2>5. Indexed'
    BY <1>1, <1>3, <1>4, <1>9, <2>2, <2>4 DEF Indexed
  <2> QED
    BY <2>3, <2>5
<1>12. Written'
  BY <1>7, <1>9 DEF Written
<1>13. CheckpointIds'
  BY <1>1, <1>2, <1>3, <1>4, <1>7, <1>9 DEF CheckpointIds, WALSwitched, Earlier
<1> QED
  BY <1>1, <1>3, <1>8, <1>10, <1>11, <1>12, <1>13

\* The index without the removed entries and with the added ones has all rows.
LEMMA MergedEntries ==
    ASSUME TableInv, Delta
    PROVE  /\ Entries(entry.removed) \subseteq entry.index
           /\ entry.index \ Entries(entry.removed) = EntriesOf(Live \cap Old)
           /\ (entry.index \ Entries(entry.removed)) \cup Entries(entry.added) = EntriesOf(Live) \cup Pending
<1> USE DEF TableInv
<1> DEFINE D == {r \in Old : rows[r].deleted > checkpoint.id}
           D2 == {r \in Old : rows[r].deleted > checkpoint.id /\ rows[r].deleted # Never}
           A == Live \cap Old
           B == Live \ Old
<1>1. checkpoint.id \in Nat /\ checkpoint.id < Infinity
  BY DeltasInUse, CheckpointFields
<1>2. /\ entry.index = EntriesOf(D) /\ Entries(entry.removed) = EntriesOf(D2)
      /\ Entries(entry.added) = EntriesOf(B) \cup Pending
  BY DEF Indexed
<1>3. D2 \subseteq D /\ D \ D2 = A /\ A \cup B = Live
  <2>1. \A r \in Old : r \in RowIds /\ (rows[r].deleted = Never => rows[r].deleted > checkpoint.id)
    BY <1>1, Constants DEF Old
  <2> QED
    BY <2>1 DEF Live
<1> HIDE DEF D, D2, A, B
<1>4. EntriesOf(D \ D2) = EntriesOf(D) \ EntriesOf(D2) /\ (EntriesOf(D2) \subseteq EntriesOf(D) <=> D2 \subseteq D)
  BY EntriesAlgebra
<1>5. EntriesOf(A \cup B) = EntriesOf(A) \cup EntriesOf(B)
  BY EntriesAlgebra
<1>6. entry.index \ Entries(entry.removed) = EntriesOf(A) /\ Entries(entry.removed) \subseteq entry.index
  BY <1>2, <1>3, <1>4
<1>7. (entry.index \ Entries(entry.removed)) \cup Entries(entry.added) = EntriesOf(Live) \cup Pending
  BY <1>2, <1>3, <1>5, <1>6
<1> QED
  BY <1>6, <1>7 DEF A

\* The delta indexes are merged into the index, which has all rows again.
LEMMA MergeCheckpointDeltasInv ==
    ASSUME TableInv, MergeCheckpointDeltas
    PROVE  TableInv'
<1> USE DEF TableInv
<1> DEFINE kept == entry.index \ Entries(entry.removed)
<1>1. /\ checkpoint.pc = "wal_finished"
      /\ entry' = [entry EXCEPT !.index = kept \cup Entries(entry.added), !.removed = <<>>, !.added = <<>>,
                                !.last_written = checkpoint.id]
      /\ fatal' = \/ ~(Entries(entry.removed) \subseteq entry.index)
                  \/ \E e \in Entries(entry.added) : InsertCorrupts(kept, e[1])
      /\ checkpoint' = [checkpoint EXCEPT !.pc = "merged", !.written = {}, !.index = {}]
      /\ UNCHANGED <<manager, transactions, table, commit, wal, checkpoint_wal, behaviours>>
  BY DEF MergeCheckpointDeltas
<1>2. UNCHANGED <<current_start_timestamp, last_commit, active_checkpoint, rows, row_groups, require_new,
                  last_seen_checkpoint, checkpoint_row_group_count>>
  BY <1>1 DEF manager, table
<1>3. /\ Times' /\ OneCommit' /\ Deletes' /\ Ended' /\ Kept' /\ Distinct' /\ UniqueKeys' /\ Groups'
      /\ Regular' /\ TransactionTypes' /\ RowIds' = RowIds /\ TableLockShared' = TableLockShared
      /\ Live' = Live /\ InUse' = InUse /\ Pending' = Pending
  BY <1>1, <1>2, CheckpointFrame
<1>4. /\ checkpoint'.pc = "merged" /\ checkpoint'.id = checkpoint.id /\ checkpoint'.left = checkpoint.left
      /\ checkpoint' \in CheckpointStates
  BY <1>1, Pointers DEF Types, CheckpointStates, CheckpointPCs
<1>5. Delta /\ ~Delta' /\ checkpoint.id \in Nat /\ checkpoint.id < Infinity
  BY <1>1, <1>4, DeltasInUse, CheckpointFields DEF Delta
<1>6. Entries(entry.deleted_rows_in_use) = EntriesOf(InUse)
  BY DEF Indexed
<1>7. /\ Entries(entry.removed) \subseteq entry.index /\ kept = EntriesOf(Live \cap Old)
      /\ kept \cup Entries(entry.added) = EntriesOf(Live) \cup Pending
  BY <1>5, MergedEntries
<1>10. /\ entry'.index = EntriesOf(Live) \cup Pending /\ entry'.added = <<>> /\ entry'.removed = <<>>
       /\ entry'.deleted_rows_in_use = entry.deleted_rows_in_use /\ entry'.last_written = checkpoint.id
       /\ entry' \in IndexEntries
  <2>1. /\ entry'.index = kept \cup Entries(entry.added) /\ entry'.added = <<>> /\ entry'.removed = <<>>
        /\ entry'.deleted_rows_in_use = entry.deleted_rows_in_use /\ entry'.last_written = checkpoint.id
    BY <1>1 DEF Types, IndexEntries
  <2>2. kept \cup Entries(entry.added) \in Index
    BY EntryFields, Pointers DEF Index
  <2>3. checkpoint.id \in Ids /\ <<>> \in Ptrs
    BY CheckpointFields, Pointers
  <2> HIDE DEF kept
  <2>4. entry' \in IndexEntries
    BY <1>1, <2>2, <2>3 DEF Types, IndexEntries
  <2> QED
    BY <1>7, <2>1, <2>4
<1>11. fatal' = FALSE
  <2>2. ASSUME NEW key PROVE ~InsertCorrupts(kept, key)
    <3> DEFINE L == Lookup(kept, key)
    <3>1. L = {r \in Live \cap Old : rows[r].key = key}
      BY <1>7, LookupRows
    <3>2. \A r, s \in L : r = s
      <4> TAKE r, s \in L
      <4>1. /\ r \in Old /\ s \in Old /\ rows[r].key = rows[s].key
            /\ rows[r].deleted > checkpoint.id /\ rows[s].deleted > checkpoint.id
        BY <1>5, <3>1, Constants DEF Live
      <4> QED
        BY <1>5, <4>1, ImageDistinct
    <3> HIDE DEF L
    <3>3. ~(Cardinality(L) > 1)
      BY <3>2, AtMostOne
    <3> QED
      BY <3>3 DEF L, InsertCorrupts
  <2> HIDE DEF kept
  <2> QED
    BY <1>1, <1>7, <2>2
<1>12. Types'
  BY <1>1, <1>2, <1>3, <1>4, <1>10, <1>11 DEF Types, TableTypes
<1>13. Split' /\ NoLateConflict'
  BY <1>5 DEF Split, NoLateConflict
<1>14. Written'
  BY <1>4 DEF Written
<1>15. Indexed'
  <2>1. EntriesOf(Live)' = EntriesOf(Live) /\ EntriesOf(InUse)' = EntriesOf(InUse)
    BY <1>2, <1>3 DEF EntriesOf, EntryOf
  <2> QED
    BY <1>3, <1>5, <1>6, <1>10, <2>1 DEF Indexed
<1>16. CheckpointIds'
  <2>1. Earlier(entry'.last_written, last_commit' + 1)
    <3>1. checkpoint.id <= last_commit /\ last_commit \in Nat
      BY <1>1, CheckpointFields DEF CheckpointIds
    <3> QED
      BY <1>2, <1>5, <1>10, <3>1 DEF Earlier
  <2>2. active_checkpoint = checkpoint.id
    BY <1>1 DEF CheckpointIds
  <2>3. commit.pc = "indexes" => commit.checkpoint_id = active_checkpoint
    BY <1>5, <2>2 DEF CheckpointIds
  <2>4. ~WALSwitched' /\ ~WALSwitched /\ ~TableLockExclusive'
    BY <1>1, <1>4 DEF WALSwitched, TableLockExclusive
  <2> QED
    BY <1>1, <1>2, <1>4, <1>5, <1>10, <2>1, <2>2, <2>3, <2>4 DEF CheckpointIds
<1> QED
  BY <1>1, <1>3, <1>11, <1>12, <1>13, <1>14, <1>15, <1>16

\* The read-only transaction of a CHECKPOINT statement ends.
LEMMA CommitBindTransactionInv ==
    ASSUME TableInv, CommitBindTransaction
    PROVE  TableInv'
<1> USE DEF TableInv
<1> DEFINE S == {Infinity, active_checkpoint} \cup {start_time[u] : u \in Running}
           lowest == Min(S)
<1>1. /\ checkpoint.pc = "merged" /\ commit.pc # "undo"
      /\ current_start_timestamp + 1 < Infinity /\ current_start_timestamp' = current_start_timestamp + 1
      /\ last_commit' = current_start_timestamp
      /\ cleanup' = [u \in Txns |-> IF cleanup[u] = "stored" /\ commit_id[u] < lowest
                                    THEN "scheduled" ELSE cleanup[u]]
      /\ checkpoint' = [checkpoint EXCEPT !.bind = 0]
      /\ UNCHANGED <<active_checkpoint, status, start_time, commit_id, undo_buffer, local_storage,
                     active_transaction_state, table, entry, commit, wal, checkpoint_wal, fatal, behaviours>>
  BY DEF CommitBindTransaction, TransactionLockFree, DrawTimestamp
<1>2. UNCHANGED <<rows, row_groups, require_new, last_seen_checkpoint, checkpoint_row_group_count>>
  BY <1>1 DEF table
<1>3. \A u \in Running : lowest <= start_time[u] /\ start_time[u] \in Nat /\ lowest \in Nat
  <2>1. \A u \in Running : u \in Txns /\ start_time[u] \in Nat
    BY TxnFields DEF Running
  <2>2. S \subseteq Nat /\ S # {}
    BY <2>1, Constants, CheckpointFields
  <2> HIDE DEF S
  <2>3. Min(S) \in S /\ \A y \in S : Min(S) <= y
    BY <2>2, LeastOfNats
  <2>4. \A u \in Running : start_time[u] \in S
    BY DEF S
  <2> QED
    BY <2>1, <2>2, <2>3, <2>4
<1> HIDE DEF lowest, S
<1>4. /\ cleanup' \in [Txns -> {"none", "stored", "scheduled"}]
      /\ \A u \in Txns : /\ cleanup'[u] # "none" <=> cleanup[u] # "none"
                         /\ cleanup'[u] = "scheduled" => cleanup[u] = "scheduled" \/ commit_id[u] < lowest
  <2>1. cleanup \in [Txns -> {"none", "stored", "scheduled"}]
    BY DEF Types, TransactionTypes
  <2> QED
    BY <1>1, <2>1
<1>5. /\ last_commit \in Nat /\ current_start_timestamp \in Nat /\ last_commit < current_start_timestamp
      /\ last_commit' \in Nat /\ last_commit <= last_commit' /\ current_start_timestamp' \in Nat
      /\ last_commit' < current_start_timestamp' /\ current_start_timestamp' < Infinity
  <2>1. /\ last_commit \in Nat /\ current_start_timestamp \in Nat /\ last_commit < current_start_timestamp
    BY CheckpointFields DEF Times
  <2> QED
    BY <1>1, <2>1
<1>6. /\ checkpoint'.pc = "merged" /\ checkpoint'.id = checkpoint.id /\ checkpoint'.left = checkpoint.left
      /\ checkpoint' \in CheckpointStates
  BY <1>1 DEF Types, CheckpointStates
<1>7. Types'
  BY <1>1, <1>2, <1>4, <1>5, <1>6 DEF Types, TransactionTypes, TableTypes
<1>8. RowIds' = RowIds /\ T' = T /\ Running' = Running /\ Never' = Never /\ \A t : DeletedBy(t)' = DeletedBy(t)
  BY <1>1, <1>2 DEF RowIds, T, Running, DeletedBy, Never
<1>9. \A x \in Nat : x <= last_commit => x <= last_commit'
  <2>1. \A a, b, x \in Nat : a <= b => (x <= a => x <= b)
    OBVIOUS
  <2> QED
    BY <1>5, <2>1, Zenon
<1>10. \A r \in RowIds : rows[r].inserted \in Nat /\ rows[r].deleted \in Nat
  BY RowFields
<1>11. Times'
  <2>1. \A u \in Running' : start_time'[u] < current_start_timestamp'
    <3> TAKE u \in Running'
    <3>1. start_time[u] < current_start_timestamp /\ start_time[u] \in Nat
      BY <1>3, <1>8 DEF Times
    <3> QED
      BY <1>1, <1>5, <3>1
  <2>2. \A u \in Txns : commit_id'[u] <= last_commit'
    BY <1>1, <1>9, TxnFields DEF Times
  <2>3. \A r \in RowIds : \/ rows[r].inserted <= last_commit'
                          \/ rows[r].inserted = Infinity /\ commit.appended /\ r > commit.row_start
    BY <1>9, <1>10 DEF Times
  <2>4. \A r \in RowIds : rows[r].deleted <= last_commit' \/ rows[r].deleted = Never
    BY <1>1, <1>9, <1>10 DEF Times
  <2>5. \A r, s \in RowIds : r <= s => rows[r].inserted <= rows[s].inserted
    BY DEF Times
  <2> QED
    BY <1>1, <1>2, <1>5, <1>8, <2>1, <2>2, <2>3, <2>4, <2>5 DEF Times
<1>12. Deletes'
  <2>1. \A t \in Txns : \A i \in DOMAIN undo_buffer[t] : \A r \in undo_buffer[t][i] :
          r \in RowIds /\ rows[r].deleter = t /\ rows[r].inserted <= last_commit'
    BY <1>9, <1>10 DEF Deletes
  <2>2. \A t \in Txns, r \in RowIds : rows[r].deleter = t =>
          IF t \in Running
          THEN /\ r \in DeletedBy(t)
               /\ ~(t = T /\ commit.pc = "undo") => rows[r].deleted = Never
          ELSE status[t] = "done" /\ rows[r].deleted <= last_commit'
    BY <1>9, <1>10 DEF Deletes
  <2>3. /\ \A t \in Txns : \A i, j \in DOMAIN undo_buffer[t] :
               i # j => undo_buffer[t][i] \cap undo_buffer[t][j] = {}
        /\ \A r \in RowIds : rows[r].deleter = NoTxn => rows[r].deleted = Never
    BY DEF Deletes
  <2> QED
    BY <1>1, <1>2, <1>8, <2>1, <2>2, <2>3 DEF Deletes
<1>13. Ended'
  BY <1>1, <1>2, <1>4, <1>8 DEF Ended
<1>14. InUse' = InUse
  BY <1>1, <1>2, <1>8 DEF InUse
<1>15. Kept'
  <2>1. \A t \in Running, u \in Txns : cleanup'[u] = "scheduled" => commit_id[u] < start_time[t]
    <3> SUFFICES ASSUME NEW t \in Running, NEW u \in Txns, cleanup'[u] = "scheduled" PROVE commit_id[u] < start_time[t]
      OBVIOUS
    <3>1. CASE cleanup[u] = "scheduled"
      BY <3>1 DEF Kept
    <3>2. CASE commit_id[u] < lowest
      BY <1>3, <3>2, TxnFields
    <3> QED
      BY <1>4, <3>1, <3>2
  <2> QED
    BY <1>1, <1>2, <1>8, <1>14, <2>1 DEF Kept
<1>16. OneCommit' /\ Distinct' /\ UniqueKeys' /\ Groups' /\ Regular'
  BY <1>1, <1>2, FrameOneCommit, FrameDistinct, FrameUniqueKeys, FrameGroups, FrameRegular
<1>17. ~Delta /\ ~Delta'
  BY <1>1, <1>6 DEF Delta
<1>18. Split' /\ NoLateConflict'
  BY <1>17 DEF Split, NoLateConflict
<1>19. Written'
  BY <1>6 DEF Written
<1>20. Indexed'
  <2>1. EntriesOf(Live)' = EntriesOf(Live) /\ EntriesOf(InUse)' = EntriesOf(InUse)
    BY <1>2, <1>8, <1>14 DEF EntriesOf, EntryOf, Live
  <2>2. Pending' = Pending
    BY <1>1, <1>8 DEF Pending, Chunks
  <2> QED
    BY <1>1, <1>17, <2>1, <2>2 DEF Indexed
<1>21. CheckpointIds'
  <2>1. /\ checkpoint.id \in Nat /\ entry.last_written \in Nat /\ last_seen_checkpoint \in Nat
    BY CheckpointFields, EntryFields, Constants
  <2>2. \A x \in Nat : Earlier(x, last_commit + 1) => Earlier(x, last_commit' + 1)
    <3>1. \A a, b, x \in Nat : a <= b => (x < a + 1 => x < b + 1)
      OBVIOUS
    <3> QED
      BY <1>5, <3>1, Zenon DEF Earlier
  <2>3. checkpoint.id < last_commit'
    BY <1>1, <1>5, <2>1 DEF CheckpointIds
  <2>4. ~WALSwitched /\ ~WALSwitched' /\ ~TableLockExclusive'
    BY <1>1, <1>6 DEF WALSwitched, TableLockExclusive
  <2>5. checkpoint.id <= last_commit'
    BY <1>1, <1>5, <2>1 DEF CheckpointIds
  <2> QED
    BY <1>1, <1>2, <1>6, <1>17, <2>1, <2>2, <2>3, <2>4, <2>5 DEF CheckpointIds
<1> QED
  BY <1>1, <1>7, <1>11, <1>12, <1>13, <1>15, <1>16, <1>18, <1>19, <1>20, <1>21

\* A checkpoint has ended: a later one has another id, if there is something for it to write.
LEMMA ResetCheckpointIdInv ==
    ASSUME TableInv, ResetCheckpointId
    PROVE  TableInv'
<1> USE DEF TableInv
<1>1. /\ checkpoint.pc = "merged" /\ active_checkpoint' = Infinity
      /\ checkpoint' = [NoCheckpoint EXCEPT !.left = checkpoint.left - 1]
      /\ UNCHANGED <<current_start_timestamp, last_commit, transactions, table, entry, commit, wal,
                     checkpoint_wal, fatal, behaviours>>
  BY DEF ResetCheckpointId
<1>2. UNCHANGED <<rows, row_groups, require_new, last_seen_checkpoint, checkpoint_row_group_count>>
  BY <1>1 DEF table
<1>3. /\ Times' /\ OneCommit' /\ Deletes' /\ Ended' /\ Kept' /\ Distinct' /\ UniqueKeys' /\ Groups'
      /\ Regular' /\ TransactionTypes' /\ TableLockShared' = TableLockShared
  BY <1>1, <1>2, CheckpointFrame
<1>4. checkpoint.left - 1 \in Nat
  BY <1>1, CheckpointFields DEF Types
<1>5. checkpoint'.pc = "idle" /\ checkpoint' \in CheckpointStates
  <2>1. /\ checkpoint' = [pc |-> "idle", left |-> checkpoint.left - 1, statement |-> FALSE, id |-> 0, bind |-> 0,
                          written |-> {}, index |-> {}]
    BY <1>1 DEF NoCheckpoint
  <2>2. 0 \in Ids /\ {} \in Index /\ "idle" \in CheckpointPCs /\ {} \in SUBSET RowId
    BY Constants, Pointers DEF CheckpointPCs
  <2> QED
    BY <1>4, <2>1, <2>2 DEF CheckpointStates
<1>6. Types'
  BY <1>1, <1>2, <1>3, <1>5, Constants DEF Types, TableTypes
<1>7. Delta' = Delta /\ ~Delta
  BY <1>1, <1>5 DEF Delta
<1>8. Split' /\ Indexed' /\ NoLateConflict'
  BY <1>1, <1>2, <1>7, SameDeltas
<1>9. Written'
  BY <1>5 DEF Written
<1>10. CheckpointIds'
  <2>1. /\ checkpoint.id \in Nat /\ last_commit \in Nat /\ last_seen_checkpoint \in Nat
        /\ entry.last_written = checkpoint.id /\ active_checkpoint = checkpoint.id
        /\ Earlier(last_seen_checkpoint, checkpoint.id + 1) /\ (wal => checkpoint.id < last_commit)
    BY <1>1, CheckpointFields DEF CheckpointIds
  <2>2. wal => Earlier(entry.last_written, last_commit) /\ Earlier(last_seen_checkpoint, last_commit)
    <3>1. \A a, b, x \in Nat : a < b /\ x < a + 1 => x < b
      OBVIOUS
    <3> QED
      BY <2>1, <3>1, Zenon DEF Earlier
  <2>3. Earlier(entry.last_written, last_commit + 1) /\ Earlier(last_seen_checkpoint, last_commit + 1)
    BY DEF CheckpointIds
  <2>4. commit.pc = "indexes" => commit.checkpoint_id = entry.last_written
    <3>1. commit.pc = "indexes" => commit.checkpoint_id \in {active_checkpoint, entry.last_written}
      BY DEF CheckpointIds
    <3> QED
      BY <2>1, <3>1
  <2>5. ~WALSwitched' /\ ~TableLockExclusive' /\ ~checkpoint_wal
    BY <1>1, <1>5 DEF WALSwitched, TableLockExclusive, CheckpointIds
  <2>6. ~Delta'
    BY <1>7
  <2> QED
    BY <1>1, <1>2, <1>5, <2>2, <2>3, <2>4, <2>5, <2>6 DEF CheckpointIds
<1> QED
  BY <1>1, <1>3, <1>6, <1>8, <1>9, <1>10

-----------------------------------------------------------------------------
(* The invariant holds *)

\* The table as it is loaded.
LEMMA InitInv ==
    ASSUME Init, Regular
    PROVE  TableInv
<1>1. PICK keys \in InitialKeys : rows = [r \in DOMAIN keys |-> [NewRow(keys[r]) EXCEPT !.inserted = 0]]
  BY DEF Init
<1>2. keys \in Seq(Keys) /\ IsInjective(keys)
  BY <1>1, ConstantsAssumption
<1> DEFINE n == Len(keys)
<1>3. n \in Nat /\ DOMAIN keys = 1 .. n /\ \A r \in 1 .. n : keys[r] \in Keys
  BY <1>2
<1>4. \A r \in 1 .. n : rows[r] = [key |-> keys[r], inserted |-> 0, deleter |-> NoTxn, deleted |-> Never]
  <2>1. \A k : [NewRow(k) EXCEPT !.inserted = 0] = [key |-> k, inserted |-> 0, deleter |-> NoTxn, deleted |-> Never]
    BY DEF NewRow
  <2> QED
    BY <1>1, <1>3, <2>1
<1>5. \A r \in 1 .. n : rows[r] \in RowRecords
  <2>1. \A k \in Keys : [key |-> k, inserted |-> 0, deleter |-> NoTxn, deleted |-> Never] \in RowRecords
    BY Constants DEF RowRecords
  <2> HIDE DEF n
  <2> QED
    BY <1>3, <1>4, <2>1
<1>6. DOMAIN rows = 1 .. n /\ rows = [r \in 1 .. n |-> rows[r]]
  BY <1>1, <1>3
<1>7. rows \in Seq(RowRecords) /\ Len(rows) = n /\ RowIds = 1 .. n
  BY <1>3, <1>5, <1>6 DEF RowIds
<1>8. \A r \in RowIds : /\ rows[r].key = keys[r] /\ rows[r].inserted = 0 /\ rows[r].deleter = NoTxn
                        /\ rows[r].deleted = Never
  <2> TAKE r \in RowIds
  <2>1. r \in 1 .. n
    BY <1>7
  <2>2. rows[r] = [key |-> keys[r], inserted |-> 0, deleter |-> NoTxn, deleted |-> Never]
    BY <1>4, <2>1
  <2> QED
    BY <2>2
<1> HIDE DEF n
<1>9. /\ current_start_timestamp = 2 /\ last_commit = 0 /\ active_checkpoint = Infinity
      /\ status = [t \in Txns |-> "idle"]
      /\ start_time = [t \in Txns |-> 0] /\ commit_id = [t \in Txns |-> 0]
      /\ undo_buffer = [t \in Txns |-> <<>>] /\ local_storage = [t \in Txns |-> <<>>]
      /\ active_transaction_state = [t \in Txns |-> "unset"]
      /\ cleanup = [t \in Txns |-> "none"]
      /\ row_groups = RowGroupsFrom(1, n) /\ require_new = FALSE
      /\ last_seen_checkpoint = Infinity /\ checkpoint_row_group_count = 0
      /\ entry = [index |-> EntriesOf(RowIds), deleted_rows_in_use |-> <<>>,
                  added |-> <<>>, removed |-> <<>>, last_written |-> Infinity]
      /\ commit = NoCommit /\ wal = FALSE /\ checkpoint_wal = FALSE
      /\ checkpoint = [NoCheckpoint EXCEPT !.left = MaxCheckpoints] /\ fatal = FALSE
  BY <1>7 DEF Init
<1>10. /\ commit.txn = NoTxn /\ commit.pc = "none" /\ commit.appended = FALSE /\ T = NoTxn /\ commit \in CommitStates
  BY <1>9, Constants DEF NoCommit, T, CommitStates, CommitPCs
<1>11. checkpoint.pc = "idle" /\ checkpoint \in CheckpointStates
  <2>1. checkpoint = [pc |-> "idle", left |-> MaxCheckpoints, statement |-> FALSE, id |-> 0, bind |-> 0,
                      written |-> {}, index |-> {}]
    BY <1>9 DEF NoCheckpoint
  <2>2. /\ 0 \in Ids /\ {} \in Index /\ "idle" \in CheckpointPCs /\ {} \in SUBSET RowId /\ MaxCheckpoints \in Nat
    BY Constants, ConstantsAssumption, Pointers DEF CheckpointPCs
  <2> QED
    BY <2>1, <2>2 DEF CheckpointStates
<1>12. /\ Len(row_groups) \in Nat /\ row_groups \in Seq(Nat)
       /\ \A g \in 1 .. Len(row_groups) : row_groups[g] \in 1 .. n
       /\ \A g, h \in 1 .. Len(row_groups) : g < h => row_groups[g] < row_groups[h]
       /\ n >= 1 => row_groups # <<>> /\ row_groups[1] = 1
  <2>1. /\ row_groups \in Seq(Nat) /\ Len(row_groups) \in Nat
        /\ \A g \in 1 .. Len(row_groups) : row_groups[g] \in Nat /\ 1 <= row_groups[g] /\ row_groups[g] <= n
        /\ \A g, h \in 1 .. Len(row_groups) : g < h => row_groups[g] < row_groups[h]
        /\ 1 <= n => Len(row_groups) >= 1 /\ row_groups[1] = 1
    BY <1>3, <1>9, RowGroupsFromShape
  <2>2. row_groups = <<>> => Len(row_groups) = 0
    OBVIOUS
  <2> QED
    BY <1>3, <2>1, <2>2
<1>13. entry \in IndexEntries
  <2>1. EntriesOf(RowIds) \in Index
    <3>1. \A r \in RowIds : rows[r].key \in Keys /\ r \in RowId
      BY <1>3, <1>7, <1>8 DEF RowId
    <3> QED
      BY <3>1 DEF EntriesOf, EntryOf, Index
  <2> QED
    BY <1>9, <2>1, Pointers, Constants DEF IndexEntries
<1>14. Types
  <2>1. TransactionTypes
    BY <1>9 DEF TransactionTypes, Statuses
  <2>2. TableTypes
    BY <1>7, <1>9, <1>12, Constants DEF TableTypes
  <2> QED
    BY <1>9, <1>10, <1>11, <1>13, <2>1, <2>2, Constants DEF Types
<1>15. Running = {} /\ \A t \in Txns : undo_buffer[t] = <<>> /\ local_storage[t] = <<>> /\ cleanup[t] = "none"
                                       /\ status[t] = "idle" /\ commit_id[t] = 0
  BY <1>9 DEF Running
<1>16. Times
  BY <1>8, <1>9, <1>10, <1>15, Constants DEF Times
<1>17. OneCommit
  BY <1>9, <1>10 DEF OneCommit, Appended
<1>18. Deletes
  <2>1. NoTxn \notin Txns
    BY Constants
  <2> QED
    BY <1>8, <1>10, <1>15, <2>1 DEF Deletes
<1>19. Ended
  BY <1>15 DEF Ended
<1>20. Kept
  BY <1>10, <1>15 DEF Kept
<1>21. Distinct
  <2>1. \A r, s \in RowIds : rows[r].key = rows[s].key => r = s
    BY <1>2, <1>3, <1>7, <1>8 DEF IsInjective
  <2>2. \A r, s \in RowIds : ~(r < s /\ r = s)
    BY <1>3, <1>7
  <2>3. \A r, s \in Alive : ~(r < s /\ rows[r].key = rows[s].key)
    BY <2>1, <2>2 DEF Alive
  <2>4. \A t \in Txns : 1 .. Len(local_storage[t]) = {}
    BY <1>15
  <2> QED
    BY <1>10, <2>3, <2>4 DEF Distinct
<1>22. UniqueKeys
  <2>1. \A r, s \in RowIds : rows[r].key = rows[s].key => r = s
    BY <1>2, <1>3, <1>7, <1>8 DEF IsInjective
  <2> QED
    BY <2>1 DEF UniqueKeys
<1>23. Groups
  <2>1. rows # <<>> => n >= 1
    BY <1>3, <1>7, EmptySeq
  <2> QED
    BY <1>7, <1>12, <2>1 DEF Groups
<1>24. CheckpointIds
  <2>1. entry.last_written = Infinity
    BY <1>9
  <2> QED
    BY <1>9, <1>10, <1>11, <2>1 DEF CheckpointIds, WALSwitched, Earlier, Delta, TableLockExclusive
<1>25. ~Delta /\ Split /\ Written /\ NoLateConflict
  BY <1>11 DEF Delta, Split, Written, NoLateConflict
<1>26. Indexed
  <2>1. InUse = {} /\ Live = RowIds /\ Pending = {}
    BY <1>8, <1>10 DEF InUse, Live, Pending
  <2>2. entry.index = EntriesOf(RowIds) /\ entry.added = <<>> /\ entry.removed = <<>> /\ entry.deleted_rows_in_use = <<>>
    BY <1>9
  <2>3. EntriesOf({}) = {}
    BY DEF EntriesOf
  <2> QED
    BY <1>25, <2>1, <2>2, <2>3, Pointers DEF Indexed
<1> QED
  BY <1>9, <1>14, <1>16, <1>17, <1>18, <1>19, <1>20, <1>21, <1>22, <1>23, <1>24, <1>25, <1>26 DEF TableInv

\* Nothing happens.
LEMMA StutterInv ==
    ASSUME TableInv, UNCHANGED vars
    PROVE  TableInv'
<1>1. UNCHANGED <<current_start_timestamp, last_commit, active_checkpoint, status, start_time, commit_id,
                  undo_buffer, local_storage, active_transaction_state, cleanup, rows, row_groups, require_new,
                  last_seen_checkpoint, checkpoint_row_group_count, entry, commit, wal, checkpoint_wal,
                  checkpoint, fatal, behaviours>>
  BY DEF vars, manager, transactions, table
<1>2. Types'
  BY <1>1 DEF TableInv, Types, TransactionTypes, TableTypes
<1>3. Times' /\ OneCommit' /\ Deletes' /\ Ended' /\ Kept' /\ Distinct' /\ UniqueKeys' /\ Groups'
  BY <1>1, FrameTimes, FrameOneCommit, FrameDeletes, FrameEnded, FrameKept, FrameDistinct, FrameUniqueKeys,
     FrameGroups DEF TableInv
<1>4. CheckpointIds' /\ Split' /\ Written' /\ Indexed' /\ NoLateConflict' /\ Regular'
  BY <1>1, FrameCheckpointIds, FrameSplit, FrameWritten, FrameIndexed, FrameNoLateConflict, FrameRegular
     DEF TableInv
<1> QED
  BY <1>1, <1>2, <1>3, <1>4 DEF TableInv

\* Every step of a transaction, of a commit and of a checkpoint preserves the invariant.
LEMMA NextInv ==
    ASSUME TableInv, [Next]_vars
    PROVE  TableInv'
<1>1. CASE Checkpoint
  BY <1>1, CheckpointStatementInv, WALStartCheckpointInv, StartBindTransactionInv, GetCheckpointLockInv,
     CheckpointRowGroupsInv, SerializeToDiskInv, WALFinishCheckpointInv, MergeCheckpointDeltasInv,
     CommitBindTransactionInv, ResetCheckpointIdInv, Zenon DEF Checkpoint
<1>2. CASE CommitStep
  BY <1>2, AppendLockInv, GetActiveCheckpointInv, AppendToIndexesInv, AppendToTableInv, StartUndoCommitInv,
     CommitDeleteInv, FlushCommitInv, AppendFailsInv, WriteFailsInv, FlushFailsInv, Zenon DEF CommitStep
<1>3. ASSUME NEW t \in Txns, Statement(t) PROVE TableInv'
  <2>1. ASSUME NEW g \in DOMAIN row_groups, NEW R \in SUBSET RowGroup(g) \ {{}}, Delete(t, g, R) PROVE TableInv'
    BY <2>1, DeleteInv
  <2>2. ASSUME NEW key \in Keys, Insert(t, key) PROVE TableInv'
    BY <2>2, InsertInv
  <2> QED
    BY <1>3, <2>1, <2>2, StartTransactionInv, CommitReadOnlyInv, RollbackTransactionInv, BeginCommitInv,
       CleanupInv, Zenon DEF Statement
<1>4. CASE Terminating \/ UNCHANGED vars
  BY <1>4, StutterInv DEF Terminating
<1> QED
  BY <1>1, <1>2, <1>3, <1>4 DEF Next

\* In every state of a behaviour without the known deviations the rows, the undo buffers, the
\* indexes and their delta indexes are what TableInv says.
THEOREM TableInvariant == Spec /\ Regular => []TableInv
<1>1. Init /\ Regular => TableInv
  BY InitInv
<1>2. TableInv /\ [Next]_vars => TableInv'
  BY NextInv
<1> QED
  BY <1>1, <1>2, PTL DEF Spec

-----------------------------------------------------------------------------
(* What follows *)

\* The types that the runs check follow from those of the invariant.
LEMMA TypesOfVariables ==
    ASSUME TableInv
    PROVE  TypeOK
<1> USE DEF TableInv
<1>1. {current_start_timestamp, last_commit, active_checkpoint, last_seen_checkpoint,
       checkpoint_row_group_count} \subseteq Nat
  BY CheckpointFields
<1>2. \A t \in Txns :
        /\ status[t] \in {"idle", "active", "invalidated", "done"}
        /\ {start_time[t], commit_id[t]} \subseteq Nat
        /\ DeletedBy(t) \subseteq RowIds
        /\ Range(local_storage[t]) \subseteq Keys
        /\ active_transaction_state[t] \in {"unset", "none", "others"}
        /\ cleanup[t] \in {"none", "stored", "scheduled"}
  <2> TAKE t \in Txns
  <2>1. DeletedBy(t) \subseteq RowIds
    BY DeletedRows, TxnFields DEF Deletes
  <2>2. Range(local_storage[t]) \subseteq Keys
    BY TxnFields DEF Range
  <2> QED
    BY <2>1, <2>2, TxnFields DEF Statuses
<1>3. \A r \in RowIds : /\ rows[r].key \in Keys
                        /\ {rows[r].inserted, rows[r].deleted} \subseteq 0 .. Infinity
                        /\ rows[r].deleter \in Txns \cup {NoTxn}
  BY RowFields, Constants
<1>4. Range(row_groups) \subseteq RowIds
  BY RowFields DEF Range, Groups
<1>5. entry.index \in Index
  BY EntryFields
<1>6. \A ptr \in {entry.deleted_rows_in_use, entry.added, entry.removed} :
            Exists(ptr) => Len(ptr) = 1 /\ ptr[1] \in Index
  <2>1. \A E \in Index : Len(<<E>>) = 1 /\ <<E>>[1] = E
    OBVIOUS
  <2>2. \A ptr \in Ptrs : Exists(ptr) => \E E \in Index : ptr = <<E>>
    BY DEF Ptrs, Exists
  <2> QED
    BY <2>1, <2>2, EntryFields
<1>7. /\ commit.txn \in Txns \cup {NoTxn} /\ commit.pc \in CommitPCs /\ checkpoint.pc \in CheckpointPCs
  BY CommitFields, CheckpointFields
<1>8. {require_new, wal, checkpoint_wal, fatal} \subseteq BOOLEAN
  BY DEF Types, TableTypes
<1> QED
  BY <1>1, <1>2, <1>3, <1>4, <1>5, <1>6, <1>7, <1>8 DEF TypeOK, CommitPCs, CheckpointPCs

\* The index and the delta indexes together have the committed rows and no others between commits,
\* and deleted_rows_in_use the deleted rows that a cleanup will take out of it, and no others
\* (table_index_list.cpp, row_group_collection.cpp): whatever appends, deletes, rollbacks, failed
\* commits, cleanups and checkpoints came before, and in whatever order their steps were taken.
\* The types of the variables are part of it.
THEOREM IndexesAreExact == Spec /\ Regular => []IndexEntriesExact
<1>1. TableInv => IndexEntriesExact
  <2> SUFFICES ASSUME TableInv, commit.txn = NoTxn
               PROVE  /\ (entry.index \ Entries(entry.removed)) \cup Entries(entry.added) = EntriesOf(Live)
                      /\ Entries(entry.deleted_rows_in_use) =
                            UNION {DeleteIndex(t) : t \in {u \in Txns : /\ cleanup[u] # "none"
                                                                       /\ active_transaction_state[u] = "others"}}
    BY TypesOfVariables DEF IndexEntriesExact, Live
  <2> USE DEF TableInv
  <2>1. commit.pc = "none" /\ T = NoTxn /\ Pending = {}
    BY DEF OneCommit, NoCommit, T, Pending
  <2>2. (entry.index \ Entries(entry.removed)) \cup Entries(entry.added) = EntriesOf(Live)
    <3>1. CASE Delta
      BY <2>1, <3>1, MergedEntries
    <3>2. CASE ~Delta
      <4>1. entry.index = EntriesOf(Live) /\ Entries(entry.removed) = {} /\ Entries(entry.added) = {}
        BY <2>1, <3>2, Pointers DEF Indexed
      <4> QED
        BY <4>1
    <3> QED
      BY <3>1, <3>2
  <2> DEFINE U == {u \in Txns : cleanup[u] # "none" /\ active_transaction_state[u] = "others"}
  <2>3. InUse = UNION {DeletedBy(t) : t \in U}
    <3>1. ASSUME NEW r \in InUse PROVE \E t \in U : r \in DeletedBy(t)
      <4>1. PICK t \in Txns : r \in DeletedBy(t) /\ active_transaction_state[t] = "others" /\ rows[r].deleted # Never
        BY DEF InUse
      <4>2. r \in RowIds /\ rows[r].deleter = t /\ t # NoTxn
        BY <4>1, DeletedRows, TxnFields DEF Deletes
      <4>3. t \notin Running
        BY <2>1, <4>1, <4>2, RunningDeletes
      <4>4. status[t] = "done"
        BY <4>2, <4>3 DEF Deletes
      <4>5. undo_buffer[t] # <<>>
        BY <4>1, NoDeletedRows
      <4> QED
        BY <4>1, <4>4, <4>5 DEF Ended
    <3>2. ASSUME NEW t \in U, NEW r \in DeletedBy(t) PROVE r \in InUse
      <4>1. r \in RowIds
        BY DeletedRows, TxnFields DEF Deletes
      <4>2. rows[r].deleted = commit_id[t] /\ commit_id[t] <= last_commit /\ commit_id[t] \in Nat
        BY TxnFields DEF Ended, Times
      <4>3. last_commit < Infinity /\ last_commit \in Nat
        BY CheckpointFields, Constants DEF Times
      <4>4. rows[r].deleted # Never
        BY <4>2, <4>3, Constants
      <4> QED
        BY <4>1, <4>4 DEF InUse
    <3> QED
      BY <3>1, <3>2
  <2>4. EntriesOf(UNION {DeletedBy(t) : t \in U}) = UNION {DeleteIndex(t) : t \in U}
    <3> HIDE DEF U
    <3> QED
      BY DEF EntriesOf, DeleteIndex
  <2>5. Entries(entry.deleted_rows_in_use) = EntriesOf(InUse)
    BY DEF Indexed
  <2> QED
    BY <2>2, <2>3, <2>4, <2>5
<1> QED
  BY <1>1, TableInvariant, PTL

\* A scan of the index, of deleted_rows_in_use and of added finds every row that its transaction
\* sees (TryScanIndex): rows that others have deleted since, rows whose delete is being
\* committed or taken back, and rows that were appended during a checkpoint.
THEOREM IndexScansAreComplete == Spec /\ Regular => []IndexScanComplete
<1>1. TableInv => IndexScanComplete
  <2> SUFFICES ASSUME TableInv, NEW t \in Running, NEW r \in Visible(t)
               PROVE  EntryOf(r) \in entry.index \cup Entries(entry.deleted_rows_in_use) \cup Entries(entry.added)
    BY DEF IndexScanComplete, EntriesOf
  <2> USE DEF TableInv
  <2>1. /\ r \in RowIds /\ rows[r].deleter # t /\ ~(rows[r].deleted < start_time[t])
        /\ rows[r].deleted \in Nat /\ start_time[t] \in Nat
    BY RowFields, TxnFields DEF Visible, Running
  <2>2. \A S : r \in S => EntryOf(r) \in EntriesOf(S)
    BY DEF EntriesOf
  <2>3. CASE rows[r].deleted # Never
    <3>1. r \in InUse
      BY <2>1, <2>3 DEF Kept
    <3> QED
      BY <2>2, <3>1 DEF Indexed
  <2>4. CASE rows[r].deleted = Never
    <3>1. r \in Live
      BY <2>1, <2>4 DEF Live
    <3>2. CASE ~Delta
      BY <2>2, <3>1, <3>2 DEF Indexed
    <3>3. CASE Delta
      <4>1. checkpoint.id < Infinity /\ checkpoint.id \in Nat
        BY <3>3, DeltasInUse, CheckpointFields
      <4>2. rows[r].deleted > checkpoint.id
        BY <2>4, <4>1, Constants
      <4>3. CASE r \in Old
        BY <2>2, <3>3, <4>2, <4>3 DEF Indexed
      <4>4. CASE r \notin Old
        BY <2>2, <3>1, <3>3, <4>4 DEF Indexed
      <4> QED
        BY <4>3, <4>4
    <3> QED
      BY <3>2, <3>3
  <2> QED
    BY <2>3, <2>4
<1> QED
  BY <1>1, TableInvariant, PTL

\* A checkpoint writes the rows and the index as they were at its id, while commits append to
\* the table, delete from it and fail (DataTable::Checkpoint, FinalizeTable): nothing is lost
\* when the WAL before it is dropped, and nothing is applied again from the WAL after it.
THEOREM CheckpointImagesAreExact == Spec /\ Regular => []CheckpointImageExact
<1>1. TableInv => CheckpointImageExact
  <2> SUFFICES ASSUME TableInv, checkpoint.pc = "tables_written"
               PROVE  /\ checkpoint.written = Old
                      /\ checkpoint.index = EntriesOf({r \in Old : rows[r].deleted > checkpoint.id})
    BY DEF CheckpointImageExact, Old
  <2>1. Delta
    BY DEF Delta
  <2> QED
    BY <2>1 DEF TableInv, Written, Indexed
<1> QED
  BY <1>1, TableInvariant, PTL

\* No two rows of a key are ever visible together, although VerifyUniqueIndexes looks at the
\* index only and a commit that inserts appends to the delta indexes during a checkpoint.
THEOREM KeysAreUnique == Spec /\ Regular => []UniqueKeys
<1>1. TableInv => UniqueKeys
  BY DEF TableInv
<1> QED
  BY <1>1, TableInvariant, PTL

\* Index maintenance throws no InternalException or FatalException: every entry that a commit,
\* a revert, a merge or a cleanup takes out of an index is there, and every entry that is put
\* back does not conflict.
THEOREM NoIndexErrors == Spec /\ Regular => []NoIndexError
<1>1. TableInv => NoIndexError
  BY DEF TableInv, NoIndexError
<1> QED
  BY <1>1, TableInvariant, PTL
=============================================================================
