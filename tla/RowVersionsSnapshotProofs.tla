-------------------- MODULE RowVersionsSnapshotProofs --------------------
(***************************************************************************)
(* What the ids of a vector mean, for every size of the vector, number of  *)
(* transactions and number of checkpoints: checkpoints write what is       *)
(* committed, and the row versions implement SnapshotTable.                *)
(***************************************************************************)
EXTENDS RowVersionsProofs

\* Behaviours without the deviations that are known: a statement that deletes one row in two
\* chunks, an append of optimistic row groups, a restart after a commit that failed.
Regular ==
    /\ behaviours \cap {"repeat", "optimistic"} = {}
    /\ ~({"fail", "restart"} \subseteq behaviours)

-----------------------------------------------------------------------------
(* The invariant *)

Inserted == GetVectorInfo(version_info).inserted
Deleted == GetVectorInfo(version_info).deleted
ConstantInsert == GetVectorInfo(version_info).constant_insert
Unwritten == version_info.uncheckpointed_delete_commit

\* Start times and transaction ids come from the clocks, and transactions have ids of their own.
Clocks ==
    /\ \A t \in Running : /\ start_time[t] \in 2 .. current_start_timestamp - 1
                          /\ transaction_id[t] \in TRANSACTION_ID_START .. current_transaction_id - 1
    /\ \A t, u \in Running : transaction_id[t] = transaction_id[u] => t = u
    /\ checkpoint.bind # 0 => checkpoint.bind \in 2 .. current_start_timestamp - 1
    /\ \A t \in Txns : status[t] = "idle" => undo_buffer[t] = <<>>

\* An insert id has been drawn from a clock; no transaction started at it.
InsertId(r) ==
    /\ \/ Inserted[r] < current_start_timestamp
       \/ Inserted[r] \in TRANSACTION_ID_START .. current_transaction_id - 1
    /\ \A t \in Running : Inserted[r] # start_time[t]

\* A row in use is the append of a flushed transaction, or has been committed before it.
UsedRow(r) ==
    \/ \E t \in Txns : Flushed(t) /\ FirstRow(t) <= r /\ Inserted[r] = transaction_id[t]
    \/ Inserted[r] <= last_commit /\ \A t \in Txns : Flushed(t) => r < FirstRow(t)

InsertIds ==
    /\ \A r \in Rows : InsertId(r)
    /\ \A r \in 0 .. count - 1 : UsedRow(r)
    /\ \A r, s \in 0 .. count - 1 : r <= s => Inserted[r] <= Inserted[s]
    /\ \A t \in Txns : Flushed(t) => (ConstantInsert <=> FirstRow(t) = 0)

\* A delete is that of a committed row by a transaction that runs, or has been committed.
DeleteId(r) ==
    Deleted[r] # NOT_DELETED_ID =>
        /\ r < count /\ Inserted[r] <= last_commit
        /\ \/ Deleted[r] <= last_commit /\ \A t \in Running : Deleted[r] # start_time[t]
           \/ \E t \in Running : Deleted[r] = transaction_id[t] /\ r \in DeletedBy(t)

DeleteIds ==
    /\ \A r \in Rows : DeleteId(r)
    /\ \A t \in Running : \A r \in DeletedBy(t) : Deleted[r] = transaction_id[t]

\* A cleanup that may drop the vector drops nothing that a running transaction does not see.
CleanupSafe ==
    \A u \in Txns : cleanup[u] # NoCleanup /\ append_info[u] # <<>> /\ LastRow(u) = VectorSize - 1 =>
        /\ cleanup[u] <= TRANSACTION_ID_START
        /\ \A r \in Rows, v \in Running : Inserted[r] <= cleanup[u] => Inserted[r] < start_time[v]

\* lowest_active_start is below what runs; and what is below the value that a checkpoint has read
\* stays visible to all until it compresses.
SeenByAll(id) == id < current_start_timestamp /\ \A v \in Running : id < start_time[v]

LowestRead ==
    checkpoint.pc = "table" =>
        /\ \A r \in Rows : Inserted[r] < checkpoint.lowest => SeenByAll(Inserted[r])
        /\ \A r \in Rows : Deleted[r] # NOT_DELETED_ID /\ Deleted[r] < checkpoint.lowest =>
                                SeenByAll(Deleted[r])
        /\ \A u \in Running : undo_buffer[u] # <<>> => checkpoint.lowest <= start_time[u]

Lowest ==
    /\ lowest_active_start <= TRANSACTION_ID_START \/ current_transaction_id = TRANSACTION_ID_START
    /\ \A t \in Running : lowest_active_start <= start_time[t]
    /\ checkpoint.bind # 0 => lowest_active_start <= checkpoint.bind
    /\ LowestRead

\* The deletes that are in the file, as long as no append is reverted.
StoredInsert(r) ==
    \/ Inserted[r] <= last_commit
    \/ \E t \in Txns : /\ Flushed(t) /\ Inserted[r] = transaction_id[t]
                       /\ FirstRow(t) = 0 \/ r \in FirstRow(t) .. LastRow(t)

StoredDelete(r) ==
    Deleted[r] < TRANSACTION_ID_START =>
        IF Unwritten = Invalid THEN r \in version_info.storage ELSE Deleted[r] <= Unwritten

Stored ==
    "fail" \notin behaviours =>
        /\ \A r \in Rows : StoredInsert(r) /\ StoredDelete(r)
        /\ \A r \in version_info.storage : Deleted[r] < TRANSACTION_ID_START

\* A full checkpoint runs while nobody deletes.
FullAlone ==
    checkpoint.type = "full" /\ checkpoint.pc \in {"created"} \cup UnderWay =>
        \A t \in Running : undo_buffer[t] = <<>>

\* What a checkpoint is going to write, or has written, is the table at its id.
Exact == checkpoint.type = "full" \/ checkpoint.lowest <= checkpoint.id + 1

Image ==
    "fail" \notin behaviours =>
        /\ checkpoint.pc \in {"started", "table", "compressed"} =>
                \A r \in Rows : Inserted[r] <= checkpoint.id
        /\ checkpoint.pc \in {"started", "table"} \/ (checkpoint.pc = "compressed" /\ Exact) =>
                /\ checkpoint.rows = {r \in 0 .. count - 1 : ~(Deleted[r] <= checkpoint.id)}
                /\ \A r \in version_info.storage : Deleted[r] <= checkpoint.id
                /\ checkpoint.type = "full" =>
                    \A r \in Rows : Deleted[r] # NOT_DELETED_ID => Deleted[r] <= checkpoint.id
        /\ checkpoint.pc = "written" /\ Exact => Written = checkpoint.rows

VersionInv ==
    /\ Clocks /\ InsertIds /\ DeleteIds /\ CleanupSafe /\ Lowest /\ Stored /\ FullAlone /\ Image

-----------------------------------------------------------------------------
(* What follows from the types *)

\* The numbers.
Numeric ==
    /\ current_start_timestamp \in Nat /\ 2 <= current_start_timestamp
    /\ current_start_timestamp < TRANSACTION_ID_START
    /\ current_transaction_id \in Nat /\ TRANSACTION_ID_START <= current_transaction_id
    /\ current_transaction_id < NOT_DELETED_ID
    /\ last_commit \in Nat /\ last_commit < current_start_timestamp
    /\ TRANSACTION_ID_START \in Nat /\ NOT_DELETED_ID \in Nat /\ MAX_TRANSACTION_ID \in Nat
    /\ TRANSACTION_ID_START < NOT_DELETED_ID /\ NOT_DELETED_ID < MAX_TRANSACTION_ID
    /\ count \in 0 .. VectorSize /\ VectorSize \in Nat /\ 1 <= VectorSize
    /\ Rows = 0 .. VectorSize - 1
    /\ lowest_active_start \in Nat /\ active_checkpoint \in Nat
    /\ checkpoint.id \in Nat /\ checkpoint.bind \in Nat /\ checkpoint.lowest \in Nat
    /\ Unwritten \in Nat

\* They have their types.
LEMMA Numbers ==
    ASSUME ShapeInv
    PROVE  Numeric
<1>1. Types
  BY DEF ShapeInv
<1>2. lowest_active_start \in Ids /\ active_checkpoint \in Ids /\ count \in 0 .. VectorSize
      /\ last_commit \in Nat /\ last_commit < current_start_timestamp
  BY <1>1 DEF Types
<1>3. checkpoint.id \in Nat /\ checkpoint.bind \in Nat /\ checkpoint.lowest \in Ids
  BY <1>1, BindValues
<1>4. Unwritten \in Ids
  BY ManagerFields DEF ShapeInv, Unwritten
<1> QED
  BY <1>2, <1>3, <1>4, Bounds, Constants DEF Numeric

\* The functions.
Typed ==
    /\ Inserted \in [Rows -> Nat] /\ Deleted \in [Rows -> Nat] /\ ConstantInsert \in BOOLEAN
    /\ \A r \in Rows : Deleted[r] <= MAX_TRANSACTION_ID
    /\ ConstantInsert => \A r \in Rows : Inserted[r] = Inserted[0]
    /\ VectorSize = 1 => ConstantInsert
    /\ start_time \in [Txns -> Nat] /\ transaction_id \in [Txns -> Nat]
    /\ cleanup \in [Txns -> Nat] /\ status \in [Txns -> Statuses]
    /\ version_info.storage \subseteq Rows
    /\ Running \subseteq Txns

\* They have their types.
LEMMA Functions ==
    ASSUME ShapeInv
    PROVE  Typed
<1> PICK info : info = GetVectorInfo(version_info)
  OBVIOUS
<1>1. Shape(info) /\ info \in VectorInfos /\ version_info.storage \subseteq Rows
  BY ManagerFields DEF ShapeInv
<1>2. /\ info.inserted \in [Rows -> Ids] /\ info.deleted \in [Rows -> Ids]
      /\ info.constant_insert \in BOOLEAN
      /\ info.constant_insert => \A r \in Rows : info.inserted[r] = info.inserted[0]
      /\ VectorSize = 1 => info.constant_insert
  BY <1>1, InfoFields DEF Shape
<1>3. /\ start_time \in [Txns -> Nat] /\ cleanup \in [Txns -> Ids] /\ status \in [Txns -> Statuses]
      /\ transaction_id \in [Txns -> {0} \cup TRANSACTION_ID_START .. NOT_DELETED_ID - 1]
  BY DEF ShapeInv, Types
<1>4. Ids = 0 .. MAX_TRANSACTION_ID /\ Ids \subseteq Nat /\ MAX_TRANSACTION_ID \in Nat
      /\ {0} \cup TRANSACTION_ID_START .. NOT_DELETED_ID - 1 \subseteq Nat
  BY Constants
<1>5. info.inserted \in [Rows -> Nat] /\ info.deleted \in [Rows -> Nat] /\ cleanup \in [Txns -> Nat]
      /\ transaction_id \in [Txns -> Nat]
  BY <1>2, <1>3, <1>4
<1>6. \A r \in Rows : info.deleted[r] <= MAX_TRANSACTION_ID
  BY <1>2, <1>4
<1>7. Running \subseteq Txns
  BY DEF Running
<1> QED
  BY <1>1, <1>2, <1>3, <1>5, <1>6, <1>7 DEF Inserted, Deleted, ConstantInsert, Typed

\* Transactions that run.
LEMMA RunningIds ==
    ASSUME ShapeInv, Clocks, NEW t \in Running
    PROVE  /\ t \in Txns /\ start_time[t] \in Nat /\ transaction_id[t] \in Nat
           /\ 2 <= start_time[t] /\ start_time[t] < current_start_timestamp
           /\ TRANSACTION_ID_START <= transaction_id[t] /\ transaction_id[t] < current_transaction_id
           /\ transaction_id[t] < NOT_DELETED_ID
           /\ DeletedBy(t) \subseteq Rows
<1>1. /\ start_time[t] \in 2 .. current_start_timestamp - 1
      /\ transaction_id[t] \in TRANSACTION_ID_START .. current_transaction_id - 1
  BY DEF Clocks
<1>2. t \in Txns
  BY DEF Running
<1>3. /\ current_start_timestamp \in Nat /\ current_transaction_id \in Nat /\ TRANSACTION_ID_START \in Nat
      /\ NOT_DELETED_ID \in Nat /\ current_transaction_id < NOT_DELETED_ID
  BY Numbers DEF Numeric
<1>4. DeletedBy(t) \subseteq Rows
  BY <1>2, DeletedRowsOf DEF ShapeInv
<1> QED
  BY <1>1, <1>2, <1>3, <1>4

\* The append of a transaction.
LEMMA AppendRows ==
    ASSUME ShapeInv, NEW t \in Txns, append_info[t] # <<>>
    PROVE  /\ FirstRow(t) \in Rows /\ LastRow(t) \in Rows
           /\ FirstRow(t) \in Nat /\ LastRow(t) \in Nat
           /\ FirstRow(t) <= LastRow(t) /\ LastRow(t) < count
<1>1. append_info[t] \in Rows \X Rows
  BY DEF ShapeInv, Types
<1> QED
  BY <1>1, Constants DEF ShapeInv, Appends, Appended, FirstRow, LastRow

\* A flushed transaction is alone with that, and runs.
LEMMA FlushedAlone ==
    ASSUME ShapeInv, NEW t \in Txns, Flushed(t)
    PROVE  /\ t \in Running /\ append_info[t] # <<>> /\ LastRow(t) = count - 1
           /\ version_info.vector_info # NoInfo /\ checkpoint.pc \notin UnderWay
           /\ \A u \in Txns \ {t} : ~Flushed(u) /\ (append_info[u] # <<>> => LastRow(u) < FirstRow(t))
  BY DEF ShapeInv, Appends, LastAppend, Flushed, Running

\* If an append has reached the end of the vector, nothing is flushed but not committed and every
\* row is in use.
LEMMA FullVector ==
    ASSUME ShapeInv, InsertIds, NEW u \in Txns, cleanup[u] # NoCleanup, append_info[u] # <<>>,
           LastRow(u) = VectorSize - 1
    PROVE  /\ count = VectorSize /\ \A t \in Txns : ~Flushed(t)
           /\ \A r \in Rows : Inserted[r] <= last_commit
<1>1. count = VectorSize
  BY AppendRows, Numbers, SMTT(30) DEF Numeric
<1>2. status[u] = "done"
  BY DEF ShapeInv, Appends, CleanupPending
<1>3. ASSUME NEW t \in Txns, Flushed(t) PROVE FALSE
  <2>1. t # u
    BY <1>2, <1>3 DEF Flushed
  <2>2. append_info[t] # <<>> /\ LastRow(u) < FirstRow(t)
    BY <1>3, <2>1, FlushedAlone
  <2>3. FirstRow(t) \in Rows
    BY <2>2, AppendRows
  <2> QED
    BY <2>2, <2>3, Numbers DEF Numeric
<1>4. \A r \in Rows : UsedRow(r)
  BY <1>1, Numbers DEF InsertIds, Numeric
<1> QED
  BY <1>1, <1>3, <1>4 DEF UsedRow

-----------------------------------------------------------------------------
(* VersionInv is inductive: steps that leave the ids alone *)

\* Initially.
LEMMA InitVersions == Init => VersionInv
<1> SUFFICES ASSUME Init PROVE VersionInv
  OBVIOUS
<1>1. ShapeInv
  BY InitShape
<1>0. Numeric /\ Typed
  BY <1>1, Numbers, Functions
<1>2. /\ Running = {} /\ \A t \in Txns : ~Flushed(t)
      /\ \A t \in Txns : cleanup[t] = NoCleanup /\ undo_buffer[t] = <<>>
  BY DEF Init, Running, Flushed
<1>3. checkpoint.pc = "idle" /\ checkpoint.bind = 0
  BY DEF Init, Idle
<1>4. GetVectorInfo(version_info) = NewInfo(0)
  BY DEF Init, GetVectorInfo
<1>5. Inserted = [r \in Rows |-> 0] /\ Deleted = [r \in Rows |-> NOT_DELETED_ID]
  BY <1>4 DEF NewInfo, Inserted, Deleted
<1>6. Clocks
  BY <1>2, <1>3 DEF Clocks
<1>7. InsertIds
  <2>1. \A r \in 0 .. count - 1 : r \in Rows
    BY <1>0, <1>1 DEF Numeric
  <2> QED
    BY <1>0, <1>1, <1>2, <1>5, <2>1 DEF InsertIds, InsertId, UsedRow, Numeric
<1>8. DeleteIds
  BY <1>2, <1>5 DEF DeleteIds, DeleteId
<1>9. CleanupSafe
  BY <1>2 DEF CleanupSafe
<1>10. Lowest
  BY <1>2, <1>3 DEF Lowest, LowestRead, Init
<1>11. Stored
  <2>1. \A r \in Rows : StoredInsert(r) /\ StoredDelete(r)
    BY <1>0, <1>1, <1>5 DEF StoredInsert, StoredDelete, Numeric
  <2> QED
    BY <2>1 DEF Stored, Init
<1>12. FullAlone /\ Image
  BY <1>2, <1>3 DEF FullAlone, Image
<1> QED
  BY <1>6, <1>7, <1>8, <1>9, <1>10, <1>11, <1>12 DEF VersionInv

\* A transaction starts.
LEMMA StartTransactionVersions ==
    ASSUME ShapeInv, ShapeInv', VersionInv, NEW t \in Txns, StartTransaction(t)
    PROVE  VersionInv'
<1>0. Numeric /\ Typed
  BY Numbers, Functions
<1>1. Clocks /\ InsertIds /\ DeleteIds /\ CleanupSafe /\ Lowest /\ Stored /\ FullAlone /\ Image
  BY DEF VersionInv
<1>2. /\ status' = [status EXCEPT ![t] = "active"] /\ status[t] = "idle"
      /\ start_time' = [start_time EXCEPT ![t] = current_start_timestamp]
      /\ transaction_id' = [transaction_id EXCEPT ![t] = current_transaction_id]
      /\ current_start_timestamp' = current_start_timestamp + 1
      /\ current_transaction_id' = current_transaction_id + 1
      /\ checkpoint' = checkpoint /\ version_info' = version_info /\ count' = count
      /\ append_info' = append_info /\ cleanup' = cleanup /\ undo_buffer' = undo_buffer
      /\ last_commit' = last_commit /\ behaviours' = behaviours
      /\ lowest_active_start' = IF ActiveStarts = {} THEN current_start_timestamp ELSE lowest_active_start
  BY DEF StartTransaction
<1>3. /\ Inserted' = Inserted /\ Deleted' = Deleted /\ ConstantInsert' = ConstantInsert
      /\ Unwritten' = Unwritten /\ Written' = Written
  BY <1>2 DEF Inserted, Deleted, ConstantInsert, Unwritten, Written
<1>4. /\ \A u \in Txns \ {t} : /\ status'[u] = status[u] /\ start_time'[u] = start_time[u]
                              /\ transaction_id'[u] = transaction_id[u]
      /\ status'[t] = "active" /\ start_time'[t] = current_start_timestamp
      /\ transaction_id'[t] = current_transaction_id
  BY <1>0, <1>2 DEF Typed
<1>5. /\ Running' = Running \cup {t} /\ t \notin Running
      /\ \A u \in Txns : Flushed(u)' <=> Flushed(u)
      /\ \A u \in Txns : FirstRow(u)' = FirstRow(u) /\ LastRow(u)' = LastRow(u) /\ DeletedBy(u)' = DeletedBy(u)
      /\ \A u \in Txns : Flushed(u) => u # t /\ transaction_id'[u] = transaction_id[u]
  BY <1>2, <1>4 DEF Running, Flushed, FirstRow, LastRow, DeletedBy
<1>6. undo_buffer[t] = <<>> /\ DeletedBy(t) = {}
  BY <1>1, <1>2, DeletedRowsOf DEF Clocks, ShapeInv
<1>7. \A u \in Running : /\ u \in Txns \ {t} /\ start_time[u] \in Nat /\ start_time[u] < current_start_timestamp
                        /\ 2 <= start_time[u]
                        /\ transaction_id[u] \in Nat /\ transaction_id[u] < current_transaction_id
                        /\ TRANSACTION_ID_START <= transaction_id[u]
  BY <1>1, <1>5, RunningIds
<1>8. Clocks'
  <2>1. \A u \in Running' : /\ start_time'[u] \in 2 .. current_start_timestamp' - 1
                           /\ transaction_id'[u] \in TRANSACTION_ID_START .. current_transaction_id' - 1
    BY <1>0, <1>2, <1>4, <1>5, <1>7 DEF Numeric
  <2>2. \A u, v \in Running' : transaction_id'[u] = transaction_id'[v] => u = v
    BY <1>0, <1>1, <1>4, <1>5, <1>7 DEF Clocks, Numeric
  <2>3. checkpoint'.bind # 0 => checkpoint'.bind \in 2 .. current_start_timestamp' - 1
    BY <1>0, <1>1, <1>2, SMTT(30) DEF Clocks, Numeric
  <2> QED
    BY <1>1, <1>2, <1>4, <2>1, <2>2, <2>3 DEF Clocks
<1>9. InsertIds'
  <2>1. \A r \in Rows : InsertId(r)'
    BY <1>0, <1>1, <1>2, <1>3, <1>4, <1>5, <1>7, SMTT(30) DEF InsertIds, InsertId, Numeric, Typed
  <2>2. \A r \in 0 .. count - 1 : UsedRow(r)'
    BY <1>1, <1>2, <1>3, <1>5 DEF InsertIds, UsedRow
  <2> QED
    BY <1>1, <1>2, <1>3, <1>5, <2>1, <2>2 DEF InsertIds
<1>10. DeleteIds'
  <2>1. ASSUME NEW r \in Rows, Deleted[r] # NOT_DELETED_ID PROVE DeleteId(r)'
    <3>1. DeleteId(r)
      BY <1>1 DEF DeleteIds
    <3>2. CASE Deleted[r] <= last_commit /\ \A u \in Running : Deleted[r] # start_time[u]
      <4>1. Deleted[r] # current_start_timestamp
        BY <1>0, <3>2 DEF Numeric, Typed
      <4> QED
        BY <1>2, <1>3, <1>4, <1>5, <1>7, <2>1, <3>1, <3>2, <4>1 DEF DeleteId
    <3>3. CASE \E u \in Running : Deleted[r] = transaction_id[u] /\ r \in DeletedBy(u)
      BY <1>2, <1>3, <1>4, <1>5, <1>7, <2>1, <3>1, <3>3 DEF DeleteId
    <3> QED
      BY <2>1, <3>1, <3>2, <3>3 DEF DeleteId
  <2>2. \A r \in Rows : DeleteId(r)'
    BY <1>3, <2>1 DEF DeleteId
  <2> QED
    BY <1>1, <1>3, <1>4, <1>5, <1>6, <1>7, <2>2 DEF DeleteIds
<1>11. CleanupSafe'
  <2>1. ASSUME NEW u \in Txns, cleanup[u] # NoCleanup, append_info[u] # <<>>, LastRow(u) = VectorSize - 1
        PROVE  /\ cleanup[u] <= TRANSACTION_ID_START
               /\ \A r \in Rows, v \in Running' : Inserted[r] <= cleanup[u] => Inserted[r] < start_time'[v]
    <3>1. \A r \in Rows : Inserted[r] < current_start_timestamp
      <4>1. \A r \in Rows : Inserted[r] <= last_commit
        BY <1>1, <2>1, FullVector
      <4> QED
        BY <1>0, <4>1, SMTT(30) DEF Numeric, Typed
    <3> QED
      BY <1>1, <1>4, <1>5, <1>7, <2>1, <3>1 DEF CleanupSafe
  <2> QED
    BY <1>2, <1>3, <1>5, <2>1 DEF CleanupSafe
<1>12. Lowest'
  <2>1. ActiveStarts = {} => Running = {} /\ checkpoint.bind = 0
    BY DEF ActiveStarts
  <2>2. ActiveStarts # {} => (\E u \in Running : TRUE) \/ checkpoint.bind # 0
    BY DEF ActiveStarts
  <2>3. checkpoint.bind # 0 => checkpoint.bind < current_start_timestamp
    BY <1>0, <1>1 DEF Clocks, Numeric
  <2>4. lowest_active_start' <= TRANSACTION_ID_START /\ lowest_active_start' <= current_start_timestamp
    BY <1>0, <1>1, <1>2, <1>7, <2>2, <2>3 DEF Lowest, Numeric
  <2>5. \A u \in Running' : lowest_active_start' <= start_time'[u]
    BY <1>1, <1>2, <1>4, <1>5, <1>7, <2>1, <2>4 DEF Lowest
  <2>6. checkpoint'.bind # 0 => lowest_active_start' <= checkpoint'.bind
    BY <1>1, <1>2, <2>1 DEF Lowest
  <2>7. ASSUME NEW id \in Nat, SeenByAll(id) PROVE SeenByAll(id)'
    BY <1>0, <1>2, <1>4, <1>5, <1>7, <2>7 DEF SeenByAll, Numeric
  <2>8. LowestRead'
    BY <1>0, <1>1, <1>2, <1>3, <1>4, <1>5, <1>6, <1>7, <2>7 DEF Lowest, LowestRead, Typed
  <2> QED
    BY <2>4, <2>5, <2>6, <2>8 DEF Lowest
<1>13. Stored'
  BY <1>1, <1>2, <1>3, <1>5 DEF Stored, StoredInsert, StoredDelete
<1>14. FullAlone'
  BY <1>1, <1>2, <1>5, <1>6 DEF FullAlone
<1>15. Image'
  BY <1>1, <1>2, <1>3 DEF Image, Exact
<1> QED
  BY <1>8, <1>9, <1>10, <1>11, <1>12, <1>13, <1>14, <1>15 DEF VersionInv

-----------------------------------------------------------------------------
(* What is seen *)

\* A row with the insert id ins and the delete id del is seen from a start time and by an id.
Seen(ins, del, start, id) == (ins < start \/ ins = id) /\ ~(del < start \/ del = id)

\* A transaction sees the rows that its start time and its id select, whether there are ids or not.
LEMMA VisibleIs ==
    ASSUME ShapeInv, Clocks, NEW t \in Running
    PROVE  Visible(t) = {r \in 0 .. count - 1 : Seen(Inserted[r], Deleted[r], start_time[t], transaction_id[t])}
<1>0. Numeric
  BY Numbers
<1>1. /\ start_time[t] \in Nat /\ transaction_id[t] \in Nat
      /\ 2 <= start_time[t] /\ start_time[t] < current_start_timestamp
      /\ TRANSACTION_ID_START <= transaction_id[t] /\ transaction_id[t] < NOT_DELETED_ID
  BY RunningIds
<1>2. CASE version_info.vector_info = NoInfo
  <2>1. Inserted = [r \in Rows |-> 0] /\ Deleted = [r \in Rows |-> NOT_DELETED_ID]
    BY <1>2 DEF GetVectorInfo, NewInfo, Inserted, Deleted
  <2>2. Visible(t) = 0 .. count - 1
    BY <1>2 DEF Visible, GetSelVector
  <2>3. ASSUME NEW r \in 0 .. count - 1
        PROVE  Seen(Inserted[r], Deleted[r], start_time[t], transaction_id[t])
    <3>1. r \in Rows
      BY <1>0 DEF Numeric
    <3>2. Inserted[r] = 0 /\ Deleted[r] = NOT_DELETED_ID
      BY <2>1, <3>1
    <3> QED
      BY <1>0, <1>1, <3>2 DEF Seen, Numeric
  <2> QED
    BY <2>2, <2>3
<1>3. CASE version_info.vector_info # NoInfo
  <2>1. Inserted = version_info.vector_info.inserted /\ Deleted = version_info.vector_info.deleted
    BY <1>3 DEF GetVectorInfo, Inserted, Deleted
  <2> QED
    BY <1>3, <2>1 DEF Visible, GetSelVector, UseInsertedVersion, Seen
<1> QED
  BY <1>2, <1>3

\* The same for the committed rows.
LEMMA CommittedIs ==
    ASSUME ShapeInv
    PROVE  Committed = {r \in 0 .. count - 1 :
                            Seen(Inserted[r], Deleted[r], current_start_timestamp, MAX_TRANSACTION_ID)}
<1>0. Numeric
  BY Numbers
<1>2. CASE version_info.vector_info = NoInfo
  <2>1. Inserted = [r \in Rows |-> 0] /\ Deleted = [r \in Rows |-> NOT_DELETED_ID]
    BY <1>2 DEF GetVectorInfo, NewInfo, Inserted, Deleted
  <2>2. Committed = 0 .. count - 1
    BY <1>2 DEF Committed, GetSelVector
  <2>3. ASSUME NEW r \in 0 .. count - 1
        PROVE  Seen(Inserted[r], Deleted[r], current_start_timestamp, MAX_TRANSACTION_ID)
    <3>1. r \in Rows
      BY <1>0 DEF Numeric
    <3>2. Inserted[r] = 0 /\ Deleted[r] = NOT_DELETED_ID
      BY <2>1, <3>1
    <3> QED
      BY <1>0, <3>2 DEF Seen, Numeric
  <2> QED
    BY <2>2, <2>3
<1>3. CASE version_info.vector_info # NoInfo
  <2>1. Inserted = version_info.vector_info.inserted /\ Deleted = version_info.vector_info.deleted
    BY <1>3 DEF GetVectorInfo, Inserted, Deleted
  <2> QED
    BY <1>3, <2>1 DEF Committed, GetSelVector, UseInsertedVersion, Seen
<1> QED
  BY <1>2, <1>3

-----------------------------------------------------------------------------
(* VersionInv is inductive: deletes *)

\* The rows of a list of DeleteInfos.
RowsOf(dels) == UNION {dels[i].rows : i \in DOMAIN dels}

\* The rows of a list of DeleteInfos with one more.
LEMMA AppendedDeletes ==
    ASSUME NEW s \in Seq(DeleteInfos), NEW del \in DeleteInfos, NEW u, u = Append(s, del)
    PROVE  RowsOf(u) = RowsOf(s) \cup del.rows /\ u # <<>>
<1>1. /\ Len(s) \in Nat /\ DOMAIN s = 1 .. Len(s) /\ DOMAIN u = 1 .. Len(s) + 1
      /\ \A i \in 1 .. Len(s) : u[i] = s[i] /\ u[Len(s) + 1] = del
  OBVIOUS
<1>2. u[Len(s) + 1] = del /\ \A i \in 1 .. Len(s) : u[i] = s[i]
  OBVIOUS
<1>3. 1 .. Len(s) + 1 = (1 .. Len(s)) \cup {Len(s) + 1}
  BY <1>1
<1>4. u # <<>>
  BY <1>1
<1>5. ASSUME NEW r PROVE (\E i \in 1 .. Len(s) + 1 : r \in u[i].rows)
                            <=> (\E i \in 1 .. Len(s) : r \in s[i].rows) \/ r \in del.rows
  BY <1>2, <1>3
<1>6. \A r : r \in RowsOf(u) <=> \E i \in DOMAIN u : r \in u[i].rows
  BY DEF RowsOf
<1>7. \A r : r \in RowsOf(s) <=> \E i \in DOMAIN s : r \in s[i].rows
  BY DEF RowsOf
<1>8. RowsOf(u) = RowsOf(s) \cup del.rows
  BY <1>1, <1>5, <1>6, <1>7
<1> QED
  BY <1>4, <1>8

\* What a statement that deletes the rows R does: a conflict leaves everything as it is, and is
\* with a delete of somebody else; otherwise all the rows get the id.
DeletesOrConflicts(t, R) ==
    /\ R \subseteq Visible(t) /\ R \subseteq Rows /\ R # {}
    /\ Inserted' = Inserted /\ ConstantInsert' = ConstantInsert
    /\ Unwritten' = Unwritten /\ version_info'.storage = version_info.storage
    /\ \A u \in Txns \ {t} : undo_buffer'[u] = undo_buffer[u] /\ status'[u] = status[u]
    /\ \/ /\ status'[t] = "invalidated"
          /\ undo_buffer'[t] = undo_buffer[t]
          /\ Deleted' = Deleted
          /\ \E r \in R : Deleted[r] # NOT_DELETED_ID
       \/ /\ status'[t] = "active"
          /\ undo_buffer'[t] # <<>> /\ DeletedBy(t)' = DeletedBy(t) \cup R
          /\ Deleted' = [r \in Rows |-> IF r \in R THEN transaction_id[t] ELSE Deleted[r]]
          /\ \A r \in R : Deleted[r] = NOT_DELETED_ID

\* DeleteStatement does that.
LEMMA DeleteStatementEffect ==
    ASSUME ShapeInv, Clocks, Regular, NEW t \in Txns, NEW rows \in DeleteInputs(t), DeleteStatement(t, rows)
    PROVE  \E R : DeletesOrConflicts(t, R)
<1>0. Numeric /\ Typed
  BY Numbers, Functions
<1>1. /\ status[t] = "active" /\ t \in Running
      /\ version_info' = DeleteRows(version_info, transaction_id[t], rows)
  BY DEF DeleteStatement, Running
<1> PICK m, id, info : m = version_info /\ id = transaction_id[t] /\ info = GetVectorInfo(m)
  OBVIOUS
<1>2. PICK n \in Nat \ {0} : rows \in [1 .. n -> Rows] /\ rows \in [1 .. n -> Visible(t)]
  BY DeleteInput DEF Regular
<1> DEFINE R == {rows[i] : i \in 1 .. n}
<1>3. id \in Ids /\ id # NOT_DELETED_ID /\ Good(m) /\ Shape(info)
  BY Bounds, ManagerFields DEF ShapeInv
<1>4. DeletedIn(m, DeleteRows(m, id, rows), id, rows)
  BY <1>2, <1>3, DeleteRowsEffect
<1> PICK new : new = Delete(info, id, rows)
  OBVIOUS
<1>5. /\ Inserted' = Inserted /\ ConstantInsert' = ConstantInsert
      /\ Unwritten' = Unwritten /\ version_info'.storage = version_info.storage
      /\ Deleted' = new.deleted
  BY <1>1, <1>4 DEF DeletedIn, Inserted, ConstantInsert, Unwritten, Deleted
<1>6. \A i \in 1 .. n : info.deleted[rows[i]] # id
  <2>1. Visible(t) = {r \in 0 .. count - 1 : Seen(Inserted[r], Deleted[r], start_time[t], transaction_id[t])}
    BY <1>1, VisibleIs
  <2>2. \A r \in Visible(t) : Deleted[r] # id
    BY <2>1 DEF Seen
  <2> QED
    BY <1>2, <2>2 DEF Deleted
<1>7. /\ DeleteConflicts(info, id, rows) =>
            /\ new.deleted = info.deleted
            /\ \E i \in 1 .. n : info.deleted[rows[i]] \notin {id, NOT_DELETED_ID}
      /\ ~DeleteConflicts(info, id, rows) =>
            /\ new.deleted = [r \in Rows |-> IF \E i \in 1 .. n : r = rows[i] THEN id ELSE info.deleted[r]]
            /\ DeleteInfo(info, rows).rows = {rows[i] : i \in 1 .. n}
            /\ \A i \in 1 .. n : info.deleted[rows[i]] = NOT_DELETED_ID
            /\ ~ConstantlyDeleted(info)
  BY <1>2, <1>3, <1>6, DeleteEffect, SMTT(30)
<1>8. R \subseteq Visible(t) /\ R \subseteq Rows /\ R # {}
  <2>1. 1 \in 1 .. n
    OBVIOUS
  <2> QED
    BY <1>2, <2>1
<1>9. /\ status' = [status EXCEPT ![t] = IF DeleteConflicts(info, id, rows) THEN "invalidated" ELSE @]
      /\ undo_buffer' = [undo_buffer EXCEPT ![t] =
                          IF DeleteConflicts(info, id, rows) \/ ConstantlyDeleted(info)
                             \/ DeleteInfo(info, rows).rows = {}
                          THEN @ ELSE Append(@, DeleteInfo(info, rows))]
  BY DEF DeleteStatement
<1>10. undo_buffer \in [Txns -> Seq(DeleteInfos)] /\ status \in [Txns -> Statuses]
  BY DEF ShapeInv, Types
<1>11. \A u \in Txns \ {t} : undo_buffer'[u] = undo_buffer[u] /\ status'[u] = status[u]
  BY <1>9, <1>10
<1>12. CASE DeleteConflicts(info, id, rows)
  <2>1. status'[t] = "invalidated" /\ undo_buffer'[t] = undo_buffer[t]
    BY <1>9, <1>10, <1>12
  <2>2. Deleted' = Deleted
    BY <1>5, <1>7, <1>12 DEF Deleted
  <2>3. \E r \in R : Deleted[r] # NOT_DELETED_ID
    BY <1>7, <1>12 DEF Deleted
  <2> HIDE DEF R
  <2>4. DeletesOrConflicts(t, R)
    BY <1>5, <1>8, <1>11, <2>1, <2>2, <2>3 DEF DeletesOrConflicts
  <2> QED
    BY <2>4
<1>13. CASE ~DeleteConflicts(info, id, rows)
  <2> PICK del : del = DeleteInfo(info, rows)
    OBVIOUS
  <2>1. del.rows = R /\ del.rows # {}
    BY <1>7, <1>8, <1>13
  <2>2. del \in DeleteInfos
    BY <1>2, <2>1, DeleteInfoType
  <2>3. status'[t] = "active"
    BY <1>1, <1>9, <1>10, <1>13
  <2>4. undo_buffer'[t] = Append(undo_buffer[t], del)
    BY <1>7, <1>9, <1>10, <1>13, <2>1
  <2>5. undo_buffer'[t] # <<>> /\ DeletedBy(t)' = DeletedBy(t) \cup R
    <3> PICK s, u : s = undo_buffer[t] /\ u = undo_buffer'[t]
      OBVIOUS
    <3>1. s \in Seq(DeleteInfos) /\ u = Append(s, del)
      BY <1>10, <2>4
    <3>2. RowsOf(u) = RowsOf(s) \cup del.rows /\ u # <<>>
      BY <2>2, <3>1, AppendedDeletes
    <3>3. DeletedBy(t) = RowsOf(s) /\ DeletedBy(t)' = RowsOf(u)
      BY Zenon DEF DeletedBy, RowsOf
    <3> QED
      BY <2>1, <3>2, <3>3
  <2>6. Deleted' = [r \in Rows |-> IF r \in R THEN id ELSE Deleted[r]]
    <3>1. Deleted' = [r \in Rows |-> IF \E i \in 1 .. n : r = rows[i] THEN id ELSE info.deleted[r]]
      BY <1>5, <1>7, <1>13
    <3>2. Deleted = info.deleted
      BY DEF Deleted
    <3> QED
      BY <3>1, <3>2
  <2>7. \A r \in R : Deleted[r] = NOT_DELETED_ID
    BY <1>7, <1>13 DEF Deleted
  <2> HIDE DEF R
  <2>8. DeletesOrConflicts(t, R)
    BY <1>5, <1>8, <1>11, <2>3, <2>5, <2>6, <2>7 DEF DeletesOrConflicts
  <2> QED
    BY <2>8
<1> QED
  BY <1>12, <1>13

\* A delete.
LEMMA DeleteStatementVersions ==
    ASSUME ShapeInv, ShapeInv', VersionInv, Regular,
           NEW t \in Txns, NEW rows \in DeleteInputs(t), DeleteStatement(t, rows)
    PROVE  VersionInv'
<1>0. Numeric /\ Typed
  BY Numbers, Functions
<1>1. Clocks /\ InsertIds /\ DeleteIds /\ CleanupSafe /\ Lowest /\ Stored /\ FullAlone /\ Image
  BY DEF VersionInv
<1>2. /\ status[t] = "active" /\ t \in Running
      /\ ~VacuumLocked /\ ~TableLocked
      /\ current_start_timestamp' = current_start_timestamp
      /\ current_transaction_id' = current_transaction_id
      /\ lowest_active_start' = lowest_active_start /\ last_commit' = last_commit
      /\ start_time' = start_time /\ transaction_id' = transaction_id
      /\ checkpoint' = checkpoint /\ count' = count
      /\ append_info' = append_info /\ cleanup' = cleanup /\ behaviours' = behaviours
  BY DEF DeleteStatement, manager, Running
<1>3. PICK R : DeletesOrConflicts(t, R)
  BY <1>1, DeleteStatementEffect
<1>4. /\ Inserted' = Inserted /\ ConstantInsert' = ConstantInsert /\ Unwritten' = Unwritten
      /\ version_info'.storage = version_info.storage /\ Written' = Written
      /\ R \subseteq Visible(t) /\ R \subseteq Rows
  BY <1>2, <1>3 DEF DeletesOrConflicts, Written
<1>5. /\ \A u \in Txns : Flushed(u)' <=> Flushed(u)
      /\ \A u \in Txns : FirstRow(u)' = FirstRow(u) /\ LastRow(u)' = LastRow(u)
      /\ \A u \in Txns \ {t} : DeletedBy(u)' = DeletedBy(u) /\ undo_buffer'[u] = undo_buffer[u]
      /\ \A u \in Txns : status'[u] = "idle" => (status[u] = "idle" /\ u # t)
      /\ Running' = Running /\ t \in Txns
  BY <1>2, <1>3 DEF DeletesOrConflicts, Running, Flushed, FirstRow, LastRow, DeletedBy
<1>6. Clocks'
  BY <1>1, <1>2, <1>5 DEF Clocks
<1>7. InsertIds'
  BY <1>1, <1>2, <1>4, <1>5 DEF InsertIds, InsertId, UsedRow
<1>8. CleanupSafe'
  BY <1>1, <1>2, <1>4, <1>5 DEF CleanupSafe
<1>9. Lowest'
  BY <1>1, <1>2, <1>5 DEF Lowest, LowestRead, TableLocked
<1>10. FullAlone'
  BY <1>1, <1>2 DEF FullAlone, VacuumLocked, UnderWay
<1>11. CASE Deleted' = Deleted /\ undo_buffer'[t] = undo_buffer[t]
  <2>1. \A u \in Txns : DeletedBy(u)' = DeletedBy(u)
    BY <1>5, <1>11 DEF DeletedBy
  <2>2. DeleteIds'
    BY <1>0, <1>1, <1>2, <1>4, <1>5, <1>11, <2>1 DEF DeleteIds, DeleteId, Typed
  <2>3. Stored'
    BY <1>1, <1>2, <1>4, <1>5, <1>11 DEF Stored, StoredInsert, StoredDelete
  <2>4. Image'
    BY <1>1, <1>2, <1>4, <1>11 DEF Image, Exact
  <2> QED
    BY <1>6, <1>7, <1>8, <1>9, <1>10, <2>2, <2>3, <2>4 DEF VersionInv
<1>12. CASE /\ undo_buffer'[t] # <<>> /\ DeletedBy(t)' = DeletedBy(t) \cup R
            /\ Deleted' = [r \in Rows |-> IF r \in R THEN transaction_id[t] ELSE Deleted[r]]
            /\ \A r \in R : Deleted[r] = NOT_DELETED_ID
  <2>1. /\ start_time[t] \in Nat /\ transaction_id[t] \in Nat
        /\ start_time[t] < current_start_timestamp /\ TRANSACTION_ID_START <= transaction_id[t]
        /\ transaction_id[t] < NOT_DELETED_ID
    BY <1>1, <1>2, RunningIds
  <2>2. ASSUME NEW r \in R PROVE r \in 0 .. count - 1 /\ Inserted[r] <= last_commit
    <3>1. r \in 0 .. count - 1 /\ (Inserted[r] < start_time[t] \/ Inserted[r] = transaction_id[t])
      BY <1>1, <1>2, <1>4, VisibleIs DEF Seen
    <3>2. UsedRow(r)
      BY <1>1, <3>1 DEF InsertIds
    <3>3. ASSUME NEW u \in Txns, Flushed(u), Inserted[r] = transaction_id[u] PROVE FALSE
      <4>1. u \in Running /\ u # t
        BY <1>2, <3>3 DEF Flushed, Running
      <4>2. transaction_id[u] # transaction_id[t] /\ TRANSACTION_ID_START <= transaction_id[u]
            /\ transaction_id[u] \in Nat
        BY <1>1, <1>2, <4>1, RunningIds DEF Clocks
      <4> QED
        BY <1>0, <2>1, <3>1, <3>3, <4>2, SMTT(30) DEF Numeric
    <3> QED
      BY <3>1, <3>2, <3>3 DEF UsedRow
  <2>3. /\ \A r \in R : Deleted'[r] = transaction_id[t]
        /\ \A r \in Rows \ R : Deleted'[r] = Deleted[r]
    BY <1>4, <1>12
  <2>4. DeleteIds'
    <3>1. ASSUME NEW r \in R PROVE DeleteId(r)'
      <4>1. r < count
        BY <1>0, <2>2 DEF Numeric
      <4> QED
        BY <1>2, <1>4, <1>5, <1>12, <2>2, <2>3, <4>1 DEF DeleteId
    <3>2. ASSUME NEW r \in Rows \ R PROVE DeleteId(r)'
      BY <1>0, <1>1, <1>2, <1>4, <1>5, <1>12, <2>3 DEF DeleteIds, DeleteId, Typed
    <3>3. \A u \in Running : \A r \in DeletedBy(u)' : Deleted'[r] = transaction_id[u]
      <4>1. ASSUME NEW u \in Running, u # t, NEW r \in DeletedBy(u)
            PROVE  Deleted'[r] = transaction_id[u]
        <5>1. Deleted[r] = transaction_id[u] /\ transaction_id[u] < NOT_DELETED_ID
              /\ transaction_id[u] \in Nat /\ r \in Rows
          BY <1>1, <4>1, RunningIds DEF DeleteIds
        <5>2. r \notin R
          BY <1>0, <1>12, <5>1 DEF Numeric
        <5> QED
          BY <2>3, <5>1, <5>2
      <4>2. ASSUME NEW r \in DeletedBy(t) \cup R PROVE Deleted'[r] = transaction_id[t]
        BY <1>1, <1>2, <2>3, RunningIds DEF DeleteIds
      <4>3. \A u \in Running : u # t => DeletedBy(u)' = DeletedBy(u)
        BY <1>0, <1>5 DEF Typed
      <4> QED
        BY <1>12, <4>1, <4>2, <4>3, ZenonT(60)
    <3> QED
      BY <1>2, <1>5, <3>1, <3>2, <3>3 DEF DeleteIds
  <2>5. Stored'
    <3> SUFFICES ASSUME "fail" \notin behaviours PROVE Stored'
      BY <1>2 DEF Stored
    <3>1. \A r \in Rows : StoredInsert(r)'
      BY <1>1, <1>2, <1>4, <1>5 DEF Stored, StoredInsert
    <3>2. ASSUME NEW r \in Rows PROVE StoredDelete(r)'
      <4>1. CASE r \in R
        BY SMTT(30), <1>0, <1>2, <2>1, <2>3, <4>1 DEF StoredDelete, Numeric
      <4>2. CASE r \notin R
        BY <1>1, <1>2, <1>4, <2>3, <4>2 DEF Stored, StoredDelete
      <4> QED
        BY <4>1, <4>2
    <3>3. ASSUME NEW r \in version_info.storage PROVE Deleted'[r] < TRANSACTION_ID_START
      <4>1. Deleted[r] < TRANSACTION_ID_START /\ r \in Rows
        BY <1>0, <1>1 DEF Stored, Typed
      <4>2. r \notin R
        BY <1>0, <1>12, <4>1 DEF Numeric
      <4> QED
        BY <2>3, <4>1, <4>2
    <3> QED
      BY <1>4, <3>1, <3>2, <3>3 DEF Stored
  <2>6. Image'
    <3> SUFFICES ASSUME "fail" \notin behaviours PROVE Image'
      BY <1>2 DEF Image
    <3>1. checkpoint.pc \notin {"table", "compressed", "written"}
      BY <1>2 DEF TableLocked
    <3>2. ASSUME checkpoint.pc = "started"
          PROVE  /\ checkpoint.rows = {r \in 0 .. count - 1 : ~(Deleted'[r] <= checkpoint.id)}
                 /\ \A r \in version_info.storage : Deleted'[r] <= checkpoint.id
                 /\ checkpoint.type # "full"
                 /\ \A r \in Rows : Inserted[r] <= checkpoint.id
      <4>1. /\ checkpoint.rows = {r \in 0 .. count - 1 : ~(Deleted[r] <= checkpoint.id)}
            /\ \A r \in version_info.storage : Deleted[r] <= checkpoint.id
            /\ \A r \in Rows : Inserted[r] <= checkpoint.id
        BY <1>1, <3>2 DEF Image
      <4>2. checkpoint.type # "full"
        BY <1>2, <3>2 DEF VacuumLocked
      <4>3. checkpoint.id < TRANSACTION_ID_START
        <5>1. checkpoint.id <= last_commit
          BY <3>2 DEF ShapeInv, ActiveCheckpoint, UnderWay
        <5> QED
          BY <1>0, <5>1 DEF Numeric
      <4>4. ASSUME NEW r \in R PROVE ~(Deleted'[r] <= checkpoint.id) /\ ~(Deleted[r] <= checkpoint.id)
        BY SMTT(30), <1>0, <1>12, <2>1, <2>3, <4>3 DEF Numeric
      <4>5. ASSUME NEW r \in Rows PROVE (Deleted'[r] <= checkpoint.id) <=> (Deleted[r] <= checkpoint.id)
        BY <2>3, <4>4
      <4>6. 0 .. count - 1 \subseteq Rows /\ version_info.storage \subseteq Rows
        BY <1>0 DEF Numeric, Typed
      <4> QED
        BY <4>1, <4>2, <4>5, <4>6
    <3> QED
      BY <1>2, <1>4, <3>1, <3>2 DEF Image
  <2> QED
    BY <1>6, <1>7, <1>8, <1>9, <1>10, <2>4, <2>5, <2>6 DEF VersionInv
<1> QED
  BY <1>3, <1>11, <1>12 DEF DeletesOrConflicts

-----------------------------------------------------------------------------
(* VersionInv is inductive: steps of a checkpoint that leave the ids alone *)

\* The parts that do not depend on how far a checkpoint is.
LEMMA QuietStep ==
    ASSUME ShapeInv, VersionInv,
           UNCHANGED <<transactions, count, version_info, behaviours>>,
           NEW c \in Nat, c = current_start_timestamp', current_start_timestamp <= c,
           NEW d \in Nat, d = current_transaction_id', current_transaction_id <= d,
           NEW last \in Nat, last = last_commit', last_commit <= last,
           checkpoint'.bind # 0 => checkpoint'.bind \in 2 .. c - 1
    PROVE  /\ Clocks' /\ InsertIds' /\ DeleteIds' /\ CleanupSafe' /\ Stored'
           /\ Inserted' = Inserted /\ Deleted' = Deleted /\ Written' = Written
           /\ Running' = Running /\ start_time' = start_time /\ undo_buffer' = undo_buffer
           /\ version_info'.storage = version_info.storage /\ count' = count /\ behaviours' = behaviours
<1>0. Numeric /\ Typed
  BY Numbers, Functions
<1>1. Clocks /\ InsertIds /\ DeleteIds /\ CleanupSafe /\ Stored
  BY DEF VersionInv
<1>2. /\ status' = status /\ start_time' = start_time /\ transaction_id' = transaction_id
      /\ undo_buffer' = undo_buffer /\ append_info' = append_info /\ cleanup' = cleanup
      /\ count' = count /\ version_info' = version_info /\ behaviours' = behaviours
  BY DEF transactions
<1>3. /\ Inserted' = Inserted /\ Deleted' = Deleted /\ ConstantInsert' = ConstantInsert
      /\ Unwritten' = Unwritten /\ Written' = Written /\ Running' = Running
  BY <1>2 DEF Inserted, Deleted, ConstantInsert, Unwritten, Written, Running
<1>4. /\ \A u \in Txns : Flushed(u)' <=> Flushed(u)
      /\ \A u \in Txns : FirstRow(u)' = FirstRow(u) /\ LastRow(u)' = LastRow(u)
      /\ \A u \in Txns : DeletedBy(u)' = DeletedBy(u)
  BY <1>2 DEF Flushed, FirstRow, LastRow, DeletedBy
<1>5. Clocks'
  <2>1. \A u \in Running : /\ start_time[u] \in 2 .. c - 1
                          /\ transaction_id[u] \in TRANSACTION_ID_START .. d - 1
    BY SMTT(30), <1>0, <1>1 DEF Clocks, Numeric
  <2> QED
    BY <1>1, <1>2, <1>3, <2>1 DEF Clocks
<1>6. InsertIds'
  <2>1. ASSUME NEW r \in Rows PROVE InsertId(r)'
    <3>1. InsertId(r) /\ Inserted[r] \in Nat
      BY <1>0, <1>1 DEF InsertIds, Typed
    <3>2. /\ Inserted[r] < current_start_timestamp => Inserted[r] < c
          /\ Inserted[r] \in TRANSACTION_ID_START .. current_transaction_id - 1 =>
                Inserted[r] \in TRANSACTION_ID_START .. d - 1
      BY <1>0, <3>1 DEF Numeric
    <3> QED
      BY <1>2, <1>3, <3>1, <3>2 DEF InsertId
  <2>2. ASSUME NEW r \in 0 .. count - 1 PROVE UsedRow(r)'
    <3>1. UsedRow(r) /\ Inserted[r] \in Nat
      BY SMTT(30), <1>0, <1>1 DEF InsertIds, Numeric, Typed
    <3> QED
      BY <1>0, <1>2, <1>3, <1>4, <3>1 DEF UsedRow, Numeric
  <2> QED
    BY <1>1, <1>2, <1>3, <1>4, <2>1, <2>2 DEF InsertIds
<1>7. DeleteIds'
  <2>1. ASSUME NEW r \in Rows PROVE DeleteId(r)'
    <3>1. DeleteId(r) /\ Deleted[r] \in Nat /\ Inserted[r] \in Nat
      BY <1>0, <1>1 DEF DeleteIds, Typed
    <3>2. /\ Inserted[r] <= last_commit => Inserted[r] <= last
          /\ Deleted[r] <= last_commit => Deleted[r] <= last
      BY <1>0, <3>1 DEF Numeric
    <3> QED
      BY <1>0, <1>2, <1>3, <1>4, <3>1, <3>2 DEF DeleteId, Typed
  <2> QED
    BY <1>0, <1>1, <1>2, <1>3, <1>4, <2>1 DEF DeleteIds, Typed
<1>8. CleanupSafe'
  BY <1>1, <1>2, <1>3, <1>4 DEF CleanupSafe
<1>9. Stored'
  <2>1. ASSUME NEW r \in Rows, StoredInsert(r) PROVE StoredInsert(r)'
    <3>1. Inserted[r] \in Nat
      BY <1>0 DEF Typed
    <3>2. Inserted[r] <= last_commit => Inserted[r] <= last
      BY <1>0, <3>1 DEF Numeric
    <3> QED
      BY <1>2, <1>3, <1>4, <2>1, <3>2 DEF StoredInsert
  <2> QED
    BY <1>1, <1>2, <1>3, <2>1 DEF Stored, StoredDelete
<1> QED
  BY <1>2, <1>3, <1>5, <1>6, <1>7, <1>8, <1>9

\* Nothing that is below lowest_active_start is hidden from anybody.
LEMMA BelowLowest ==
    ASSUME ShapeInv, VersionInv
    PROVE  /\ \A r \in Rows : Inserted[r] < lowest_active_start => SeenByAll(Inserted[r])
           /\ \A r \in Rows : Deleted[r] # NOT_DELETED_ID /\ Deleted[r] < lowest_active_start =>
                                SeenByAll(Deleted[r])
<1>0. Numeric /\ Typed
  BY Numbers, Functions
<1>1. Clocks /\ InsertIds /\ DeleteIds /\ Lowest
  BY DEF VersionInv
<1>2. \A v \in Running : lowest_active_start <= start_time[v] /\ start_time[v] \in Nat
  BY <1>0, <1>1 DEF Lowest, Typed
<1>3. ASSUME NEW id \in Nat, id < lowest_active_start,
             id < current_start_timestamp \/ id \in TRANSACTION_ID_START .. current_transaction_id - 1
      PROVE  SeenByAll(id)
  <2>1. id < current_start_timestamp
    BY <1>0, <1>1, <1>3 DEF Lowest, Numeric
  <2>2. \A v \in Running : id < start_time[v]
    BY <1>0, <1>2, <1>3 DEF Numeric
  <2> QED
    BY <2>1, <2>2 DEF SeenByAll
<1>4. \A r \in Rows : Inserted[r] < lowest_active_start => SeenByAll(Inserted[r])
  BY <1>0, <1>1, <1>3 DEF InsertIds, InsertId, Typed
<1>5. ASSUME NEW r \in Rows, Deleted[r] # NOT_DELETED_ID, Deleted[r] < lowest_active_start
      PROVE  SeenByAll(Deleted[r])
  <2>1. DeleteId(r) /\ Deleted[r] \in Nat
    BY <1>0, <1>1 DEF DeleteIds, Typed
  <2>2. CASE Deleted[r] <= last_commit
    <3>1. Deleted[r] < current_start_timestamp
      BY <1>0, <2>1, <2>2 DEF Numeric
    <3> QED
      BY <1>3, <1>5, <2>1, <3>1
  <2>3. ASSUME NEW u \in Running, Deleted[r] = transaction_id[u] PROVE SeenByAll(Deleted[r])
    <3>1. transaction_id[u] \in TRANSACTION_ID_START .. current_transaction_id - 1
      BY <1>1 DEF Clocks
    <3> QED
      BY <1>3, <1>5, <2>1, <2>3, <3>1
  <2> QED
    BY <1>5, <2>1, <2>2, <2>3 DEF DeleteId
<1> QED
  BY <1>4, <1>5

\* The deletes of the others are not committed, and nobody deletes under a full checkpoint.
LEMMA CommittedDeletes ==
    ASSUME ShapeInv, VersionInv, NEW r \in Rows
    PROVE  /\ Deleted[r] < TRANSACTION_ID_START => Deleted[r] <= last_commit
           /\ Deleted[r] <= last_commit => Deleted[r] < TRANSACTION_ID_START
           /\ Deleted[r] <= NOT_DELETED_ID
           /\ (\A t \in Running : undo_buffer[t] = <<>>) /\ Deleted[r] # NOT_DELETED_ID =>
                    Deleted[r] <= last_commit
<1>0. Numeric /\ Typed
  BY Numbers, Functions
<1>1. Clocks /\ DeleteIds /\ Deleted[r] \in Nat
  BY <1>0 DEF VersionInv, Typed
<1>2. DeleteId(r)
  BY <1>1 DEF DeleteIds
<1>3. \A u \in Running : /\ TRANSACTION_ID_START <= transaction_id[u] /\ transaction_id[u] < NOT_DELETED_ID
                        /\ transaction_id[u] \in Nat
  BY <1>1, RunningIds
<1>4. Deleted[r] # NOT_DELETED_ID /\ ~(Deleted[r] <= last_commit) =>
            TRANSACTION_ID_START <= Deleted[r] /\ Deleted[r] < NOT_DELETED_ID
  BY <1>2, <1>3 DEF DeleteId
<1>5. ASSUME \A t \in Running : undo_buffer[t] = <<>>, Deleted[r] # NOT_DELETED_ID
      PROVE  Deleted[r] <= last_commit
  <2>1. \A t \in Running : DeletedBy(t) = {}
    BY <1>0, <1>5, DeletedRowsOf DEF ShapeInv, Typed
  <2> QED
    BY <1>2, <1>5, <2>1 DEF DeleteId
<1> QED
  BY SMTT(30), <1>0, <1>1, <1>4, <1>5 DEF Numeric

\* A checkpoint is decided on or created, and gets its type.
LEMMA CreateCheckpointVersions ==
    ASSUME ShapeInv, VersionInv,
           DecideCheckpoint \/ \E type \in {"full", "concurrent"} : CreateCheckpoint(type)
    PROVE  VersionInv'
<1>0. Numeric /\ Typed /\ checkpoint \in Checkpoints
  BY Numbers, Functions DEF ShapeInv, Types
<1>1. Clocks /\ Lowest
  BY DEF VersionInv
<1>2. /\ UNCHANGED <<transactions, count, version_info, behaviours>>
      /\ current_start_timestamp' = current_start_timestamp
      /\ current_transaction_id' = current_transaction_id
      /\ lowest_active_start' = lowest_active_start /\ last_commit' = last_commit
  BY DEF DecideCheckpoint, CreateCheckpoint, manager
<1>3. checkpoint'.bind = checkpoint.bind /\ checkpoint'.pc \in {"decided", "created"}
  BY <1>0 DEF DecideCheckpoint, CreateCheckpoint, Checkpoints
<1>4. checkpoint'.pc = "created" /\ checkpoint'.type = "full" => VacuumReaders = {}
  BY <1>0 DEF DecideCheckpoint, CreateCheckpoint, Checkpoints
<1>5. checkpoint'.bind # 0 => checkpoint'.bind \in 2 .. current_start_timestamp - 1
  BY <1>1, <1>3 DEF Clocks
<1>6. /\ Clocks' /\ InsertIds' /\ DeleteIds' /\ CleanupSafe' /\ Stored'
      /\ Running' = Running /\ undo_buffer' = undo_buffer /\ start_time' = start_time
  BY <1>0, <1>2, <1>5, QuietStep DEF Numeric
<1>7. Lowest'
  BY <1>1, <1>2, <1>3, <1>6 DEF Lowest, LowestRead
<1>8. FullAlone'
  BY <1>0, <1>3, <1>4, <1>6 DEF FullAlone, UnderWay, VacuumReaders, Typed
<1>9. Image'
  BY <1>3 DEF Image
<1> QED
  BY <1>6, <1>7, <1>8, <1>9 DEF VersionInv

\* A checkpoint gets its id.
LEMMA WALStartVersions ==
    ASSUME ShapeInv, VersionInv, WALStartCheckpoint
    PROVE  VersionInv'
<1>0. Numeric /\ Typed /\ checkpoint \in Checkpoints
  BY Numbers, Functions DEF ShapeInv, Types
<1>1. Clocks /\ Lowest /\ FullAlone /\ Stored /\ DeleteIds
  BY DEF VersionInv
<1>2. /\ UNCHANGED <<transactions, count, version_info, behaviours>>
      /\ current_start_timestamp' = current_start_timestamp
      /\ current_transaction_id' = current_transaction_id
      /\ lowest_active_start' = lowest_active_start /\ last_commit' = last_commit
      /\ checkpoint.pc = "created" /\ \A t \in Txns : ~Flushed(t)
  BY DEF WALStartCheckpoint, manager, Flushed
<1>3. /\ checkpoint'.bind = checkpoint.bind /\ checkpoint'.pc = "started"
      /\ checkpoint'.type = checkpoint.type /\ checkpoint'.id = last_commit
      /\ checkpoint'.rows = Committed
  BY <1>0 DEF WALStartCheckpoint, Checkpoints
<1>4. checkpoint'.bind # 0 => checkpoint'.bind \in 2 .. current_start_timestamp - 1
  BY <1>1, <1>3 DEF Clocks
<1>5. /\ Clocks' /\ InsertIds' /\ DeleteIds' /\ CleanupSafe' /\ Stored'
      /\ Running' = Running /\ undo_buffer' = undo_buffer /\ start_time' = start_time
      /\ Inserted' = Inserted /\ Deleted' = Deleted
      /\ version_info'.storage = version_info.storage /\ count' = count /\ behaviours' = behaviours
  BY <1>0, <1>2, <1>4, QuietStep DEF Numeric
<1>6. Lowest'
  BY <1>1, <1>2, <1>3, <1>5 DEF Lowest, LowestRead
<1>7. FullAlone'
  BY <1>1, <1>2, <1>3, <1>5 DEF FullAlone
<1>8. Image'
  <2> SUFFICES ASSUME "fail" \notin behaviours PROVE Image'
    BY <1>5 DEF Image
  <2>1. \A r \in Rows : Inserted[r] <= last_commit
    BY <1>1, <1>2 DEF Stored, StoredInsert
  <2>2. ASSUME NEW r \in Rows
        PROVE  Seen(Inserted[r], Deleted[r], current_start_timestamp, MAX_TRANSACTION_ID)
                 <=> ~(Deleted[r] <= last_commit)
    <3>1. /\ Deleted[r] < TRANSACTION_ID_START <=> Deleted[r] <= last_commit
          /\ Deleted[r] <= NOT_DELETED_ID
      BY CommittedDeletes
    <3>2. Inserted[r] \in Nat /\ Deleted[r] \in Nat /\ Inserted[r] <= last_commit
      BY <1>0, <2>1 DEF Typed
    <3>3. Inserted[r] < current_start_timestamp /\ Deleted[r] # MAX_TRANSACTION_ID
      BY <1>0, <3>1, <3>2 DEF Numeric
    <3>4. Deleted[r] < current_start_timestamp <=> Deleted[r] <= last_commit
      BY <1>0, <3>1, <3>2 DEF Numeric
    <3> QED
      BY <3>3, <3>4 DEF Seen
  <2>3. 0 .. count - 1 \subseteq Rows
    BY <1>0 DEF Numeric
  <2>4. Committed = {r \in 0 .. count - 1 : ~(Deleted[r] <= last_commit)}
    BY <2>2, <2>3, CommittedIs
  <2>5. \A r \in version_info.storage : Deleted[r] <= last_commit
    BY <1>0, <1>1, CommittedDeletes DEF Stored, Typed
  <2>6. checkpoint.type = "full" => \A r \in Rows : Deleted[r] # NOT_DELETED_ID => Deleted[r] <= last_commit
    BY <1>1, <1>2, CommittedDeletes DEF FullAlone
  <2> QED
    BY <1>3, <1>5, <2>1, <2>4, <2>5, <2>6 DEF Image
<1> QED
  BY <1>5, <1>6, <1>7, <1>8 DEF VersionInv

\* The bind transaction of a CHECKPOINT statement starts.
LEMMA StartBindVersions ==
    ASSUME ShapeInv, VersionInv, StartBindTransaction
    PROVE  VersionInv'
<1>0. Numeric /\ Typed /\ checkpoint \in Checkpoints
  BY Numbers, Functions DEF ShapeInv, Types
<1>1. Clocks /\ Lowest /\ FullAlone /\ Image
  BY DEF VersionInv
<1>2. /\ UNCHANGED <<transactions, count, version_info, behaviours>>
      /\ current_start_timestamp' = current_start_timestamp + 1
      /\ current_transaction_id' = current_transaction_id + 1
      /\ last_commit' = last_commit
      /\ lowest_active_start' = IF ActiveStarts = {} THEN current_start_timestamp ELSE lowest_active_start
      /\ checkpoint.pc = "started" /\ checkpoint.bind = 0
  BY DEF StartBindTransaction
<1>3. /\ checkpoint'.bind = current_start_timestamp /\ checkpoint'.pc = "started"
      /\ checkpoint'.type = checkpoint.type /\ checkpoint'.id = checkpoint.id
      /\ checkpoint'.rows = checkpoint.rows /\ checkpoint'.lowest = checkpoint.lowest
  BY <1>0, <1>2 DEF StartBindTransaction, Checkpoints
<1>4. /\ checkpoint'.bind # 0 => checkpoint'.bind \in 2 .. current_start_timestamp'  - 1
      /\ current_start_timestamp' \in Nat /\ current_transaction_id' \in Nat /\ last_commit' \in Nat
      /\ current_start_timestamp <= current_start_timestamp'
      /\ current_transaction_id <= current_transaction_id' /\ last_commit <= last_commit'
  BY <1>0, <1>2, <1>3 DEF Numeric
<1>5. /\ Clocks' /\ InsertIds' /\ DeleteIds' /\ CleanupSafe' /\ Stored'
      /\ Running' = Running /\ undo_buffer' = undo_buffer /\ start_time' = start_time
      /\ Inserted' = Inserted /\ Deleted' = Deleted
      /\ version_info'.storage = version_info.storage /\ count' = count /\ behaviours' = behaviours
  BY <1>2, <1>4, QuietStep
<1>6. Lowest'
  <2>1. ActiveStarts = {} => Running = {}
    BY DEF ActiveStarts
  <2>2. ActiveStarts # {} => \E u \in Running : TRUE
    BY <1>2 DEF ActiveStarts
  <2>3. \A u \in Running : start_time[u] \in Nat /\ start_time[u] < current_start_timestamp
    BY <1>1, RunningIds
  <2>4. lowest_active_start' <= TRANSACTION_ID_START /\ lowest_active_start' <= current_start_timestamp
    BY <1>0, <1>1, <1>2, <2>2, <2>3 DEF Lowest, Numeric
  <2>5. \A u \in Running : lowest_active_start' <= start_time[u]
    BY <1>1, <1>2, <2>1 DEF Lowest
  <2> QED
    BY <1>3, <1>5, <2>4, <2>5 DEF Lowest, LowestRead
<1>7. FullAlone'
  BY <1>1, <1>2, <1>3, <1>5 DEF FullAlone
<1>8. Image'
  BY <1>1, <1>2, <1>3, <1>5 DEF Image
<1> QED
  BY <1>5, <1>6, <1>7, <1>8 DEF VersionInv

\* A checkpoint reads LowestActiveStart.
LEMMA ReadLowestVersions ==
    ASSUME ShapeInv, VersionInv, ReadLowestActiveStart
    PROVE  VersionInv'
<1>0. Numeric /\ Typed /\ checkpoint \in Checkpoints
  BY Numbers, Functions DEF ShapeInv, Types
<1>1. Clocks /\ Lowest /\ FullAlone /\ Image
  BY DEF VersionInv
<1>2. /\ UNCHANGED <<transactions, count, version_info, behaviours>>
      /\ current_start_timestamp' = current_start_timestamp
      /\ current_transaction_id' = current_transaction_id
      /\ lowest_active_start' = lowest_active_start /\ last_commit' = last_commit
      /\ checkpoint.pc = "started"
  BY DEF ReadLowestActiveStart, manager
<1>3. /\ checkpoint'.bind = checkpoint.bind /\ checkpoint'.pc = "table"
      /\ checkpoint'.type = checkpoint.type /\ checkpoint'.id = checkpoint.id
      /\ checkpoint'.rows = checkpoint.rows /\ checkpoint'.lowest = lowest_active_start
  BY <1>0 DEF ReadLowestActiveStart, Checkpoints
<1>4. checkpoint'.bind # 0 => checkpoint'.bind \in 2 .. current_start_timestamp - 1
  BY <1>1, <1>3 DEF Clocks
<1>5. /\ Clocks' /\ InsertIds' /\ DeleteIds' /\ CleanupSafe' /\ Stored'
      /\ Running' = Running /\ undo_buffer' = undo_buffer /\ start_time' = start_time
      /\ Inserted' = Inserted /\ Deleted' = Deleted
      /\ version_info'.storage = version_info.storage /\ count' = count /\ behaviours' = behaviours
  BY <1>0, <1>2, <1>4, QuietStep DEF Numeric
<1>6. Lowest'
  <2>1. ASSUME NEW id, SeenByAll(id) PROVE SeenByAll(id)'
    BY <1>2, <1>5, <2>1 DEF SeenByAll
  <2>2. LowestRead'
    BY <1>1, <1>3, <1>5, <2>1, BelowLowest DEF Lowest, LowestRead
  <2> QED
    BY <1>1, <1>2, <1>3, <1>5, <2>2 DEF Lowest
<1>7. FullAlone'
  BY <1>1, <1>2, <1>3, <1>5 DEF FullAlone, UnderWay
<1>8. Image'
  BY <1>1, <1>2, <1>3, <1>5 DEF Image
<1> QED
  BY <1>5, <1>6, <1>7, <1>8 DEF VersionInv

\* The end of a checkpoint.
LEMMA EndCheckpointVersions ==
    ASSUME ShapeInv, VersionInv, UnlockTable \/ CommitBindTransaction \/ FinishCheckpoint
    PROVE  VersionInv'
<1>0. Numeric /\ Typed /\ checkpoint \in Checkpoints
  BY Numbers, Functions DEF ShapeInv, Types
<1>1. Clocks /\ Lowest /\ FullAlone
  BY DEF VersionInv
<1>2. /\ UNCHANGED <<transactions, count, version_info, behaviours>>
      /\ checkpoint'.pc \in {"finishing", "idle"} /\ checkpoint'.bind \in {0, checkpoint.bind}
      /\ checkpoint'.pc = "finishing" => checkpoint'.type = checkpoint.type /\ checkpoint.pc \in UnderWay
      /\ current_transaction_id' = current_transaction_id
  BY <1>0 DEF UnlockTable, CommitBindTransaction, FinishCheckpoint, Checkpoints, Idle, manager, UnderWay
<1>3. \/ /\ current_start_timestamp' = current_start_timestamp /\ last_commit' = last_commit
         /\ lowest_active_start' = lowest_active_start
      \/ /\ current_start_timestamp' = current_start_timestamp + 1
         /\ last_commit' = current_start_timestamp /\ checkpoint'.bind = 0
         /\ lowest_active_start' = Min({TRANSACTION_ID_START, active_checkpoint}
                                          \cup {start_time[u] : u \in Running})
  BY <1>0 DEF UnlockTable, CommitBindTransaction, FinishCheckpoint, manager, Checkpoints
<1>4. /\ checkpoint'.bind # 0 => checkpoint'.bind \in 2 .. current_start_timestamp'  - 1
      /\ current_start_timestamp' \in Nat /\ current_transaction_id' \in Nat /\ last_commit' \in Nat
      /\ current_start_timestamp <= current_start_timestamp'
      /\ current_transaction_id <= current_transaction_id' /\ last_commit <= last_commit'
  BY <1>0, <1>1, <1>2, <1>3 DEF Clocks, Numeric
<1>5. /\ Clocks' /\ InsertIds' /\ DeleteIds' /\ CleanupSafe' /\ Stored'
      /\ Running' = Running /\ undo_buffer' = undo_buffer /\ start_time' = start_time
  BY <1>2, <1>4, QuietStep
<1>6. Lowest'
  <2>1. CASE lowest_active_start' = lowest_active_start
    BY <1>1, <1>2, <1>5, <2>1 DEF Lowest, LowestRead
  <2>2. CASE /\ lowest_active_start' = Min({TRANSACTION_ID_START, active_checkpoint}
                                          \cup {start_time[u] : u \in Running})
             /\ checkpoint'.bind = 0
    <3> DEFINE S == {TRANSACTION_ID_START, active_checkpoint} \cup {start_time[u] : u \in Running}
    <3>1. S \subseteq Nat /\ TRANSACTION_ID_START \in S
      BY <1>0 DEF Numeric, Typed
    <3>2. \A u \in Running : start_time[u] \in S
      OBVIOUS
    <3>3. lowest_active_start' = Min(S)
      BY <2>2
    <3> HIDE DEF S
    <3>4. Min(S) <= TRANSACTION_ID_START /\ \A x \in S : Min(S) <= x
      BY <3>1, LowestType
    <3> QED
      BY <1>2, <1>5, <2>2, <3>2, <3>3, <3>4 DEF Lowest, LowestRead
  <2> QED
    BY <1>3, <2>1, <2>2
<1>7. FullAlone'
  BY <1>1, <1>2, <1>5 DEF FullAlone, UnderWay
<1>8. Image'
  BY <1>2 DEF Image
<1> QED
  BY <1>5, <1>6, <1>7, <1>8 DEF VersionInv

-----------------------------------------------------------------------------
(* VersionInv is inductive: appends *)

\* What the flush of an append does: the rows from first to last get the id of t, and all of them
\* if there was none before.
Flushes(t, first, last) ==
    /\ first = count /\ count' = last + 1 /\ first <= last /\ last < VectorSize
    /\ first \in Nat /\ last \in Nat
    /\ Deleted' = Deleted /\ Unwritten' = Unwritten
    /\ version_info'.storage = version_info.storage
    /\ Inserted' = [r \in Rows |-> IF first = 0 \/ r \in first .. last THEN transaction_id[t] ELSE Inserted[r]]
    /\ ConstantInsert' <=> first = 0
    /\ FirstRow(t)' = first /\ LastRow(t)' = last
    /\ Flushed(t)'
    /\ \A u \in Txns : ~Flushed(u)
    /\ \A u \in Txns \ {t} : ~Flushed(u)'
    /\ \A u \in Txns \ {t} : /\ FirstRow(u)' = FirstRow(u) /\ LastRow(u)' = LastRow(u)
                            /\ append_info'[u] = append_info[u]
    /\ \A u \in Txns : DeletedBy(u)' = DeletedBy(u)
    /\ \A u \in Txns : status'[u] = "idle" => status[u] = "idle"
    /\ cleanup[t] = NoCleanup
    /\ checkpoint.pc \notin UnderWay /\ ~VacuumLocked
    /\ Running' = Running /\ t \in Running

\* FlushAppend does that.
LEMMA FlushAppendEffect ==
    ASSUME ShapeInv, VersionInv, Regular, NEW t \in Txns, NEW n \in 1 .. VectorSize,
           NEW optimistic \in BOOLEAN, FlushAppend(t, n, optimistic)
    PROVE  \E first, last : Flushes(t, first, last)
<1>0. Numeric /\ Typed
  BY Numbers, Functions
<1>1. Clocks /\ InsertIds /\ DeleteIds
  BY DEF VersionInv
<1> PICK first, last : first = count /\ last = count + n - 1
  OBVIOUS
<1>2. /\ status' = [status EXCEPT ![t] = "flushed"] /\ status[t] = "active"
      /\ \A u \in Txns : status[u] # "flushed"
      /\ ~VacuumLocked /\ active_checkpoint = MAX_TRANSACTION_ID
      /\ count' = count + n /\ last < VectorSize
      /\ append_info' = [append_info EXCEPT ![t] = <<first, last>>]
      /\ undo_buffer' = undo_buffer
      /\ optimistic => "optimistic" \in behaviours
      /\ version_info' = AppendVersionInfo(version_info, first, last,
                                IF optimistic THEN 0 ELSE transaction_id[t])
  BY DEF FlushAppend
<1>3. first \in Nat /\ last \in Nat /\ first <= last /\ count' = last + 1
      /\ first \in Rows /\ last \in Rows
  BY <1>0, <1>2 DEF Numeric
<1> PICK m, id : m = version_info /\ id = transaction_id[t]
  OBVIOUS
<1>4. t \in Running /\ id \in Nat /\ TRANSACTION_ID_START <= id /\ id < NOT_DELETED_ID
  <2>1. t \in Running
    BY <1>2 DEF Running
  <2> QED
    BY <1>1, <2>1, RunningIds
<1>5. version_info' = AppendVersionInfo(m, first, last, id)
  BY <1>2 DEF Regular
<1>6. id \in Ids /\ Good(m)
  BY <1>0, <1>4, Constants DEF Numeric, ShapeInv
<1>7. AppendedTo(m, version_info', first, last, id)
  BY <1>3, <1>5, <1>6, AppendVersionInfoEffect
<1>8. first # 0 => Inserted[0] # id
  <2>1. ASSUME first # 0 PROVE Inserted[0] # id
    <3>1. 0 \in 0 .. count - 1 /\ 0 \in Rows
      BY <1>3, <2>1, Constants
    <3>2. Inserted[0] <= last_commit /\ Inserted[0] \in Nat
      BY <1>0, <1>1, <1>2, <3>1 DEF InsertIds, UsedRow, Flushed, Typed
    <3> QED
      BY <1>0, <1>4, <3>2 DEF Numeric
  <2> QED
    BY <2>1
<1>9. /\ Unwritten' = Unwritten /\ version_info'.storage = version_info.storage
      /\ Inserted' = [r \in Rows |-> IF first = 0 \/ r \in first .. last THEN id ELSE Inserted[r]]
      /\ ConstantInsert' <=> first = 0
  <2>1. CASE first = 0
    BY <1>7, <2>1 DEF AppendedTo, Unwritten, Inserted, ConstantInsert
  <2>2. CASE first # 0
    BY <1>7, <1>8, <2>2 DEF AppendedTo, Unwritten, Inserted, ConstantInsert
  <2> QED
    BY <2>1, <2>2
<1>10. Deleted' = Deleted
  <2>1. CASE Deleted' = Deleted
    BY <2>1
  <2>2. CASE first = 0 /\ Deleted' = [r \in Rows |-> NOT_DELETED_ID]
    <3>1. \A r \in Rows : Deleted[r] = NOT_DELETED_ID
      BY <1>0, <1>1, <2>2, SMTT(30) DEF DeleteIds, DeleteId, Numeric
    <3>2. Deleted = [r \in Rows |-> NOT_DELETED_ID]
      BY <1>0, <3>1 DEF Typed
    <3> QED
      BY <2>2, <3>2
  <2> QED
    BY <1>7, <2>1, <2>2 DEF AppendedTo, Deleted
<1>11. append_info \in [Txns -> {<<>>} \cup (Rows \X Rows)] /\ status \in [Txns -> Statuses]
  BY DEF ShapeInv, Types
<1>12. /\ FirstRow(t)' = first /\ LastRow(t)' = last
       /\ \A u \in Txns \ {t} : /\ FirstRow(u)' = FirstRow(u) /\ LastRow(u)' = LastRow(u)
                               /\ append_info'[u] = append_info[u]
  BY <1>2, <1>11 DEF FirstRow, LastRow
<1>13. /\ Flushed(t)' /\ Running' = Running
       /\ \A u \in Txns : ~Flushed(u)
       /\ \A u \in Txns \ {t} : ~Flushed(u)'
       /\ \A u \in Txns : DeletedBy(u)' = DeletedBy(u)
       /\ \A u \in Txns : status'[u] = "idle" => status[u] = "idle"
  BY <1>2, <1>11 DEF Flushed, Running, DeletedBy
<1>14. checkpoint.pc \notin UnderWay
  BY <1>0, <1>2 DEF ShapeInv, ActiveCheckpoint, Numeric
<1>15. cleanup[t] = NoCleanup
  BY <1>2 DEF ShapeInv, Appends, CleanupPending
<1>16. Flushes(t, first, last)
  BY <1>2, <1>3, <1>4, <1>9, <1>10, <1>12, <1>13, <1>14, <1>15 DEF Flushes
<1> QED
  BY <1>16

\* The flush of an append.
LEMMA FlushAppendVersions ==
    ASSUME ShapeInv, ShapeInv', VersionInv, Regular, NEW t \in Txns, NEW n \in 1 .. VectorSize,
           NEW optimistic \in BOOLEAN, FlushAppend(t, n, optimistic)
    PROVE  VersionInv'
<1>0. Numeric /\ Typed
  BY Numbers, Functions
<1>1. Clocks /\ InsertIds /\ DeleteIds /\ CleanupSafe /\ Lowest /\ Stored /\ FullAlone /\ Image
  BY DEF VersionInv
<1>2. /\ current_start_timestamp' = current_start_timestamp
      /\ current_transaction_id' = current_transaction_id
      /\ lowest_active_start' = lowest_active_start /\ last_commit' = last_commit
      /\ start_time' = start_time /\ transaction_id' = transaction_id
      /\ checkpoint' = checkpoint /\ cleanup' = cleanup /\ behaviours' = behaviours
      /\ undo_buffer' = undo_buffer
  BY DEF FlushAppend, manager
<1> PICK id : id = transaction_id[t]
  OBVIOUS
<1>3. PICK first, last : Flushes(t, first, last)
  BY FlushAppendEffect
<1>4. /\ first = count /\ count' = last + 1 /\ first <= last /\ last < VectorSize
      /\ first \in Nat /\ last \in Nat
      /\ Deleted' = Deleted /\ Unwritten' = Unwritten
      /\ version_info'.storage = version_info.storage
      /\ Inserted' = [r \in Rows |-> IF first = 0 \/ r \in first .. last THEN id ELSE Inserted[r]]
      /\ ConstantInsert' <=> first = 0
      /\ FirstRow(t)' = first /\ LastRow(t)' = last
      /\ Flushed(t)'
  BY <1>3 DEF Flushes
<1>5. /\ \A u \in Txns : ~Flushed(u)
      /\ \A u \in Txns \ {t} : ~Flushed(u)'
      /\ \A u \in Txns \ {t} : /\ FirstRow(u)' = FirstRow(u) /\ LastRow(u)' = LastRow(u)
                              /\ append_info'[u] = append_info[u]
      /\ \A u \in Txns : DeletedBy(u)' = DeletedBy(u)
      /\ \A u \in Txns : status'[u] = "idle" => status[u] = "idle"
      /\ cleanup[t] = NoCleanup
      /\ checkpoint.pc \notin UnderWay /\ ~VacuumLocked
      /\ Running' = Running /\ t \in Running
  BY <1>3 DEF Flushes
<1>6. /\ id \in Nat /\ TRANSACTION_ID_START <= id /\ id < current_transaction_id /\ id < NOT_DELETED_ID
  BY <1>1, <1>5, RunningIds
<1>7. /\ \A r \in Rows : (first = 0 \/ r \in first .. last) => Inserted'[r] = id
      /\ \A r \in Rows : ~(first = 0 \/ r \in first .. last) => Inserted'[r] = Inserted[r]
  BY <1>4
<1>8. ASSUME NEW r \in 0 .. count - 1
      PROVE  /\ r \in Rows /\ r \in Nat /\ r < first /\ Inserted'[r] = Inserted[r]
             /\ Inserted[r] <= last_commit /\ Inserted[r] \in Nat
  <2>0. first = count /\ first \in Nat /\ last \in Nat /\ r \in Nat /\ r < first
    BY <1>4
  <2>1. r \in Rows /\ r < first /\ first # 0 /\ r \notin first .. last
    BY <1>0, <2>0 DEF Numeric
  <2>2. UsedRow(r)
    BY <1>1 DEF InsertIds
  <2> QED
    BY <1>0, <1>5, <1>7, <2>0, <2>1, <2>2 DEF UsedRow, Typed
<1>9. ASSUME NEW r \in 0 .. count' - 1, r \notin 0 .. count - 1
      PROVE  r \in Rows /\ r \in Nat /\ first <= r /\ Inserted'[r] = id
  <2>1. r \in Rows /\ r \in Nat /\ first <= r /\ r \in first .. last
    BY <1>0, <1>4, <1>9 DEF Numeric
  <2> QED
    BY <1>7, <2>1
<1>10. Clocks'
  BY <1>1, <1>2, <1>5 DEF Clocks
<1>11. InsertIds'
  <2>1. ASSUME NEW r \in Rows PROVE InsertId(r)'
    <3>1. CASE first = 0 \/ r \in first .. last
      <4>1. \A u \in Running : start_time[u] \in Nat /\ start_time[u] < current_start_timestamp
        BY <1>1, RunningIds
      <4>2. \A u \in Running : id # start_time[u]
        BY <1>0, <1>6, <4>1 DEF Numeric
      <4>3. id \in TRANSACTION_ID_START .. current_transaction_id - 1
        BY <1>0, <1>6 DEF Numeric
      <4> QED
        BY <1>2, <1>5, <1>7, <3>1, <4>2, <4>3 DEF InsertId
    <3>2. CASE ~(first = 0 \/ r \in first .. last)
      BY <1>1, <1>2, <1>5, <1>7, <3>2 DEF InsertIds, InsertId
    <3> QED
      BY <3>1, <3>2
  <2>2. ASSUME NEW r \in 0 .. count' - 1 PROVE UsedRow(r)'
    <3>1. CASE r \in 0 .. count - 1
      <4>1. \A u \in Txns : Flushed(u)' => r < FirstRow(u)'
        BY <1>4, <1>5, <1>8, <3>1
      <4> QED
        BY <1>2, <1>8, <3>1, <4>1 DEF UsedRow
    <3>2. CASE r \notin 0 .. count - 1
      BY <1>2, <1>4, <1>9, <3>2 DEF UsedRow
    <3> QED
      BY <3>1, <3>2
  <2>3. ASSUME NEW r \in 0 .. count' - 1, NEW s \in 0 .. count' - 1, r <= s
        PROVE  Inserted'[r] <= Inserted'[s]
    <3>1. CASE s \in 0 .. count - 1
      <4>1. r \in 0 .. count - 1
        BY <1>0, <2>3, <3>1 DEF Numeric
      <4> QED
        BY <1>1, <1>8, <2>3, <3>1, <4>1 DEF InsertIds
    <3>2. CASE s \notin 0 .. count - 1 /\ r \in 0 .. count - 1
      BY <1>0, <1>6, <1>8, <1>9, <3>2, SMTT(30) DEF Numeric
    <3>3. CASE s \notin 0 .. count - 1 /\ r \notin 0 .. count - 1
      BY <1>6, <1>9, <3>3
    <3> QED
      BY <3>1, <3>2, <3>3
  <2>4. \A u \in Txns : Flushed(u)' => (ConstantInsert' <=> FirstRow(u)' = 0)
    BY <1>4, <1>5
  <2> QED
    BY <2>1, <2>2, <2>3, <2>4 DEF InsertIds
<1>12. DeleteIds'
  <2>1. ASSUME NEW r \in Rows, Deleted[r] # NOT_DELETED_ID PROVE DeleteId(r)'
    <3>1. DeleteId(r)
      BY <1>1 DEF DeleteIds
    <3>2. r < count /\ r \in 0 .. count - 1 /\ r < count'
      BY <1>0, <1>4, <2>1, <3>1 DEF DeleteId, Numeric
    <3> QED
      BY <1>0, <1>2, <1>4, <1>5, <1>8, <2>1, <3>1, <3>2 DEF DeleteId, Typed
  <2>2. \A r \in Rows : DeleteId(r)'
    BY <1>4, <2>1 DEF DeleteId
  <2> QED
    BY <1>0, <1>1, <1>2, <1>4, <1>5, <2>2 DEF DeleteIds, Typed
<1>13. CleanupSafe'
  <2>1. ASSUME NEW u \in Txns, cleanup[u] # NoCleanup, append_info'[u] # <<>>, LastRow(u)' = VectorSize - 1
        PROVE  FALSE
    <3>1. u # t /\ append_info[u] # <<>> /\ LastRow(u) = VectorSize - 1
      BY <1>5, <2>1
    <3>2. LastRow(u) \in Nat /\ LastRow(u) < count
      BY <3>1, AppendRows
    <3> QED
      BY <1>0, <1>4, <3>1, <3>2 DEF Numeric
  <2> QED
    BY <1>2, <2>1 DEF CleanupSafe
<1>14. Lowest'
  BY <1>1, <1>2, <1>5 DEF Lowest, LowestRead, UnderWay
<1>15. Stored'
  <2> SUFFICES ASSUME "fail" \notin behaviours PROVE Stored'
    BY <1>2 DEF Stored
  <2>1. ASSUME NEW r \in Rows PROVE StoredInsert(r)'
    <3>1. CASE first = 0 \/ r \in first .. last
      BY <1>2, <1>4, <1>7, <3>1 DEF StoredInsert
    <3>2. CASE ~(first = 0 \/ r \in first .. last)
      BY <1>1, <1>2, <1>5, <1>7, <3>2 DEF Stored, StoredInsert
    <3> QED
      BY <3>1, <3>2
  <2> QED
    BY <1>1, <1>2, <1>4, <2>1 DEF Stored, StoredDelete
<1>16. FullAlone'
  BY <1>2, <1>5 DEF FullAlone, VacuumLocked
<1>17. Image'
  BY <1>2, <1>5 DEF Image, UnderWay
<1> QED
  BY <1>10, <1>11, <1>12, <1>13, <1>14, <1>15, <1>16, <1>17 DEF VersionInv

-----------------------------------------------------------------------------
(* VersionInv is inductive: commits *)

\* What the commit of t does: its deletes and its append get the commit id c; low is
\* lowest_active_start without t.
Commits(t, c, low) ==
    /\ t \in Running /\ c = current_start_timestamp
    /\ Inserted' = [r \in Rows |-> IF Flushed(t) /\ (FirstRow(t) = 0 \/ r \in FirstRow(t) .. LastRow(t))
                                   THEN c ELSE Inserted[r]]
    /\ Deleted' = [r \in Rows |-> IF r \in DeletedBy(t) THEN c ELSE Deleted[r]]
    /\ ConstantInsert' = ConstantInsert
    /\ version_info'.storage = version_info.storage
    /\ Unwritten' = IF undo_buffer[t] # <<>> /\ (Unwritten = Invalid \/ c > Unwritten)
                    THEN c ELSE Unwritten
    /\ Running' = Running \ {t}
    /\ \A u \in Txns : Flushed(u)' <=> (Flushed(u) /\ u # t)
    /\ \A u \in Txns : FirstRow(u)' = FirstRow(u) /\ LastRow(u)' = LastRow(u)
    /\ \A u \in Txns : DeletedBy(u)' = DeletedBy(u)
    /\ \A u \in Txns : status'[u] = "idle" => status[u] = "idle"
    /\ \A u \in Txns \ {t} : cleanup'[u] = cleanup[u]
    /\ cleanup'[t] \in {NoCleanup, low}
    /\ low \in Nat /\ low <= TRANSACTION_ID_START
    /\ \A u \in Running' : low <= start_time[u]
    /\ checkpoint.bind # 0 => low <= checkpoint.bind

\* CommitTransaction does that.
LEMMA CommitTransactionEffect ==
    ASSUME ShapeInv, VersionInv, NEW t \in Txns, CommitTransaction(t)
    PROVE  Commits(t, current_start_timestamp, LowestStartTime(t))
<1>0. Numeric /\ Typed
  BY Numbers, Functions
<1>1. /\ status' = [status EXCEPT ![t] = "done"] /\ t \in Running
      /\ cleanup' = [cleanup EXCEPT ![t] = IF t \in VacuumReaders THEN LowestStartTime(t) ELSE NoCleanup]
      /\ version_info' = ApplyCommit(version_info, t, current_start_timestamp)
      /\ append_info' = append_info /\ undo_buffer' = undo_buffer
  BY DEF CommitTransaction, RemoveTransaction, Running
<1> PICK c, low : c = current_start_timestamp /\ low = LowestStartTime(t)
  OBVIOUS
<1>2. c \in Ids
  BY <1>0, Constants DEF Numeric
<1>3. append_info[t] # <<>> <=> Flushed(t)
  BY <1>1, RunningAppends
<1>4. CommitOf(version_info', t, c)
  BY <1>1, <1>2, <1>3, ApplyCommitEffect
<1>5. /\ Deleted' = [r \in Rows |-> IF r \in DeletedBy(t) THEN c ELSE Deleted[r]]
      /\ ConstantInsert' = ConstantInsert
      /\ version_info'.storage = version_info.storage
      /\ Unwritten' = IF undo_buffer[t] # <<>> /\ (Unwritten = Invalid \/ c > Unwritten)
                      THEN c ELSE Unwritten
      /\ ~Flushed(t) => Inserted' = Inserted
      /\ Flushed(t) => /\ ConstantInsert => Inserted' = [r \in Rows |-> c]
                       /\ ~ConstantInsert => Inserted' = [r \in Rows |-> IF r \in FirstRow(t) .. LastRow(t)
                                                                        THEN c ELSE Inserted[r]]
  BY <1>3, <1>4 DEF CommitOf, Deleted, ConstantInsert, Unwritten, Inserted
<1>6. Flushed(t) => (ConstantInsert <=> FirstRow(t) = 0)
  BY DEF VersionInv, InsertIds
<1>7. Inserted' = [r \in Rows |-> IF Flushed(t) /\ (FirstRow(t) = 0 \/ r \in FirstRow(t) .. LastRow(t))
                                   THEN c ELSE Inserted[r]]
  <2>1. CASE ~Flushed(t)
    BY <1>0, <1>5, <2>1 DEF Typed
  <2>2. CASE Flushed(t) /\ FirstRow(t) = 0
    BY <1>5, <1>6, <2>2
  <2>3. CASE Flushed(t) /\ FirstRow(t) # 0
    BY <1>5, <1>6, <2>3
  <2> QED
    BY <2>1, <2>2, <2>3
<1>8. status \in [Txns -> Statuses] /\ cleanup \in [Txns -> Nat]
  BY <1>0 DEF Typed
<1>9. /\ Running' = Running \ {t}
      /\ \A u \in Txns : Flushed(u)' <=> (Flushed(u) /\ u # t)
      /\ \A u \in Txns : status'[u] = "idle" => status[u] = "idle"
      /\ \A u \in Txns \ {t} : cleanup'[u] = cleanup[u]
      /\ cleanup'[t] \in {NoCleanup, low}
  BY <1>1, <1>8 DEF Running, Flushed
<1>10. /\ \A u \in Txns : FirstRow(u)' = FirstRow(u) /\ LastRow(u)' = LastRow(u)
       /\ \A u \in Txns : DeletedBy(u)' = DeletedBy(u)
  BY <1>1 DEF FirstRow, LastRow, DeletedBy
<1>11. /\ low \in Nat /\ low <= TRANSACTION_ID_START
       /\ \A u \in Running' : low <= start_time[u]
       /\ checkpoint.bind # 0 => low <= checkpoint.bind
  BY <1>9, LowestStartTimeType, Constants DEF ShapeInv
<1> QED
  BY <1>1, <1>5, <1>7, <1>9, <1>10, <1>11 DEF Commits

\* The ids of the rows after a commit.
LEMMA CommitRows ==
    ASSUME ShapeInv, VersionInv, NEW t \in Txns, NEW c, NEW low, Commits(t, c, low)
    PROVE  /\ \A r \in Rows : Inserted'[r] \in {c, Inserted[r]}
           /\ ~Flushed(t) => Inserted' = Inserted
           /\ Flushed(t) => \A r \in Rows : FirstRow(t) = 0 \/ r \in FirstRow(t) .. LastRow(t) =>
                                Inserted'[r] = c
           /\ Flushed(t) => \A r \in Rows : ~(FirstRow(t) = 0 \/ r \in FirstRow(t) .. LastRow(t)) =>
                                Inserted'[r] = Inserted[r]
           /\ \A r \in DeletedBy(t) : r \in Rows /\ Deleted'[r] = c /\ Deleted[r] = transaction_id[t]
           /\ \A r \in Rows \ DeletedBy(t) : Deleted'[r] = Deleted[r]
           /\ undo_buffer[t] = <<>> => DeletedBy(t) = {}
<1>0. Typed
  BY Functions
<1>1. /\ Inserted' = [r \in Rows |-> IF Flushed(t) /\ (FirstRow(t) = 0 \/ r \in FirstRow(t) .. LastRow(t))
                                    THEN c ELSE Inserted[r]]
      /\ Deleted' = [r \in Rows |-> IF r \in DeletedBy(t) THEN c ELSE Deleted[r]]
      /\ t \in Running
  BY DEF Commits
<1>2. DeletedBy(t) \subseteq Rows /\ (undo_buffer[t] = <<>> => DeletedBy(t) = {})
  BY DeletedRowsOf DEF ShapeInv
<1>3. \A r \in DeletedBy(t) : Deleted[r] = transaction_id[t]
  BY <1>1 DEF VersionInv, DeleteIds
<1>4. ~Flushed(t) => Inserted' = Inserted
  BY <1>0, <1>1 DEF Typed
<1>5. \A r \in Rows : Inserted'[r] = IF Flushed(t) /\ (FirstRow(t) = 0 \/ r \in FirstRow(t) .. LastRow(t))
                                     THEN c ELSE Inserted[r]
  BY <1>1
<1> QED
  BY <1>1, <1>2, <1>3, <1>4, <1>5

\* A commit.
LEMMA CommitTransactionVersions ==
    ASSUME ShapeInv, ShapeInv', VersionInv, NEW t \in Txns, CommitTransaction(t)
    PROVE  VersionInv'
<1>0. Numeric /\ Typed
  BY Numbers, Functions
<1>1. Clocks /\ InsertIds /\ DeleteIds /\ CleanupSafe /\ Lowest /\ Stored /\ FullAlone /\ Image
  BY DEF VersionInv
<1> PICK c, low : c = current_start_timestamp /\ low = LowestStartTime(t)
  OBVIOUS
<1>2. /\ current_start_timestamp' = c + 1 /\ current_transaction_id' = current_transaction_id
      /\ lowest_active_start' = low /\ last_commit' = c
      /\ start_time' = start_time /\ transaction_id' = transaction_id
      /\ append_info' = append_info /\ undo_buffer' = undo_buffer
      /\ count' = count /\ behaviours' = behaviours
  BY DEF CommitTransaction, RemoveTransaction
<1>3. Commits(t, c, low)
  BY CommitTransactionEffect
<1>4. /\ t \in Running /\ ConstantInsert' = ConstantInsert /\ version_info'.storage = version_info.storage
      /\ Unwritten' = IF undo_buffer[t] # <<>> /\ (Unwritten = Invalid \/ c > Unwritten)
                      THEN c ELSE Unwritten
      /\ Running' = Running \ {t}
      /\ \A u \in Txns : Flushed(u)' <=> (Flushed(u) /\ u # t)
      /\ \A u \in Txns : FirstRow(u)' = FirstRow(u) /\ LastRow(u)' = LastRow(u)
      /\ \A u \in Txns : DeletedBy(u)' = DeletedBy(u)
      /\ \A u \in Txns : status'[u] = "idle" => status[u] = "idle"
      /\ \A u \in Txns \ {t} : cleanup'[u] = cleanup[u]
      /\ cleanup'[t] \in {NoCleanup, low}
  BY <1>3 DEF Commits
<1>5. /\ low \in Nat /\ low <= TRANSACTION_ID_START
      /\ \A u \in Running' : low <= start_time[u]
      /\ checkpoint.bind # 0 => low <= checkpoint.bind
  BY <1>3 DEF Commits
<1>6. /\ \A r \in Rows : Inserted'[r] \in {c, Inserted[r]}
      /\ ~Flushed(t) => Inserted' = Inserted
      /\ Flushed(t) => \A r \in Rows : FirstRow(t) = 0 \/ r \in FirstRow(t) .. LastRow(t) =>
                           Inserted'[r] = c
      /\ Flushed(t) => \A r \in Rows : ~(FirstRow(t) = 0 \/ r \in FirstRow(t) .. LastRow(t)) =>
                           Inserted'[r] = Inserted[r]
  BY <1>3, CommitRows
<1>7. /\ \A r \in DeletedBy(t) : r \in Rows /\ Deleted'[r] = c /\ Deleted[r] = transaction_id[t]
      /\ \A r \in Rows \ DeletedBy(t) : Deleted'[r] = Deleted[r]
      /\ undo_buffer[t] = <<>> => DeletedBy(t) = {}
  BY <1>3, CommitRows
<1>8. /\ checkpoint'.bind = checkpoint.bind /\ checkpoint'.id = checkpoint.id
      /\ checkpoint'.lowest = checkpoint.lowest /\ checkpoint'.rows = checkpoint.rows
      /\ \/ checkpoint' = checkpoint
         \/ checkpoint.pc = "idle" /\ checkpoint'.pc = "decided"
  BY CommitCheckpoint
<1>9. \A u \in Running : /\ u \in Txns /\ start_time[u] \in Nat /\ start_time[u] < c
                        /\ transaction_id[u] \in Nat /\ TRANSACTION_ID_START <= transaction_id[u]
                        /\ transaction_id[u] < NOT_DELETED_ID
  BY <1>1, RunningIds
<1>10. c \in Nat /\ last_commit < c /\ c < TRANSACTION_ID_START
  BY <1>0 DEF Numeric
<1>11. \A r \in Rows : Inserted[r] \in Nat /\ Deleted[r] \in Nat
  BY <1>0 DEF Typed
<1>12. 0 .. count - 1 \subseteq Rows
  BY <1>0 DEF Numeric
<1>13. ASSUME Flushed(t)
       PROVE  /\ FirstRow(t) \in Nat /\ LastRow(t) = count - 1 /\ checkpoint.pc \notin UnderWay
              /\ \A u \in Txns \ {t} : ~Flushed(u)
  BY <1>13, FlushedAlone, AppendRows
<1>14. Clocks'
  <2>1. \A u \in Running' : /\ start_time[u] \in 2 .. (c + 1) - 1
                           /\ transaction_id[u] \in TRANSACTION_ID_START .. current_transaction_id - 1
    BY <1>1, <1>4, <1>10 DEF Clocks
  <2>2. checkpoint'.bind # 0 => checkpoint'.bind \in 2 .. (c + 1) - 1
    BY <1>1, <1>8, <1>10 DEF Clocks
  <2> QED
    BY <1>1, <1>2, <1>4, <2>1, <2>2 DEF Clocks
<1>15. ASSUME NEW r \in Rows PROVE InsertId(r)'
  <2>1. InsertId(r) /\ Inserted[r] \in Nat
    BY <1>1, <1>11 DEF InsertIds
  <2>2. CASE Inserted'[r] = c
    <3>1. c < c + 1 /\ \A u \in Running : c # start_time[u]
      BY <1>9, <1>10
    <3> QED
      BY <1>2, <1>4, <2>2, <3>1 DEF InsertId
  <2>3. CASE Inserted'[r] = Inserted[r]
    <3>1. Inserted[r] < c => Inserted[r] < c + 1
      BY <1>10, <2>1
    <3> QED
      BY <1>2, <1>4, <2>1, <2>3, <3>1 DEF InsertId
  <2> QED
    BY <1>6, <2>2, <2>3
<1>16. InsertIds'
  <2>1. CASE ~Flushed(t)
    <3>1. Inserted' = Inserted /\ \A u \in Txns : Flushed(u)' <=> Flushed(u)
      BY <1>4, <1>6, <2>1
    <3>2. ASSUME NEW r \in 0 .. count - 1 PROVE UsedRow(r)'
      <4>1. UsedRow(r) /\ Inserted[r] \in Nat
        BY <1>1, <1>11, <1>12 DEF InsertIds
      <4>2. Inserted[r] <= last_commit => Inserted[r] <= c
        BY <1>0, <1>10, <4>1 DEF Numeric
      <4> QED
        BY <1>2, <1>4, <3>1, <4>1, <4>2 DEF UsedRow
    <3> QED
      BY <1>1, <1>2, <1>4, <1>15, <3>1, <3>2 DEF InsertIds
  <2>2. CASE Flushed(t)
    <3>1. /\ FirstRow(t) \in Nat /\ LastRow(t) = count - 1
          /\ \A u \in Txns : ~Flushed(u)'
      BY <1>4, <1>13, <2>2
    <3>2. ASSUME NEW r \in 0 .. count - 1, ~(FirstRow(t) = 0 \/ r \in FirstRow(t) .. LastRow(t))
          PROVE  Inserted'[r] = Inserted[r] /\ Inserted[r] <= last_commit /\ r < FirstRow(t)
      <4>1. r < FirstRow(t) /\ r \in Rows
        BY <1>0, <1>12, <3>1, <3>2 DEF Numeric
      <4>2. UsedRow(r)
        BY <1>1 DEF InsertIds
      <4>3. \A u \in Txns : Flushed(u) => ~(FirstRow(u) <= r)
        BY <1>0, <1>13, <2>2, <3>1, <4>1 DEF Numeric
      <4> QED
        BY <1>6, <2>2, <3>2, <4>1, <4>2, <4>3 DEF UsedRow
    <3>3. ASSUME NEW r \in 0 .. count - 1, FirstRow(t) = 0 \/ r \in FirstRow(t) .. LastRow(t)
          PROVE  Inserted'[r] = c
      BY <1>6, <1>12, <2>2, <3>3
    <3>4. ASSUME NEW r \in 0 .. count - 1 PROVE Inserted'[r] <= c
      <4>1. r \in Rows /\ Inserted[r] \in Nat
        BY <1>11, <1>12
      <4>2. CASE FirstRow(t) = 0 \/ r \in FirstRow(t) .. LastRow(t)
        BY <1>10, <3>3, <4>2
      <4>3. CASE ~(FirstRow(t) = 0 \/ r \in FirstRow(t) .. LastRow(t))
        BY <1>0, <1>10, <3>2, <4>1, <4>3 DEF Numeric
      <4> QED
        BY <4>2, <4>3
    <3>5. \A r \in 0 .. count - 1 : UsedRow(r)'
      BY <1>2, <3>1, <3>4 DEF UsedRow
    <3>6. ASSUME NEW r \in 0 .. count - 1, NEW s \in 0 .. count - 1, r <= s
          PROVE  Inserted'[r] <= Inserted'[s]
      <4>1. CASE FirstRow(t) = 0 \/ s \in FirstRow(t) .. LastRow(t)
        BY <3>3, <3>4, <4>1
      <4>2. CASE ~(FirstRow(t) = 0 \/ s \in FirstRow(t) .. LastRow(t))
        <5>1. s < FirstRow(t) /\ Inserted'[s] = Inserted[s]
          BY <3>2, <4>2
        <5>2. ~(FirstRow(t) = 0 \/ r \in FirstRow(t) .. LastRow(t))
          BY <1>0, <3>1, <3>6, <5>1 DEF Numeric
        <5> QED
          BY <1>1, <3>2, <3>6, <5>1, <5>2 DEF InsertIds
      <4> QED
        BY <4>1, <4>2
    <3> QED
      BY <1>2, <1>15, <3>1, <3>5, <3>6 DEF InsertIds
  <2> QED
    BY <2>1, <2>2
<1>17. DeleteIds'
  <2>1. ASSUME NEW r \in Rows, Deleted[r] # NOT_DELETED_ID
        PROVE  DeleteId(r) /\ r < count /\ Inserted'[r] <= c
    <3>1. DeleteId(r) /\ r < count /\ Inserted[r] <= last_commit
      BY <1>1, <2>1 DEF DeleteIds, DeleteId
    <3>2. Inserted[r] <= c
      BY <1>0, <1>10, <1>11, <3>1 DEF Numeric
    <3> QED
      BY <1>6, <1>10, <3>1, <3>2
  <2>2. ASSUME NEW r \in DeletedBy(t) PROVE DeleteId(r)'
    <3>1. Deleted[r] # NOT_DELETED_ID /\ r \in Rows
      BY <1>0, <1>4, <1>7, <1>9 DEF Numeric
    <3>2. c <= c /\ \A u \in Running : c # start_time[u]
      BY <1>9, <1>10
    <3> QED
      BY <1>2, <1>4, <1>7, <2>1, <3>1, <3>2 DEF DeleteId
  <2>3. ASSUME NEW r \in Rows \ DeletedBy(t) PROVE DeleteId(r)'
    <3>1. Deleted'[r] = Deleted[r] /\ Deleted[r] \in Nat
      BY <1>7, <1>11
    <3>2. CASE Deleted[r] = NOT_DELETED_ID
      BY <3>1, <3>2 DEF DeleteId
    <3>3. CASE Deleted[r] # NOT_DELETED_ID /\ Deleted[r] <= last_commit
               /\ \A u \in Running : Deleted[r] # start_time[u]
      <4>1. Deleted[r] <= c
        BY <1>0, <1>10, <3>1, <3>3 DEF Numeric
      <4> QED
        BY <1>2, <1>4, <2>1, <3>1, <3>3, <4>1 DEF DeleteId
    <3>4. ASSUME NEW u \in Running, Deleted[r] = transaction_id[u], r \in DeletedBy(u),
                 Deleted[r] # NOT_DELETED_ID
          PROVE  DeleteId(r)'
      <4>1. u # t /\ u \in Running' /\ u \in Txns
        BY <1>4, <1>9, <3>4
      <4> QED
        BY <1>2, <1>4, <2>1, <3>1, <3>4, <4>1 DEF DeleteId
    <3> QED
      BY <2>1, <3>2, <3>3, <3>4 DEF DeleteId
  <2>4. ASSUME NEW u \in Running', NEW r \in DeletedBy(u) PROVE Deleted'[r] = transaction_id[u]
    <3>1. u \in Running /\ u # t /\ Deleted[r] = transaction_id[u]
      BY <1>1, <1>4, <2>4 DEF DeleteIds
    <3>2. r \in Rows /\ transaction_id[u] # transaction_id[t]
      BY <1>1, <1>4, <3>1, RunningIds DEF Clocks
    <3> QED
      BY <1>7, <3>1, <3>2
  <2> QED
    BY <1>0, <1>2, <1>4, <2>2, <2>3, <2>4 DEF DeleteIds, Typed
<1>18. CleanupSafe'
  <2>1. ASSUME NEW u \in Txns, cleanup'[u] # NoCleanup, append_info[u] # <<>>, LastRow(u) = VectorSize - 1
        PROVE  /\ cleanup'[u] <= TRANSACTION_ID_START
               /\ \A r \in Rows, v \in Running' : Inserted'[r] <= cleanup'[u] => Inserted'[r] < start_time[v]
    <3>1. CASE u = t
      <4>1. cleanup'[u] = low
        BY <1>4, <2>1, <3>1
      <4>2. ASSUME NEW r \in Rows, NEW v \in Running', Inserted'[r] <= low
            PROVE  Inserted'[r] < start_time[v]
        <5>1. Inserted'[r] # start_time[v]
          BY <1>2, <1>15 DEF InsertId
        <5>2. low <= start_time[v] /\ start_time[v] \in Nat
          BY <1>4, <1>5, <1>9
        <5>3. Inserted'[r] \in Nat
          BY <1>6, <1>10, <1>11
        <5> QED
          BY <1>5, <4>2, <5>1, <5>2, <5>3
      <4> QED
        BY <1>5, <4>1, <4>2
    <3>2. CASE u # t
      <4>1. cleanup'[u] = cleanup[u]
        BY <1>4, <3>2
      <4>2. ~Flushed(t)
        BY <1>1, <2>1, <4>1, FullVector
      <4> QED
        BY <1>1, <1>4, <1>6, <2>1, <4>1, <4>2 DEF CleanupSafe
    <3> QED
      BY <3>1, <3>2
  <2> QED
    BY <1>2, <1>4, <2>1 DEF CleanupSafe
<1>19. Lowest'
  <2>1. ASSUME NEW id \in Nat, SeenByAll(id) PROVE SeenByAll(id)'
    BY <1>2, <1>4, <1>10, <2>1 DEF SeenByAll
  <2>2. ASSUME checkpoint'.pc = "table" PROVE LowestRead'
    <3>1. checkpoint' = checkpoint /\ checkpoint.pc = "table" /\ LowestRead
      BY <1>1, <1>8, <2>2 DEF Lowest
    <3>2. Inserted' = Inserted
      BY <1>6, <1>13, <3>1 DEF UnderWay
    <3>3. ASSUME NEW r \in DeletedBy(t) PROVE ~(Deleted'[r] < checkpoint.lowest)
      <4>1. checkpoint.lowest <= start_time[t]
        BY <1>4, <1>7, <3>1 DEF LowestRead
      <4> QED
        BY <1>0, <1>4, <1>7, <1>9, <1>10, <4>1, SMTT(30) DEF Numeric
    <3>4. ASSUME NEW r \in Rows, Inserted[r] < checkpoint.lowest PROVE SeenByAll(Inserted[r])'
      <4> PICK id : id = Inserted[r]
        OBVIOUS
      <4>1. id \in Nat /\ SeenByAll(id) /\ Inserted'[r] = id
        BY <1>11, <3>1, <3>2, <3>4 DEF LowestRead
      <4> QED
        BY <2>1, <4>1 DEF SeenByAll
    <3>5. ASSUME NEW r \in Rows, Deleted'[r] # NOT_DELETED_ID, Deleted'[r] < checkpoint.lowest
          PROVE  SeenByAll(Deleted[r])'
      <4> PICK id : id = Deleted[r]
        OBVIOUS
      <4>1. id \in Nat /\ SeenByAll(id) /\ Deleted'[r] = id
        BY <1>7, <1>11, <3>1, <3>3, <3>5 DEF LowestRead
      <4> QED
        BY <2>1, <4>1 DEF SeenByAll
    <3> QED
      BY <1>2, <1>4, <3>1, <3>2, <3>4, <3>5 DEF LowestRead
  <2>3. LowestRead'
    BY <2>2 DEF LowestRead
  <2> QED
    BY <1>2, <1>5, <1>8, <2>3 DEF Lowest
<1>20. Stored'
  <2> SUFFICES ASSUME "fail" \notin behaviours PROVE Stored'
    BY <1>2 DEF Stored
  <2>1. ASSUME NEW r \in Rows PROVE StoredInsert(r)'
    <3>1. StoredInsert(r) /\ Inserted[r] \in Nat
      BY <1>1, <1>11 DEF Stored
    <3>2. CASE Inserted'[r] = c
      BY <1>2, <1>10, <3>2 DEF StoredInsert
    <3>3. CASE Inserted'[r] = Inserted[r] /\ Inserted[r] <= last_commit
      <4>1. Inserted[r] <= c
        BY <1>0, <1>10, <3>1, <3>3 DEF Numeric
      <4> QED
        BY <1>2, <3>3, <4>1 DEF StoredInsert
    <3>4. ASSUME NEW u \in Txns, Flushed(u), Inserted[r] = transaction_id[u], Inserted'[r] = Inserted[r],
                 FirstRow(u) = 0 \/ r \in FirstRow(u) .. LastRow(u)
          PROVE  StoredInsert(r)'
      <4>1. CASE u = t
        BY <1>6, <3>2, <3>4, <4>1
      <4>2. CASE u # t
        <5>1. Flushed(u)'
          BY <1>4, <3>4, <4>2
        <5> QED
          BY <1>2, <1>4, <3>4, <5>1 DEF StoredInsert
      <4> QED
        BY <4>1, <4>2
    <3> QED
      BY <1>6, <3>1, <3>2, <3>3, <3>4 DEF StoredInsert
  <2>2. /\ Unwritten \in Nat /\ Invalid = 0
        /\ undo_buffer[t] # <<>> => c <= Unwritten' /\ Unwritten' # Invalid /\ Unwritten <= Unwritten'
        /\ undo_buffer[t] = <<>> => Unwritten' = Unwritten
    <3>1. Unwritten \in Nat /\ Invalid = 0
      BY <1>0, Constants DEF Numeric
    <3>2. c # 0
      BY <1>0 DEF Numeric
    <3> QED
      BY <1>4, <1>10, <3>1, <3>2
  <2>3. ASSUME NEW r \in Rows PROVE StoredDelete(r)'
    <3>1. CASE r \in DeletedBy(t)
      <4>1. undo_buffer[t] # <<>> /\ Deleted'[r] = c
        BY <1>7, <3>1
      <4> QED
        BY <2>2, <4>1 DEF StoredDelete
    <3>2. CASE r \notin DeletedBy(t)
      <4>1. Deleted'[r] = Deleted[r] /\ Deleted[r] \in Nat /\ StoredDelete(r)
        BY <1>1, <1>7, <1>11, <3>2 DEF Stored
      <4>2. CASE undo_buffer[t] = <<>>
        BY <1>4, <2>2, <4>1, <4>2 DEF StoredDelete
      <4>3. CASE undo_buffer[t] # <<>>
        <5>1. Deleted[r] < TRANSACTION_ID_START => Deleted[r] <= last_commit
          BY CommittedDeletes
        <5>2. Unwritten' \in Nat
          BY <1>4, <1>10, <2>2
        <5>3. Deleted[r] < TRANSACTION_ID_START => Deleted[r] <= Unwritten'
          BY <1>0, <1>10, <2>2, <4>1, <4>3, <5>1, <5>2 DEF Numeric
        <5> QED
          BY <2>2, <4>1, <4>3, <5>3 DEF StoredDelete
      <4> QED
        BY <4>2, <4>3
    <3> QED
      BY <3>1, <3>2
  <2>4. ASSUME NEW r \in version_info.storage PROVE Deleted'[r] < TRANSACTION_ID_START
    <3>1. r \in Rows /\ Deleted[r] < TRANSACTION_ID_START
      BY <1>0, <1>1 DEF Stored, Typed
    <3> QED
      BY <1>7, <1>10, <3>1
  <2> QED
    BY <1>4, <2>1, <2>3, <2>4 DEF Stored
<1>21. FullAlone'
  BY <1>1, <1>2, <1>4, <1>8 DEF FullAlone, UnderWay
<1>22. Image'
  <2> SUFFICES ASSUME "fail" \notin behaviours, checkpoint.pc \in UnderWay, checkpoint' = checkpoint
               PROVE  Image'
    BY <1>2, <1>8 DEF Image, UnderWay
  <2>1. Inserted' = Inserted
    BY <1>6, <1>13
  <2>2. checkpoint.id \in Nat /\ checkpoint.id <= last_commit
    BY <1>0 DEF ShapeInv, ActiveCheckpoint, Numeric
  <2>3. ASSUME NEW r \in Rows PROVE (Deleted'[r] <= checkpoint.id) <=> (Deleted[r] <= checkpoint.id)
    <3>1. CASE r \in DeletedBy(t)
      <4>1. Deleted'[r] = c /\ Deleted[r] = transaction_id[t]
        BY <1>7, <3>1
      <4> QED
        BY <1>0, <1>4, <1>9, <1>10, <2>2, <4>1, SMTT(30) DEF Numeric
    <3>2. CASE r \notin DeletedBy(t)
      BY <1>7, <3>2
    <3> QED
      BY <3>1, <3>2
  <2>4. checkpoint.type = "full" => \A r \in Rows : Deleted'[r] = Deleted[r]
    BY <1>1, <1>4, <1>7 DEF FullAlone
  <2>5. Written' = Written
    BY <1>2, <1>4 DEF Written
  <2>6. {r \in 0 .. count - 1 : ~(Deleted'[r] <= checkpoint.id)}
            = {r \in 0 .. count - 1 : ~(Deleted[r] <= checkpoint.id)}
    BY <1>12, <2>3
  <2>7. version_info.storage \subseteq Rows
    BY <1>0 DEF Typed
  <2> QED
    BY <1>1, <1>2, <1>4, <2>1, <2>3, <2>4, <2>5, <2>6, <2>7 DEF Image, Exact
<1> QED
  BY <1>14, <1>16, <1>17, <1>18, <1>19, <1>20, <1>21, <1>22 DEF VersionInv

-----------------------------------------------------------------------------
(* VersionInv is inductive: rollbacks *)

\* An append to an empty vector: nothing is deleted.  Rows that are deleted are before the append
\* of a transaction that has been flushed.
LEMMA DeletedBefore ==
    ASSUME ShapeInv, VersionInv, NEW t \in Txns, Flushed(t), NEW r \in Rows, Deleted[r] # NOT_DELETED_ID
    PROVE  r \in 0 .. FirstRow(t) - 1 /\ FirstRow(t) # 0 /\ r \in 0 .. count - 1
<1>0. Numeric /\ Typed
  BY Numbers, Functions
<1>1. Clocks /\ InsertIds /\ DeleteIds
  BY DEF VersionInv
<1>2. r < count /\ Inserted[r] <= last_commit /\ Inserted[r] \in Nat /\ r \in Nat
  BY <1>0, <1>1, Constants DEF DeleteIds, DeleteId, Typed
<1>3. r \in 0 .. count - 1
  BY <1>0, <1>2 DEF Numeric
<1>4. UsedRow(r)
  BY <1>1, <1>3 DEF InsertIds
<1>5. ASSUME NEW u \in Txns, Flushed(u), Inserted[r] = transaction_id[u] PROVE FALSE
  <2>1. TRANSACTION_ID_START <= transaction_id[u] /\ transaction_id[u] \in Nat
    BY <1>1, <1>5, FlushedAlone, RunningIds
  <2> QED
    BY <1>0, <1>2, <1>5, <2>1 DEF Numeric
<1>6. r < FirstRow(t)
  BY <1>4, <1>5 DEF UsedRow
<1>7. FirstRow(t) \in Nat
  BY FlushedAlone, AppendRows
<1> QED
  BY <1>2, <1>3, <1>6, <1>7

\* What the rollback of t does: its deletes are undone, and its append is cut off the vector; d is
\* the number of commit ids that it draws.
RollsBack(t, d, low) ==
    /\ t \in Running /\ d \in {0, 1}
    /\ \A r \in DeletedBy(t) : Deleted'[r] = NOT_DELETED_ID
    /\ \A r \in Rows \ DeletedBy(t) : Deleted'[r] = Deleted[r]
    /\ ~Flushed(t) => Inserted' = Inserted /\ ConstantInsert' = ConstantInsert /\ count' = count
    /\ Flushed(t) => "fail" \in behaviours /\ count' = FirstRow(t)
    /\ \A r \in 0 .. count' - 1 : Inserted'[r] = Inserted[r]
    /\ \A r \in Rows : \/ Inserted'[r] \in {0, Inserted[r]}
                       \/ Inserted'[r] = current_start_timestamp /\ d = 1
    /\ version_info'.storage = version_info.storage
    /\ "fail" \notin behaviours =>
        IF undo_buffer[t] # <<>> THEN NOT_DELETED_ID <= Unwritten' ELSE Unwritten' = Unwritten
    /\ Running' = Running \ {t}
    /\ \A u \in Txns : Flushed(u)' <=> (Flushed(u) /\ u # t)
    /\ \A u \in Txns \ {t} : /\ FirstRow(u)' = FirstRow(u) /\ LastRow(u)' = LastRow(u)
                            /\ DeletedBy(u)' = DeletedBy(u)
                            /\ undo_buffer'[u] = undo_buffer[u] /\ append_info'[u] = append_info[u]
                            /\ cleanup'[u] = cleanup[u]
    /\ \A u \in Txns : status'[u] = "idle" => (status[u] = "idle" /\ u # t)
    /\ cleanup'[t] = NoCleanup
    /\ current_start_timestamp' = current_start_timestamp + d
    /\ current_transaction_id' = current_transaction_id /\ last_commit' = last_commit
    /\ lowest_active_start' = low /\ low \in Nat /\ low <= TRANSACTION_ID_START
    /\ \A u \in Running' : low <= start_time[u]
    /\ checkpoint.bind # 0 => low <= checkpoint.bind
    /\ start_time' = start_time /\ transaction_id' = transaction_id
    /\ checkpoint' = checkpoint /\ behaviours' = behaviours

\* RollbackEffect does that to everything but the ids.
LEMMA RollbackFrame ==
    ASSUME ShapeInv, NEW t \in Running, NEW m, RollbackEffect(t, m)
    PROVE  /\ Running' = Running \ {t}
           /\ \A u \in Txns : Flushed(u)' <=> (Flushed(u) /\ u # t)
           /\ \A u \in Txns \ {t} : /\ FirstRow(u)' = FirstRow(u) /\ LastRow(u)' = LastRow(u)
                                   /\ DeletedBy(u)' = DeletedBy(u)
                                   /\ undo_buffer'[u] = undo_buffer[u] /\ append_info'[u] = append_info[u]
                                   /\ cleanup'[u] = cleanup[u]
           /\ \A u \in Txns : status'[u] = "idle" => (status[u] = "idle" /\ u # t)
           /\ cleanup'[t] = NoCleanup
           /\ current_transaction_id' = current_transaction_id
           /\ start_time' = start_time /\ transaction_id' = transaction_id
           /\ checkpoint' = checkpoint /\ behaviours' = behaviours
           /\ count' = IF append_info[t] = <<>> THEN count ELSE FirstRow(t)
           /\ version_info' = ApplyRollback(m, t)
           /\ \E low : /\ lowest_active_start' = low /\ low \in Nat /\ low <= TRANSACTION_ID_START
                       /\ \A u \in Running' : low <= start_time[u]
                       /\ checkpoint.bind # 0 => low <= checkpoint.bind
<1>1. /\ status' = [status EXCEPT ![t] = "done"] /\ t \in Txns
      /\ lowest_active_start' = LowestStartTime(t)
      /\ cleanup' = [cleanup EXCEPT ![t] = NoCleanup]
      /\ undo_buffer' = [undo_buffer EXCEPT ![t] = <<>>]
      /\ append_info' = [append_info EXCEPT ![t] = <<>>]
  BY DEF RollbackEffect, RemoveTransaction, Running
<1>2. /\ current_transaction_id' = current_transaction_id
      /\ start_time' = start_time /\ transaction_id' = transaction_id
      /\ checkpoint' = checkpoint /\ behaviours' = behaviours
      /\ count' = IF append_info[t] = <<>> THEN count ELSE FirstRow(t)
      /\ version_info' = ApplyRollback(m, t)
  BY DEF RollbackEffect, FirstRow
<1>3. /\ status \in [Txns -> Statuses] /\ cleanup \in [Txns -> Ids]
      /\ undo_buffer \in [Txns -> Seq(DeleteInfos)]
      /\ append_info \in [Txns -> {<<>>} \cup (Rows \X Rows)]
  BY DEF ShapeInv, Types
<1>4. /\ Running' = Running \ {t}
      /\ \A u \in Txns : Flushed(u)' <=> (Flushed(u) /\ u # t)
      /\ \A u \in Txns : status'[u] = "idle" => (status[u] = "idle" /\ u # t)
  BY <1>1, <1>3 DEF Running, Flushed
<1>5. /\ \A u \in Txns \ {t} : /\ undo_buffer'[u] = undo_buffer[u] /\ append_info'[u] = append_info[u]
                              /\ cleanup'[u] = cleanup[u]
      /\ cleanup'[t] = NoCleanup
  BY <1>1, <1>3
<1>6. \A u \in Txns \ {t} : /\ FirstRow(u)' = FirstRow(u) /\ LastRow(u)' = LastRow(u)
                           /\ DeletedBy(u)' = DeletedBy(u)
  BY <1>5 DEF FirstRow, LastRow, DeletedBy
<1> PICK low : low = LowestStartTime(t)
  OBVIOUS
<1>7. /\ low \in Nat /\ low <= TRANSACTION_ID_START
      /\ \A u \in Running' : low <= start_time[u]
      /\ checkpoint.bind # 0 => low <= checkpoint.bind
  BY <1>1, <1>4, LowestStartTimeType, Constants DEF ShapeInv
<1> QED
  BY <1>1, <1>2, <1>4, <1>5, <1>6, <1>7

\* A rollback of what has not got a commit id.
LEMMA RollbackRows ==
    ASSUME ShapeInv, VersionInv, NEW t \in Running, RollbackOf(version_info, version_info', t),
           count' = IF append_info[t] = <<>> THEN count ELSE FirstRow(t)
    PROVE  /\ \A r \in DeletedBy(t) : Deleted'[r] = NOT_DELETED_ID
           /\ \A r \in Rows \ DeletedBy(t) : Deleted'[r] = Deleted[r]
           /\ ~Flushed(t) => Inserted' = Inserted /\ ConstantInsert' = ConstantInsert /\ count' = count
           /\ Flushed(t) => count' = FirstRow(t)
           /\ \A r \in 0 .. count' - 1 : Inserted'[r] = Inserted[r]
           /\ \A r \in Rows : Inserted'[r] \in {0, Inserted[r]}
           /\ version_info'.storage = version_info.storage
           /\ IF undo_buffer[t] # <<>> THEN NOT_DELETED_ID <= Unwritten' ELSE Unwritten' = Unwritten
<1>0. Numeric /\ Typed
  BY Numbers, Functions
<1>1. t \in Txns /\ (append_info[t] # <<>> <=> Flushed(t))
  BY RunningAppends
<1>2. DeletedBy(t) \subseteq Rows
  BY <1>1, DeletedRowsOf DEF ShapeInv
<1>3. /\ version_info'.storage = version_info.storage
      /\ Unwritten' = IF undo_buffer[t] # <<>> /\ (Unwritten = Invalid \/ NOT_DELETED_ID > Unwritten)
                      THEN NOT_DELETED_ID ELSE Unwritten
      /\ Flushed(t) /\ FirstRow(t) = 0 => /\ Inserted' = [r \in Rows |-> 0]
                                          /\ Deleted' = [r \in Rows |-> NOT_DELETED_ID]
      /\ ~(Flushed(t) /\ FirstRow(t) = 0) =>
            /\ Inserted' = Inserted /\ ConstantInsert' = ConstantInsert
            /\ Deleted' = [r \in Rows |-> IF r \in DeletedBy(t) THEN NOT_DELETED_ID ELSE Deleted[r]]
  BY <1>1 DEF RollbackOf, Unwritten, Inserted, Deleted, ConstantInsert
<1>4. IF undo_buffer[t] # <<>> THEN NOT_DELETED_ID <= Unwritten' ELSE Unwritten' = Unwritten
  BY <1>0, <1>3 DEF Numeric
<1>5. CASE Flushed(t) /\ FirstRow(t) = 0
  <2>1. \A r \in Rows : Deleted[r] = NOT_DELETED_ID
    BY <1>1, <1>5, DeletedBefore
  <2>2. count' = 0
    BY <1>1, <1>5
  <2>3. \A r \in Rows : Inserted'[r] = 0 /\ Deleted'[r] = NOT_DELETED_ID
    BY <1>3, <1>5
  <2>4. \A r \in 0 .. count' - 1 : FALSE
    BY <2>2
  <2> QED
    BY <1>2, <1>3, <1>4, <1>5, <2>1, <2>2, <2>3, <2>4
<1>6. CASE ~(Flushed(t) /\ FirstRow(t) = 0)
  <2>1. /\ Inserted' = Inserted /\ ConstantInsert' = ConstantInsert
        /\ \A r \in Rows : Deleted'[r] = IF r \in DeletedBy(t) THEN NOT_DELETED_ID ELSE Deleted[r]
    BY <1>3, <1>6
  <2> QED
    BY <1>1, <1>2, <1>3, <1>4, <2>1
<1> QED
  BY <1>5, <1>6

\* RollbackTransaction, CommitFails and FlushFails do that.
LEMMA RollbackStepEffect ==
    ASSUME ShapeInv, VersionInv, NEW t \in Txns, RollbackTransaction(t) \/ CommitFails(t) \/ FlushFails(t)
    PROVE  \E d, low : RollsBack(t, d, low)
<1>0. Numeric /\ Typed /\ Types /\ Good(version_info)
  BY Numbers, Functions DEF ShapeInv
<1>1. t \in Running
  BY DEF RollbackTransaction, CommitFails, FlushFails, Running
<1>2. append_info[t] # <<>> <=> Flushed(t)
  BY <1>1, RunningAppends
<1>3. CASE RollbackTransaction(t) \/ CommitFails(t)
  <2>1. RollbackEffect(t, version_info) /\ last_commit' = last_commit
    BY <1>3 DEF RollbackTransaction, CommitFails
  <2>2. PICK d \in {0, 1} : current_start_timestamp' = current_start_timestamp + d
    BY <1>0, <1>3 DEF RollbackTransaction, CommitFails, Numeric
  <2>3. Flushed(t) => "fail" \in behaviours
    BY <1>3 DEF RollbackTransaction, CommitFails, Flushed
  <2> PICK m : m = version_info
    OBVIOUS
  <2>4. /\ version_info' = ApplyRollback(m, t)
        /\ count' = IF append_info[t] = <<>> THEN count ELSE FirstRow(t)
    BY <1>1, <2>1, RollbackFrame
  <2>5. RollbackOf(m, ApplyRollback(m, t), t)
    BY <1>0, ApplyRollbackEffect
  <2>6. RollbackOf(version_info, version_info', t)
    BY <2>4, <2>5
  <2>7. PICK low : /\ lowest_active_start' = low /\ low \in Nat /\ low <= TRANSACTION_ID_START
                   /\ \A u \in Running' : low <= start_time[u]
                   /\ checkpoint.bind # 0 => low <= checkpoint.bind
    BY <1>1, <2>1, RollbackFrame
  <2>8. /\ Running' = Running \ {t}
        /\ \A u \in Txns : Flushed(u)' <=> (Flushed(u) /\ u # t)
        /\ \A u \in Txns \ {t} : /\ FirstRow(u)' = FirstRow(u) /\ LastRow(u)' = LastRow(u)
                                /\ DeletedBy(u)' = DeletedBy(u)
                                /\ undo_buffer'[u] = undo_buffer[u] /\ append_info'[u] = append_info[u]
                                /\ cleanup'[u] = cleanup[u]
        /\ \A u \in Txns : status'[u] = "idle" => (status[u] = "idle" /\ u # t)
        /\ cleanup'[t] = NoCleanup
        /\ current_transaction_id' = current_transaction_id
        /\ start_time' = start_time /\ transaction_id' = transaction_id
        /\ checkpoint' = checkpoint /\ behaviours' = behaviours
    BY <1>1, <2>1, RollbackFrame
  <2>9. /\ \A r \in DeletedBy(t) : Deleted'[r] = NOT_DELETED_ID
        /\ \A r \in Rows \ DeletedBy(t) : Deleted'[r] = Deleted[r]
        /\ ~Flushed(t) => Inserted' = Inserted /\ ConstantInsert' = ConstantInsert /\ count' = count
        /\ Flushed(t) => count' = FirstRow(t)
        /\ \A r \in 0 .. count' - 1 : Inserted'[r] = Inserted[r]
        /\ \A r \in Rows : Inserted'[r] \in {0, Inserted[r]}
        /\ version_info'.storage = version_info.storage
        /\ IF undo_buffer[t] # <<>> THEN NOT_DELETED_ID <= Unwritten' ELSE Unwritten' = Unwritten
    BY <1>1, <2>4, <2>6, RollbackRows
  <2>10. RollsBack(t, d, low)
    BY <1>1, <2>1, <2>2, <2>3, <2>7, <2>8, <2>9 DEF RollsBack
  <2> QED
    BY <2>10
<1>4. CASE FlushFails(t)
  <2> PICK c : c = current_start_timestamp
    OBVIOUS
  <2> PICK m : m = RevertAppend(CommitDeletes(ApplyCommit(version_info, t, c), transaction_id[t],
                                             undo_buffer[t]), append_info[t][1])
    OBVIOUS
  <2>1. /\ RollbackEffect(t, m) /\ last_commit' = last_commit /\ Flushed(t) /\ "fail" \in behaviours
        /\ current_start_timestamp' = current_start_timestamp + 1
    BY <1>4 DEF FlushFails, Flushed
  <2>2. c \in Ids
    BY <1>0, Constants DEF Numeric
  <2>3. /\ version_info' = ApplyRollback(m, t)
        /\ count' = FirstRow(t)
    BY <1>1, <1>2, <2>1, RollbackFrame
  <2> PICK new : new = version_info'
    OBVIOUS
  <2>4. new = ApplyRollback(RevertAppend(CommitDeletes(ApplyCommit(version_info, t, c), transaction_id[t],
                                             undo_buffer[t]), append_info[t][1]), t)
    BY <2>3
  <2>5. FlushFailedOf(new, t, c)
    BY <2>1, <2>2, <2>4, FlushFailsEffect
  <2>6. PICK low : /\ lowest_active_start' = low /\ low \in Nat /\ low <= TRANSACTION_ID_START
                   /\ \A u \in Running' : low <= start_time[u]
                   /\ checkpoint.bind # 0 => low <= checkpoint.bind
    BY <1>1, <2>1, RollbackFrame
  <2>7. /\ Running' = Running \ {t}
        /\ \A u \in Txns : Flushed(u)' <=> (Flushed(u) /\ u # t)
        /\ \A u \in Txns \ {t} : /\ FirstRow(u)' = FirstRow(u) /\ LastRow(u)' = LastRow(u)
                                /\ DeletedBy(u)' = DeletedBy(u)
                                /\ undo_buffer'[u] = undo_buffer[u] /\ append_info'[u] = append_info[u]
                                /\ cleanup'[u] = cleanup[u]
        /\ \A u \in Txns : status'[u] = "idle" => (status[u] = "idle" /\ u # t)
        /\ cleanup'[t] = NoCleanup
        /\ current_transaction_id' = current_transaction_id
        /\ start_time' = start_time /\ transaction_id' = transaction_id
        /\ checkpoint' = checkpoint /\ behaviours' = behaviours
    BY <1>1, <2>1, RollbackFrame
  <2>8. /\ version_info'.storage = version_info.storage
        /\ FirstRow(t) = 0 => /\ Inserted' = [r \in Rows |-> 0]
                              /\ Deleted' = [r \in Rows |-> NOT_DELETED_ID]
        /\ FirstRow(t) # 0 =>
            /\ Deleted' = [r \in Rows |-> IF r \in DeletedBy(t) THEN NOT_DELETED_ID ELSE Deleted[r]]
            /\ ~ConstantInsert => Inserted' = [r \in Rows |-> IF r \in FirstRow(t) .. LastRow(t)
                                                             THEN c ELSE Inserted[r]]
    BY <2>5 DEF FlushFailedOf, Inserted, Deleted, ConstantInsert
  <2>9. ConstantInsert <=> FirstRow(t) = 0
    BY <2>1 DEF VersionInv, InsertIds
  <2>10. DeletedBy(t) \subseteq Rows /\ FirstRow(t) \in Nat /\ FirstRow(t) \in Rows
    BY <1>0, <1>2, <2>1, DeletedRowsOf, AppendRows
  <2>11. CASE FirstRow(t) = 0
    <3>1. \A r \in Rows : Deleted[r] = NOT_DELETED_ID
      BY <2>1, <2>11, DeletedBefore
    <3>2. \A r \in Rows : Inserted'[r] = 0 /\ Deleted'[r] = NOT_DELETED_ID
      BY <2>8, <2>11
    <3>3. \A r \in 0 .. count' - 1 : FALSE
      BY <2>3, <2>11
    <3>4. RollsBack(t, 1, low)
      BY <1>1, <2>1, <2>3, <2>6, <2>7, <2>8, <2>10, <3>1, <3>2, <3>3 DEF RollsBack
    <3> QED
      BY <3>4
  <2>12. CASE FirstRow(t) # 0
    <3>1. \A r \in Rows : Inserted'[r] = IF r \in FirstRow(t) .. LastRow(t) THEN c ELSE Inserted[r]
      BY <2>8, <2>9, <2>12
    <3>2. \A r \in Rows : Deleted'[r] = IF r \in DeletedBy(t) THEN NOT_DELETED_ID ELSE Deleted[r]
      BY <2>8, <2>12
    <3>3. ASSUME NEW r \in 0 .. count' - 1 PROVE Inserted'[r] = Inserted[r]
      <4>1. r \in Rows /\ r \notin FirstRow(t) .. LastRow(t)
        BY <1>0, <2>3, <2>10 DEF Numeric
      <4> QED
        BY <3>1, <4>1
    <3>4. /\ \A r \in DeletedBy(t) : Deleted'[r] = NOT_DELETED_ID
          /\ \A r \in Rows \ DeletedBy(t) : Deleted'[r] = Deleted[r]
          /\ \A r \in Rows : Inserted'[r] \in {0, Inserted[r]} \/ Inserted'[r] = current_start_timestamp
      BY <2>10, <3>1, <3>2
    <3>5. RollsBack(t, 1, low)
      BY <1>1, <2>1, <2>3, <2>6, <2>7, <2>8, <3>3, <3>4 DEF RollsBack
    <3> QED
      BY <3>5
  <2> QED
    BY <2>11, <2>12
<1> QED
  BY <1>3, <1>4

\* A rollback.
LEMMA RollbackVersions ==
    ASSUME ShapeInv, ShapeInv', VersionInv, NEW t \in Txns,
           RollbackTransaction(t) \/ CommitFails(t) \/ FlushFails(t)
    PROVE  VersionInv'
<1>0. Numeric /\ Typed
  BY Numbers, Functions
<1>1. Clocks /\ InsertIds /\ DeleteIds /\ CleanupSafe /\ Lowest /\ Stored /\ FullAlone /\ Image
  BY DEF VersionInv
<1>2. PICK d, low : RollsBack(t, d, low)
  BY RollbackStepEffect
<1> PICK c : c = current_start_timestamp
  OBVIOUS
<1>3. /\ t \in Running /\ d \in {0, 1}
      /\ \A r \in DeletedBy(t) : Deleted'[r] = NOT_DELETED_ID
      /\ \A r \in Rows \ DeletedBy(t) : Deleted'[r] = Deleted[r]
      /\ ~Flushed(t) => Inserted' = Inserted /\ ConstantInsert' = ConstantInsert /\ count' = count
      /\ Flushed(t) => "fail" \in behaviours /\ count' = FirstRow(t)
      /\ \A r \in 0 .. count' - 1 : Inserted'[r] = Inserted[r]
      /\ \A r \in Rows : Inserted'[r] \in {0, Inserted[r]} \/ (Inserted'[r] = c /\ d = 1)
      /\ version_info'.storage = version_info.storage
      /\ "fail" \notin behaviours =>
            IF undo_buffer[t] # <<>> THEN NOT_DELETED_ID <= Unwritten' ELSE Unwritten' = Unwritten
  BY <1>2 DEF RollsBack
<1>4. /\ Running' = Running \ {t}
      /\ \A u \in Txns : Flushed(u)' <=> (Flushed(u) /\ u # t)
      /\ \A u \in Txns \ {t} : /\ FirstRow(u)' = FirstRow(u) /\ LastRow(u)' = LastRow(u)
                              /\ DeletedBy(u)' = DeletedBy(u)
                              /\ undo_buffer'[u] = undo_buffer[u] /\ append_info'[u] = append_info[u]
                              /\ cleanup'[u] = cleanup[u]
      /\ \A u \in Txns : status'[u] = "idle" => (status[u] = "idle" /\ u # t)
      /\ cleanup'[t] = NoCleanup
  BY <1>2 DEF RollsBack
<1>5. /\ current_start_timestamp' = c + d
      /\ current_transaction_id' = current_transaction_id /\ last_commit' = last_commit
      /\ lowest_active_start' = low /\ low \in Nat /\ low <= TRANSACTION_ID_START
      /\ \A u \in Running' : low <= start_time[u]
      /\ checkpoint.bind # 0 => low <= checkpoint.bind
      /\ start_time' = start_time /\ transaction_id' = transaction_id
      /\ checkpoint' = checkpoint /\ behaviours' = behaviours
  BY <1>2 DEF RollsBack
<1>6. \A u \in Running : /\ u \in Txns /\ start_time[u] \in Nat /\ start_time[u] < c /\ 2 <= start_time[u]
                        /\ transaction_id[u] \in Nat /\ TRANSACTION_ID_START <= transaction_id[u]
                        /\ transaction_id[u] < NOT_DELETED_ID
  BY <1>1, RunningIds
<1>7. c \in Nat /\ c + d \in Nat /\ c <= c + d /\ 2 <= c /\ d \in Nat
  BY <1>0, <1>3 DEF Numeric
<1>8. \A r \in Rows : Inserted[r] \in Nat /\ Deleted[r] \in Nat
  BY <1>0 DEF Typed
<1>9. /\ 0 .. count' - 1 \subseteq 0 .. count - 1 /\ 0 .. count - 1 \subseteq Rows
      /\ Flushed(t) => FirstRow(t) \in Nat
  <2>1. Flushed(t) => FirstRow(t) \in Nat /\ FirstRow(t) < count
    BY <1>0, FlushedAlone, AppendRows DEF Numeric
  <2> QED
    BY <1>0, <1>3, <2>1, SMTT(30) DEF Numeric
<1>10. DeletedBy(t) \subseteq Rows /\ \A r \in DeletedBy(t) : Deleted[r] = transaction_id[t]
  BY <1>1, <1>3, RunningIds DEF DeleteIds
<1>11. Clocks'
  <2>1. \A u \in Running' : start_time[u] \in 2 .. (c + d) - 1
    BY <1>4, <1>6, <1>7
  <2>2. checkpoint.bind # 0 => checkpoint.bind \in 2 .. (c + d) - 1
    BY <1>0, <1>1, <1>7, SMTT(30) DEF Clocks, Numeric
  <2> QED
    BY <1>1, <1>4, <1>5, <2>1, <2>2 DEF Clocks
<1>12. InsertIds'
  <2>1. ASSUME NEW r \in Rows PROVE InsertId(r)'
    <3>1. InsertId(r) /\ Inserted[r] \in Nat
      BY <1>1, <1>8 DEF InsertIds
    <3>2. CASE Inserted'[r] = 0
      <4>1. 0 < c + d /\ \A u \in Running : 0 # start_time[u]
        BY <1>6, <1>7
      <4> QED
        BY <1>4, <1>5, <3>2, <4>1 DEF InsertId
    <3>3. CASE Inserted'[r] = Inserted[r]
      <4>1. Inserted[r] < c => Inserted[r] < c + d
        BY <1>7, <3>1
      <4> QED
        BY <1>4, <1>5, <3>1, <3>3, <4>1 DEF InsertId
    <3>4. CASE Inserted'[r] = c /\ d = 1
      <4>1. c < c + d /\ \A u \in Running : c # start_time[u]
        BY <1>6, <1>7, <3>4
      <4> QED
        BY <1>4, <1>5, <3>4, <4>1 DEF InsertId
    <3> QED
      BY <1>3, <3>2, <3>3, <3>4
  <2>2. ASSUME NEW r \in 0 .. count' - 1 PROVE UsedRow(r)'
    <3>1. UsedRow(r) /\ Inserted'[r] = Inserted[r]
      BY <1>1, <1>3, <1>9 DEF InsertIds
    <3>2. CASE ~Flushed(t)
      <4>1. \A u \in Txns : Flushed(u) => u # t
        BY <3>2
      <4> QED
        BY <1>4, <1>5, <3>1, <4>1 DEF UsedRow
    <3>3. CASE Flushed(t)
      <4>1. \A u \in Txns : ~Flushed(u)' /\ (Flushed(u) => u = t)
        BY <1>4, <3>3, FlushedAlone
      <4>2. ~(FirstRow(t) <= r)
        BY <1>3, <1>9, <3>3
      <4> QED
        BY <1>5, <3>1, <4>1, <4>2 DEF UsedRow
    <3> QED
      BY <3>2, <3>3
  <2>3. \A r, s \in 0 .. count' - 1 : r <= s => Inserted'[r] <= Inserted'[s]
    BY <1>1, <1>3, <1>9 DEF InsertIds
  <2>4. ASSUME NEW u \in Txns, Flushed(u)' PROVE ConstantInsert' <=> FirstRow(u)' = 0
    <3>1. Flushed(u) /\ u # t
      BY <1>4, <2>4
    <3>2. ~Flushed(t)
      BY <3>1, FlushedAlone
    <3> QED
      BY <1>1, <1>3, <1>4, <3>1, <3>2 DEF InsertIds
  <2> QED
    BY <2>1, <2>2, <2>3, <2>4 DEF InsertIds
<1>13. DeleteIds'
  <2>1. ASSUME NEW r \in DeletedBy(t) PROVE DeleteId(r)'
    BY <1>3 DEF DeleteId
  <2>2. ASSUME NEW r \in Rows \ DeletedBy(t), Deleted[r] # NOT_DELETED_ID PROVE DeleteId(r)'
    <3>1. DeleteId(r) /\ Deleted'[r] = Deleted[r]
      BY <1>1, <1>3 DEF DeleteIds
    <3>2. r < count' /\ r \in 0 .. count' - 1
      <4>1. r < count /\ r \in Nat
        BY <2>2, <3>1, Constants DEF DeleteId
      <4>2. CASE ~Flushed(t)
        BY <1>0, <1>3, <4>1, <4>2 DEF Numeric
      <4>3. CASE Flushed(t)
        <5>1. r \in 0 .. FirstRow(t) - 1
          BY <2>2, <4>3, DeletedBefore
        <5> QED
          BY <1>3, <1>9, <4>3, <5>1
      <4> QED
        BY <4>2, <4>3
    <3>3. Inserted'[r] = Inserted[r]
      BY <1>3, <3>2
    <3>4. \A u \in Running : r \in DeletedBy(u) => u \in Running' /\ r \in DeletedBy(u)'
      BY <1>4, <1>6, <2>2
    <3> QED
      BY <1>4, <1>5, <2>2, <3>1, <3>2, <3>3, <3>4 DEF DeleteId
  <2>3. \A r \in Rows : DeleteId(r)'
    BY <1>3, <2>1, <2>2 DEF DeleteId
  <2>4. ASSUME NEW u \in Running', NEW r \in DeletedBy(u) PROVE Deleted'[r] = transaction_id[u]
    <3>1. u \in Running /\ u # t /\ Deleted[r] = transaction_id[u]
      BY <1>1, <1>4 DEF DeleteIds
    <3>2. r \in Rows /\ transaction_id[u] # transaction_id[t]
      BY <1>1, <1>3, <3>1, RunningIds DEF Clocks
    <3> QED
      BY <1>3, <1>10, <3>1, <3>2
  <2>5. \A u \in Running' : DeletedBy(u)' = DeletedBy(u)
    BY <1>4, <1>6
  <2> QED
    BY <1>5, <2>3, <2>4, <2>5 DEF DeleteIds
<1>14. CleanupSafe'
  <2>1. ASSUME NEW u \in Txns, cleanup'[u] # NoCleanup, append_info'[u] # <<>>, LastRow(u)' = VectorSize - 1
        PROVE  /\ cleanup'[u] <= TRANSACTION_ID_START
               /\ \A r \in Rows, v \in Running' : Inserted'[r] <= cleanup'[u] => Inserted'[r] < start_time[v]
    <3>1. /\ u # t /\ cleanup[u] # NoCleanup /\ append_info[u] # <<>> /\ LastRow(u) = VectorSize - 1
          /\ cleanup'[u] = cleanup[u]
      BY <1>4, <2>1
    <3>2. Inserted' = Inserted
      BY <1>1, <1>3, <3>1, FullVector
    <3> QED
      BY <1>1, <1>4, <3>1, <3>2 DEF CleanupSafe
  <2> QED
    BY <1>5, <2>1 DEF CleanupSafe
<1>15. Lowest'
  <2>1. ASSUME NEW id \in Nat, SeenByAll(id) PROVE SeenByAll(id)'
    BY <1>4, <1>5, <1>7, <2>1 DEF SeenByAll
  <2>2. ASSUME checkpoint.pc = "table" PROVE LowestRead'
    <3>1. LowestRead /\ Inserted' = Inserted
      BY <1>1, <1>3, <2>2, FlushedAlone DEF Lowest, UnderWay
    <3>2. ASSUME NEW r \in Rows, Inserted[r] < checkpoint.lowest PROVE SeenByAll(Inserted[r])'
      <4> PICK id : id = Inserted[r]
        OBVIOUS
      <4>1. id \in Nat /\ SeenByAll(id) /\ Inserted'[r] = id
        BY <1>8, <2>2, <3>1, <3>2 DEF LowestRead
      <4> QED
        BY <2>1, <4>1 DEF SeenByAll
    <3>3. ASSUME NEW r \in Rows, Deleted'[r] # NOT_DELETED_ID, Deleted'[r] < checkpoint.lowest
          PROVE  SeenByAll(Deleted[r])'
      <4> PICK id : id = Deleted[r]
        OBVIOUS
      <4>1. id \in Nat /\ SeenByAll(id) /\ Deleted'[r] = id
        BY <1>3, <1>8, <2>2, <3>1, <3>3 DEF LowestRead
      <4> QED
        BY <2>1, <4>1 DEF SeenByAll
    <3>4. \A u \in Running' : undo_buffer'[u] # <<>> => checkpoint.lowest <= start_time[u]
      BY <1>4, <1>6, <2>2, <3>1 DEF LowestRead
    <3> QED
      BY <1>5, <3>1, <3>2, <3>3, <3>4 DEF LowestRead
  <2>3. LowestRead'
    BY <1>5, <2>2 DEF LowestRead
  <2> QED
    BY <1>5, <2>3 DEF Lowest
<1>16. Stored'
  <2> SUFFICES ASSUME "fail" \notin behaviours PROVE Stored'
    BY <1>5 DEF Stored
  <2>1. /\ ~Flushed(t) /\ Inserted' = Inserted /\ count' = count
        /\ \A u \in Txns : Flushed(u) => u # t
    BY <1>3
  <2>2. \A r \in Rows : StoredInsert(r)'
    BY <1>1, <1>4, <1>5, <2>1 DEF Stored, StoredInsert
  <2>3. ASSUME NEW r \in Rows, Deleted'[r] < TRANSACTION_ID_START PROVE StoredDelete(r)'
    <3>1. Deleted'[r] = Deleted[r] /\ StoredDelete(r) /\ Deleted[r] \in Nat
      BY <1>0, <1>1, <1>3, <1>8, <2>3 DEF Stored, Numeric
    <3>2. CASE undo_buffer[t] = <<>>
      BY <1>3, <3>1, <3>2 DEF StoredDelete
    <3>3. CASE undo_buffer[t] # <<>>
      <4>1. NOT_DELETED_ID <= Unwritten' /\ Unwritten' \in Nat
        <5> PICK new : new = version_info'
          OBVIOUS
        <5>1. new.uncheckpointed_delete_commit \in Nat
          BY ManagerFields, Constants DEF ShapeInv
        <5> QED
          BY <1>3, <3>3, <5>1 DEF Unwritten
      <4>2. Unwritten' # Invalid /\ Deleted[r] <= Unwritten'
        BY <1>0, <2>3, <3>1, <4>1, Constants DEF Numeric
      <4> QED
        BY <3>1, <4>2 DEF StoredDelete
    <3> QED
      BY <3>2, <3>3
  <2>4. \A r \in Rows : StoredDelete(r)'
    BY <2>3 DEF StoredDelete
  <2>5. ASSUME NEW r \in version_info.storage PROVE Deleted'[r] < TRANSACTION_ID_START
    <3>1. r \in Rows /\ Deleted[r] < TRANSACTION_ID_START
      BY <1>0, <1>1 DEF Stored, Typed
    <3>2. r \notin DeletedBy(t)
      BY <1>0, <1>3, <1>6, <1>8, <1>10, <3>1 DEF Numeric
    <3> QED
      BY <1>3, <3>1, <3>2
  <2> QED
    BY <1>3, <2>2, <2>4, <2>5 DEF Stored
<1>17. FullAlone'
  BY <1>1, <1>4, <1>5, <1>6 DEF FullAlone
<1>18. Image'
  <2> SUFFICES ASSUME "fail" \notin behaviours, checkpoint.pc \in UnderWay
               PROVE  Image'
    BY <1>5 DEF Image, UnderWay
  <2>1. Inserted' = Inserted /\ count' = count
    BY <1>3
  <2>2. checkpoint.id \in Nat /\ checkpoint.id <= last_commit
    BY <1>0 DEF ShapeInv, ActiveCheckpoint, Numeric
  <2>3. ASSUME NEW r \in Rows PROVE (Deleted'[r] <= checkpoint.id) <=> (Deleted[r] <= checkpoint.id)
    <3>1. CASE r \in DeletedBy(t)
      <4>1. Deleted'[r] = NOT_DELETED_ID /\ Deleted[r] = transaction_id[t]
        BY <1>3, <1>10, <3>1
      <4> QED
        BY <1>0, <1>3, <1>6, <2>2, <4>1 DEF Numeric
    <3>2. CASE r \notin DeletedBy(t)
      BY <1>3, <3>2
    <3> QED
      BY <3>1, <3>2
  <2>4. \A r \in Rows : Deleted'[r] # NOT_DELETED_ID => Deleted'[r] = Deleted[r]
    BY <1>3
  <2>5. Written' = Written
    BY <1>3, <2>1 DEF Written
  <2>6. {r \in 0 .. count - 1 : ~(Deleted'[r] <= checkpoint.id)}
            = {r \in 0 .. count - 1 : ~(Deleted[r] <= checkpoint.id)}
    BY <1>9, <2>3
  <2>7. version_info.storage \subseteq Rows
    BY <1>0 DEF Typed
  <2> QED
    BY <1>1, <1>3, <1>5, <2>1, <2>3, <2>4, <2>5, <2>6, <2>7 DEF Image, Exact
<1> QED
  BY <1>11, <1>12, <1>13, <1>14, <1>15, <1>16, <1>17, <1>18 DEF VersionInv

-----------------------------------------------------------------------------
(* VersionInv is inductive: the cleanup of an append *)

\* What a cleanup does: it leaves the ids alone, or drops the vector, in which nothing is deleted,
\* every insert is committed and whatever a running transaction does not see yet is none.
CleansUp(t) ==
    /\ Deleted' = Deleted /\ Unwritten' = Unwritten
    /\ version_info'.storage = version_info.storage
    /\ \/ Inserted' = Inserted /\ ConstantInsert' = ConstantInsert
       \/ /\ Inserted' = [r \in Rows |-> 0] /\ \A u \in Txns : ~Flushed(u)
          /\ \A r \in Rows : Inserted[r] <= last_commit
          /\ \A r \in Rows, v \in Running : Inserted[r] < start_time[v]
          /\ \A r \in Rows : Deleted[r] = NOT_DELETED_ID
    /\ t \notin Running /\ t \in Txns
    /\ \A u \in Txns \ {t} : /\ FirstRow(u)' = FirstRow(u) /\ LastRow(u)' = LastRow(u)
                            /\ DeletedBy(u)' = DeletedBy(u)
                            /\ undo_buffer'[u] = undo_buffer[u] /\ append_info'[u] = append_info[u]
                            /\ cleanup'[u] = cleanup[u]
    /\ cleanup'[t] = NoCleanup /\ undo_buffer'[t] = <<>>

\* CleanupTransaction does that.
LEMMA CleanupEffect ==
    ASSUME ShapeInv, VersionInv, NEW t \in Txns, CleanupTransaction(t)
    PROVE  CleansUp(t)
<1>0. Numeric /\ Typed /\ Types /\ Good(version_info)
  BY Numbers, Functions DEF ShapeInv
<1>1. Clocks /\ InsertIds /\ DeleteIds /\ CleanupSafe
  BY DEF VersionInv
<1> PICK m, low, first, last :
        m = version_info /\ low = cleanup[t] /\ first = append_info[t][1] /\ last = append_info[t][2]
  OBVIOUS
<1>2. /\ low # NoCleanup
      /\ cleanup' = [cleanup EXCEPT ![t] = NoCleanup]
      /\ undo_buffer' = [undo_buffer EXCEPT ![t] = <<>>]
      /\ append_info' = [append_info EXCEPT ![t] = <<>>]
      /\ version_info' = IF append_info[t] = <<>> THEN m ELSE CleanupAppend(m, low, first, last)
  BY DEF CleanupTransaction
<1>3. t \notin Running
  BY <1>2 DEF ShapeInv, Appends, CleanupPending, Running
<1>4. /\ cleanup \in [Txns -> Ids] /\ undo_buffer \in [Txns -> Seq(DeleteInfos)]
      /\ append_info \in [Txns -> {<<>>} \cup (Rows \X Rows)]
  BY <1>0 DEF Types
<1>5. /\ \A u \in Txns \ {t} : /\ undo_buffer'[u] = undo_buffer[u] /\ append_info'[u] = append_info[u]
                              /\ cleanup'[u] = cleanup[u]
      /\ cleanup'[t] = NoCleanup /\ undo_buffer'[t] = <<>>
  BY <1>2, <1>4
<1>6. \A u \in Txns \ {t} : /\ FirstRow(u)' = FirstRow(u) /\ LastRow(u)' = LastRow(u)
                           /\ DeletedBy(u)' = DeletedBy(u)
  BY <1>5 DEF FirstRow, LastRow, DeletedBy
<1>7. CASE version_info' = m
  <2>1. /\ Deleted' = Deleted /\ Unwritten' = Unwritten
        /\ version_info'.storage = version_info.storage
        /\ Inserted' = Inserted /\ ConstantInsert' = ConstantInsert
    BY <1>7 DEF Deleted, Unwritten, Inserted, ConstantInsert
  <2> QED
    BY <1>3, <1>5, <1>6, <2>1 DEF CleansUp
<1>8. CASE version_info' # m
  <2>1. append_info[t] # <<>> /\ version_info' = CleanupAppend(m, low, first, last)
    BY <1>2, <1>8
  <2>2. CleanedUp(m, version_info', low, first, last)
    BY <1>0, <2>1, CleanupAppendEffect
  <2>3. /\ GetVectorInfo(version_info') = NewInfo(0) /\ version_info'.storage = m.storage
        /\ version_info'.uncheckpointed_delete_commit = m.uncheckpointed_delete_commit
        /\ last = VectorSize - 1
        /\ \A r \in Rows : GetVectorInfo(m).deleted[r] = NOT_DELETED_ID
        /\ \A r \in Rows : r # 0 \/ GetVectorInfo(m).constant_insert =>
                              GetVectorInfo(m).inserted[r] <= low
    BY <1>8, <2>2 DEF CleanedUp
  <2>4. /\ version_info'.storage = version_info.storage /\ Unwritten' = Unwritten
        /\ Inserted' = [r \in Rows |-> 0] /\ Deleted' = [r \in Rows |-> NOT_DELETED_ID]
        /\ \A r \in Rows : Deleted[r] = NOT_DELETED_ID
        /\ \A r \in Rows : r # 0 \/ ConstantInsert => Inserted[r] <= low
        /\ LastRow(t) = VectorSize - 1
    BY <2>3 DEF Unwritten, Inserted, Deleted, ConstantInsert, NewInfo, LastRow
  <2>5. Deleted' = Deleted
    <3>1. Deleted = [r \in Rows |-> NOT_DELETED_ID]
      BY <1>0, <2>4 DEF Typed
    <3> QED
      BY <2>4, <3>1
  <2>6. /\ count = VectorSize /\ \A u \in Txns : ~Flushed(u)
        /\ \A r \in Rows : Inserted[r] <= last_commit
    BY <1>1, <1>2, <2>1, <2>4, FullVector
  <2>7. \A r \in Rows, v \in Running : Inserted[r] <= low => Inserted[r] < start_time[v]
    BY <1>1, <1>2, <2>1, <2>4 DEF CleanupSafe
  <2>8. ASSUME NEW r \in Rows, NEW v \in Running PROVE Inserted[r] < start_time[v]
    <3>1. CASE r # 0 \/ ConstantInsert
      BY <2>4, <2>7, <3>1
    <3>2. CASE r = 0 /\ ~ConstantInsert
      <4>1. 1 \in Rows /\ 0 \in 0 .. count - 1 /\ 1 \in 0 .. count - 1
        BY <1>0, <2>6, <3>2 DEF Typed, Numeric
      <4>2. Inserted[0] <= Inserted[1]
        BY <1>1, <4>1 DEF InsertIds
      <4>3. Inserted[1] < start_time[v]
        BY <2>4, <2>7, <4>1
      <4>4. Inserted[0] \in Nat /\ Inserted[1] \in Nat /\ start_time[v] \in Nat
        BY <1>0, <3>2, <4>1 DEF Typed
      <4> QED
        BY <3>2, <4>2, <4>3, <4>4
    <3> QED
      BY <3>1, <3>2
  <2> QED
    BY <1>3, <1>5, <1>6, <2>4, <2>5, <2>6, <2>8 DEF CleansUp
<1> QED
  BY <1>7, <1>8

\* A cleanup.
LEMMA CleanupTransactionVersions ==
    ASSUME ShapeInv, VersionInv, NEW t \in Txns, CleanupTransaction(t)
    PROVE  VersionInv'
<1>0. Numeric /\ Typed
  BY Numbers, Functions
<1>1. Clocks /\ InsertIds /\ DeleteIds /\ CleanupSafe /\ Lowest /\ Stored /\ FullAlone /\ Image
  BY DEF VersionInv
<1>2. /\ status' = status /\ start_time' = start_time /\ transaction_id' = transaction_id
      /\ current_start_timestamp' = current_start_timestamp
      /\ current_transaction_id' = current_transaction_id
      /\ lowest_active_start' = lowest_active_start /\ last_commit' = last_commit
      /\ count' = count /\ checkpoint' = checkpoint /\ behaviours' = behaviours
  BY DEF CleanupTransaction, manager
<1>3. CleansUp(t)
  BY CleanupEffect
<1>4. /\ Deleted' = Deleted /\ Unwritten' = Unwritten
      /\ version_info'.storage = version_info.storage /\ t \notin Running
      /\ \A u \in Txns \ {t} : /\ FirstRow(u)' = FirstRow(u) /\ LastRow(u)' = LastRow(u)
                              /\ DeletedBy(u)' = DeletedBy(u)
                              /\ undo_buffer'[u] = undo_buffer[u] /\ append_info'[u] = append_info[u]
                              /\ cleanup'[u] = cleanup[u]
      /\ cleanup'[t] = NoCleanup /\ undo_buffer'[t] = <<>>
  BY <1>3 DEF CleansUp
<1>5. \/ Inserted' = Inserted /\ ConstantInsert' = ConstantInsert
      \/ /\ Inserted' = [r \in Rows |-> 0] /\ \A u \in Txns : ~Flushed(u)
         /\ \A r \in Rows : Inserted[r] <= last_commit
         /\ \A r \in Rows, v \in Running : Inserted[r] < start_time[v]
         /\ \A r \in Rows : Deleted[r] = NOT_DELETED_ID
  BY <1>3 DEF CleansUp
<1>6. /\ Running' = Running /\ \A u \in Txns : Flushed(u)' <=> Flushed(u)
      /\ \A u \in Txns : Flushed(u) => u # t
      /\ \A u \in Running : u # t /\ u \in Txns
  BY <1>2, <1>4 DEF Running, Flushed
<1>7. \A u \in Running : start_time[u] \in Nat /\ 2 <= start_time[u]
  BY <1>1, RunningIds
<1>8. \A r \in Rows : Inserted'[r] \in {0, Inserted[r]} /\ Inserted[r] \in Nat
  BY <1>0, <1>5 DEF Typed
<1>9. Clocks'
  BY <1>1, <1>2, <1>4, <1>6 DEF Clocks
<1>10. InsertIds'
  <2>1. ASSUME NEW r \in Rows PROVE InsertId(r)'
    <3>1. CASE Inserted'[r] = Inserted[r]
      BY <1>1, <1>2, <1>6, <3>1 DEF InsertIds, InsertId
    <3>2. CASE Inserted'[r] = 0
      <4>1. 0 < current_start_timestamp /\ \A u \in Running : 0 # start_time[u]
        BY <1>0, <1>7 DEF Numeric
      <4> QED
        BY <1>2, <1>6, <3>2, <4>1 DEF InsertId
    <3> QED
      BY <1>8, <3>1, <3>2
  <2>2. CASE Inserted' = Inserted /\ ConstantInsert' = ConstantInsert
    BY <1>1, <1>2, <1>4, <1>6, <2>1, <2>2 DEF InsertIds, UsedRow
  <2>3. CASE Inserted' = [r \in Rows |-> 0] /\ \A u \in Txns : ~Flushed(u)
    <3>1. \A r \in 0 .. count - 1 : r \in Rows /\ Inserted'[r] = 0
      BY <1>0, <2>3 DEF Numeric
    <3>2. \A r \in 0 .. count - 1 : UsedRow(r)'
      BY <1>0, <1>2, <1>6, <2>3, <3>1 DEF UsedRow, Numeric
    <3> QED
      BY <1>2, <1>6, <2>1, <2>3, <3>1, <3>2 DEF InsertIds
  <2> QED
    BY <1>5, <2>2, <2>3
<1>11. DeleteIds'
  <2>1. ASSUME NEW r \in Rows, Deleted[r] # NOT_DELETED_ID PROVE DeleteId(r)'
    <3>1. DeleteId(r) /\ Inserted' = Inserted
      BY <1>1, <1>5, <2>1 DEF DeleteIds
    <3>2. \A u \in Running : DeletedBy(u)' = DeletedBy(u)
      BY <1>4, <1>6
    <3> QED
      BY <1>2, <1>4, <1>6, <2>1, <3>1, <3>2 DEF DeleteId
  <2>2. \A r \in Rows : DeleteId(r)'
    BY <1>4, <2>1 DEF DeleteId
  <2> QED
    BY <1>1, <1>2, <1>4, <1>6, <2>2 DEF DeleteIds
<1>12. CleanupSafe'
  <2>1. ASSUME NEW u \in Txns, cleanup'[u] # NoCleanup, append_info'[u] # <<>>, LastRow(u)' = VectorSize - 1
        PROVE  /\ cleanup'[u] <= TRANSACTION_ID_START
               /\ \A r \in Rows, v \in Running : Inserted'[r] <= cleanup'[u] => Inserted'[r] < start_time[v]
    <3>1. u # t /\ cleanup'[u] = cleanup[u] /\ append_info[u] # <<>> /\ LastRow(u) = VectorSize - 1
      BY <1>4, <2>1
    <3>2. \A v \in Running : 0 < start_time[v]
      BY <1>7
    <3> QED
      BY <1>1, <1>8, <2>1, <3>1, <3>2 DEF CleanupSafe
  <2> QED
    BY <1>2, <1>6, <2>1 DEF CleanupSafe
<1>13. Lowest'
  <2>1. ASSUME NEW id, SeenByAll(id) PROVE SeenByAll(id)'
    BY <1>2, <1>6, <2>1 DEF SeenByAll
  <2>2. SeenByAll(0)
    BY <1>0, <1>7 DEF SeenByAll, Numeric
  <2>3. ASSUME checkpoint.pc = "table" PROVE LowestRead'
    <3>1. LowestRead
      BY <1>1 DEF Lowest
    <3>2. ASSUME NEW r \in Rows, Inserted'[r] < checkpoint.lowest PROVE SeenByAll(Inserted[r])'
      <4> PICK id : id = Inserted'[r]
        OBVIOUS
      <4>1. SeenByAll(id)
        BY <1>8, <2>2, <2>3, <3>1, <3>2 DEF LowestRead
      <4> QED
        BY <2>1, <4>1 DEF SeenByAll
    <3>3. ASSUME NEW r \in Rows, Deleted[r] # NOT_DELETED_ID, Deleted[r] < checkpoint.lowest
          PROVE  SeenByAll(Deleted[r])'
      <4> PICK id : id = Deleted[r]
        OBVIOUS
      <4>1. SeenByAll(id)
        BY <2>3, <3>1, <3>3 DEF LowestRead
      <4> QED
        BY <1>4, <2>1, <4>1 DEF SeenByAll
    <3> QED
      BY <1>2, <1>4, <1>6, <2>3, <3>1, <3>2, <3>3 DEF LowestRead
  <2>4. LowestRead'
    BY <1>2, <2>3 DEF LowestRead
  <2> QED
    BY <1>1, <1>2, <1>6, <2>4 DEF Lowest
<1>14. Stored'
  <2> SUFFICES ASSUME "fail" \notin behaviours PROVE Stored'
    BY <1>2 DEF Stored
  <2>1. ASSUME NEW r \in Rows PROVE StoredInsert(r)'
    <3>1. CASE Inserted'[r] = Inserted[r]
      BY <1>1, <1>2, <1>4, <1>6, <3>1 DEF Stored, StoredInsert
    <3>2. CASE Inserted'[r] = 0
      BY <1>0, <1>2, <3>2 DEF StoredInsert, Numeric
    <3> QED
      BY <1>8, <3>1, <3>2
  <2> QED
    BY <1>1, <1>2, <1>4, <2>1 DEF Stored, StoredDelete
<1>15. FullAlone'
  BY <1>1, <1>2, <1>4, <1>6 DEF FullAlone
<1>16. Image'
  <2>1. Written' = Written
    BY <1>2, <1>4 DEF Written
  <2>2. \A r \in Rows : Inserted[r] <= checkpoint.id => Inserted'[r] <= checkpoint.id
    BY <1>0, <1>8 DEF Numeric
  <2> QED
    BY <1>1, <1>2, <1>4, <2>1, <2>2 DEF Image, Exact
<1> QED
  BY <1>9, <1>10, <1>11, <1>12, <1>13, <1>14, <1>15, <1>16 DEF VersionInv

-----------------------------------------------------------------------------
(* VersionInv is inductive: compression *)

\* What a compression does: it replaces ids that everybody sees by others that everybody sees.
Compresses ==
    /\ checkpoint.pc = "table" /\ checkpoint'.pc = "compressed"
    /\ checkpoint'.type = checkpoint.type /\ checkpoint'.id = checkpoint.id
    /\ checkpoint'.bind = checkpoint.bind /\ checkpoint'.lowest = checkpoint.lowest
    /\ checkpoint'.rows = checkpoint.rows
    /\ version_info'.storage = version_info.storage /\ Unwritten' = Unwritten
    /\ \/ Inserted' = Inserted
       \/ /\ Inserted' = [r \in Rows |-> 0]
          /\ \A r \in Rows : SeenByAll(Inserted[r])
    /\ \A r \in Rows :
        \/ Deleted'[r] = Deleted[r]
        \/ /\ Deleted[r] # NOT_DELETED_ID /\ Deleted[r] < checkpoint.lowest /\ SeenByAll(Deleted[r])
           /\ \/ Deleted'[r] = 0
              \/ \E s \in Rows : /\ Deleted[s] # NOT_DELETED_ID /\ Deleted[s] < checkpoint.lowest
                                 /\ SeenByAll(Deleted[s]) /\ Deleted'[r] = Deleted[s]
    /\ \A u \in Txns : ~Flushed(u)

\* CompressVersionInfo does that.
LEMMA CompressEffect ==
    ASSUME ShapeInv, VersionInv, CompressVersionInfo
    PROVE  Compresses
<1>0. Numeric /\ Typed /\ Good(version_info) /\ checkpoint \in Checkpoints
  BY Numbers, Functions DEF ShapeInv, Types
<1> PICK m, low : m = version_info /\ low = checkpoint.lowest
  OBVIOUS
<1>1. checkpoint.pc = "table" /\ version_info' = ManagerCompressVersionIds(m, low)
  BY DEF CompressVersionInfo
<1>2. /\ checkpoint'.pc = "compressed"
      /\ checkpoint'.type = checkpoint.type /\ checkpoint'.id = checkpoint.id
      /\ checkpoint'.bind = checkpoint.bind /\ checkpoint'.lowest = checkpoint.lowest
      /\ checkpoint'.rows = checkpoint.rows
  BY <1>0 DEF CompressVersionInfo, Checkpoints
<1>3. low \in Ids
  BY <1>0 DEF Checkpoints
<1>4. CompressedIn(m, version_info', low)
  BY <1>0, <1>1, <1>3, ManagerCompressEffect
<1>5. /\ version_info'.storage = version_info.storage /\ Unwritten' = Unwritten
      /\ \/ Inserted' = Inserted
         \/ (\A r \in Rows : Inserted[r] < low) /\ Inserted' = [r \in Rows |-> 0]
      /\ \A r \in Rows :
           \/ Deleted'[r] = Deleted[r]
           \/ /\ Deleted[r] # NOT_DELETED_ID /\ Deleted[r] < low
              /\ \E s \in Rows : /\ Deleted[s] # NOT_DELETED_ID /\ Deleted[s] < low
                                 /\ Deleted'[r] \in {0, Deleted[s]}
  BY <1>4 DEF CompressedIn, Compressed, Unwritten, Inserted, Deleted
<1>6. /\ \A r \in Rows : Inserted[r] < low => SeenByAll(Inserted[r])
      /\ \A r \in Rows : Deleted[r] # NOT_DELETED_ID /\ Deleted[r] < low => SeenByAll(Deleted[r])
  BY <1>1 DEF VersionInv, Lowest, LowestRead
<1>7. \A u \in Txns : ~Flushed(u)
  BY <1>1, FlushedAlone DEF UnderWay
<1>8. ASSUME NEW r \in Rows
      PROVE \/ Deleted'[r] = Deleted[r]
            \/ /\ Deleted[r] # NOT_DELETED_ID /\ Deleted[r] < checkpoint.lowest /\ SeenByAll(Deleted[r])
               /\ \/ Deleted'[r] = 0
                  \/ \E s \in Rows : /\ Deleted[s] # NOT_DELETED_ID /\ Deleted[s] < checkpoint.lowest
                                     /\ SeenByAll(Deleted[s]) /\ Deleted'[r] = Deleted[s]
  BY <1>5, <1>6
<1> QED
  BY <1>1, <1>2, <1>5, <1>6, <1>7, <1>8 DEF Compresses

\* A deleted id after a compression.
LEMMA CompressedDelete ==
    ASSUME ShapeInv, VersionInv, Compresses, NEW r \in Rows
    PROVE  \/ Deleted'[r] = Deleted[r]
           \/ /\ Deleted[r] # NOT_DELETED_ID /\ Deleted[r] <= last_commit
              /\ Deleted'[r] \in Nat /\ Deleted'[r] <= last_commit /\ SeenByAll(Deleted[r])
              /\ \A v \in Running : Deleted'[r] < start_time[v]
              /\ Unwritten # Invalid /\ "fail" \notin behaviours => Deleted'[r] <= Unwritten
              /\ Exact /\ "fail" \notin behaviours =>
                    Deleted[r] <= checkpoint.id /\ Deleted'[r] <= checkpoint.id
<1>0. Numeric /\ Typed
  BY Numbers, Functions
<1>1. Clocks /\ Stored /\ Image /\ checkpoint.pc = "table"
  BY DEF VersionInv, Compresses
<1>2. ASSUME NEW s \in Rows, Deleted[s] # NOT_DELETED_ID, Deleted[s] < checkpoint.lowest, SeenByAll(Deleted[s])
      PROVE  /\ Deleted[s] \in Nat /\ Deleted[s] <= last_commit
             /\ \A v \in Running : Deleted[s] < start_time[v]
             /\ Unwritten # Invalid /\ "fail" \notin behaviours => Deleted[s] <= Unwritten
             /\ Exact /\ "fail" \notin behaviours => Deleted[s] <= checkpoint.id
  <2>1. Deleted[s] \in Nat /\ Deleted[s] < current_start_timestamp
        /\ \A v \in Running : Deleted[s] < start_time[v]
    BY <1>0, <1>2 DEF SeenByAll, Typed
  <2>2. Deleted[s] < TRANSACTION_ID_START
    BY <1>0, <2>1 DEF Numeric
  <2>3. Deleted[s] <= last_commit
    BY <2>2, CommittedDeletes
  <2>4. Unwritten # Invalid /\ "fail" \notin behaviours => Deleted[s] <= Unwritten
    BY <1>1, <2>2 DEF Stored, StoredDelete
  <2>5. ASSUME Exact, "fail" \notin behaviours PROVE Deleted[s] <= checkpoint.id
    <3>1. CASE checkpoint.type = "full"
      BY <1>1, <1>2, <2>5, <3>1 DEF Image
    <3>2. CASE checkpoint.lowest <= checkpoint.id + 1
      BY <1>0, <1>2, <2>1, <3>2 DEF Numeric
    <3> QED
      BY <2>5, <3>1, <3>2 DEF Exact
  <2> QED
    BY <2>1, <2>3, <2>4, <2>5
<1>3. /\ 0 <= last_commit /\ 0 <= Unwritten /\ 0 <= checkpoint.id
      /\ \A v \in Running : 0 < start_time[v]
  <2>1. \A v \in Running : start_time[v] \in Nat /\ 2 <= start_time[v]
    BY <1>1, RunningIds
  <2> QED
    BY <1>0, <2>1 DEF Numeric
<1>4. \/ Deleted'[r] = Deleted[r]
      \/ /\ Deleted[r] # NOT_DELETED_ID /\ Deleted[r] < checkpoint.lowest /\ SeenByAll(Deleted[r])
         /\ \/ Deleted'[r] = 0
            \/ \E s \in Rows : /\ Deleted[s] # NOT_DELETED_ID /\ Deleted[s] < checkpoint.lowest
                               /\ SeenByAll(Deleted[s]) /\ Deleted'[r] = Deleted[s]
  BY DEF Compresses
<1>5. CASE Deleted'[r] = Deleted[r]
  BY <1>5
<1>6. CASE /\ Deleted[r] # NOT_DELETED_ID /\ Deleted[r] < checkpoint.lowest /\ SeenByAll(Deleted[r])
           /\ Deleted'[r] = 0
  BY <1>2, <1>3, <1>6
<1>7. ASSUME Deleted[r] # NOT_DELETED_ID, Deleted[r] < checkpoint.lowest, SeenByAll(Deleted[r]),
             NEW s \in Rows, Deleted[s] # NOT_DELETED_ID, Deleted[s] < checkpoint.lowest,
             SeenByAll(Deleted[s]), Deleted'[r] = Deleted[s]
      PROVE  /\ Deleted[r] # NOT_DELETED_ID /\ Deleted[r] <= last_commit
             /\ Deleted'[r] \in Nat /\ Deleted'[r] <= last_commit /\ SeenByAll(Deleted[r])
             /\ \A v \in Running : Deleted'[r] < start_time[v]
             /\ Unwritten # Invalid /\ "fail" \notin behaviours => Deleted'[r] <= Unwritten
             /\ Exact /\ "fail" \notin behaviours =>
                   Deleted[r] <= checkpoint.id /\ Deleted'[r] <= checkpoint.id
  BY <1>2, <1>7
<1> QED
  BY <1>4, <1>5, <1>6, <1>7

\* A compression.
LEMMA CompressVersions ==
    ASSUME ShapeInv, VersionInv, CompressVersionInfo
    PROVE  VersionInv'
<1>0. Numeric /\ Typed
  BY Numbers, Functions
<1>1. Clocks /\ InsertIds /\ DeleteIds /\ CleanupSafe /\ Lowest /\ Stored /\ FullAlone /\ Image
  BY DEF VersionInv
<1>2. /\ status' = status /\ start_time' = start_time /\ transaction_id' = transaction_id
      /\ undo_buffer' = undo_buffer /\ append_info' = append_info /\ cleanup' = cleanup
      /\ current_start_timestamp' = current_start_timestamp
      /\ current_transaction_id' = current_transaction_id
      /\ lowest_active_start' = lowest_active_start /\ last_commit' = last_commit
      /\ count' = count /\ behaviours' = behaviours
  BY DEF CompressVersionInfo, manager, transactions
<1>3. Compresses
  BY CompressEffect
<1>4. /\ checkpoint.pc = "table" /\ checkpoint'.pc = "compressed"
      /\ checkpoint'.type = checkpoint.type /\ checkpoint'.id = checkpoint.id
      /\ checkpoint'.bind = checkpoint.bind /\ checkpoint'.lowest = checkpoint.lowest
      /\ checkpoint'.rows = checkpoint.rows
      /\ version_info'.storage = version_info.storage /\ Unwritten' = Unwritten
      /\ Inserted' = Inserted \/ Inserted' = [r \in Rows |-> 0]
      /\ \A u \in Txns : ~Flushed(u)
  BY <1>3 DEF Compresses
<1>5. ASSUME NEW r \in Rows
      PROVE  \/ Deleted'[r] = Deleted[r]
             \/ /\ Deleted[r] # NOT_DELETED_ID /\ Deleted[r] <= last_commit
                /\ Deleted'[r] \in Nat /\ Deleted'[r] <= last_commit
                /\ \A v \in Running : Deleted'[r] < start_time[v]
                /\ Unwritten # Invalid /\ "fail" \notin behaviours => Deleted'[r] <= Unwritten
                /\ Exact /\ "fail" \notin behaviours =>
                      Deleted[r] <= checkpoint.id /\ Deleted'[r] <= checkpoint.id
  BY <1>3, CompressedDelete
<1>6. /\ Running' = Running /\ \A u \in Txns : ~Flushed(u)'
      /\ \A u \in Txns : LastRow(u)' = LastRow(u) /\ DeletedBy(u)' = DeletedBy(u)
      /\ \A u \in Running : u \in Txns
  BY <1>2, <1>4 DEF Running, Flushed, LastRow, DeletedBy
<1>7. \A u \in Running : /\ start_time[u] \in Nat /\ 2 <= start_time[u] /\ transaction_id[u] \in Nat
                        /\ TRANSACTION_ID_START <= transaction_id[u] /\ DeletedBy(u) \subseteq Rows
  BY <1>1, RunningIds
<1>8. \A r \in Rows : Inserted'[r] \in {0, Inserted[r]} /\ Inserted[r] \in Nat /\ Deleted[r] \in Nat
  BY <1>0, <1>4 DEF Typed
<1>9. Clocks'
  BY <1>1, <1>2, <1>4, <1>6 DEF Clocks
<1>10. InsertIds'
  <2>1. ASSUME NEW r \in Rows PROVE InsertId(r)'
    <3>1. CASE Inserted'[r] = Inserted[r]
      BY <1>1, <1>2, <1>6, <3>1 DEF InsertIds, InsertId
    <3>2. CASE Inserted'[r] = 0
      <4>1. 0 < current_start_timestamp /\ \A u \in Running : 0 # start_time[u]
        BY <1>0, <1>7 DEF Numeric
      <4> QED
        BY <1>2, <1>6, <3>2, <4>1 DEF InsertId
    <3> QED
      BY <1>8, <3>1, <3>2
  <2>2. \A r \in 0 .. count - 1 : r \in Rows
    BY <1>0 DEF Numeric
  <2>3. ASSUME NEW r \in 0 .. count - 1 PROVE UsedRow(r)'
    <3>1. Inserted[r] <= last_commit /\ 0 <= last_commit
      BY <1>0, <1>1, <1>4 DEF InsertIds, UsedRow, Numeric
    <3> QED
      BY <1>2, <1>6, <1>8, <2>2, <3>1 DEF UsedRow
  <2>4. \A r, s \in 0 .. count - 1 : r <= s => Inserted'[r] <= Inserted'[s]
    BY <1>1, <1>4, <2>2 DEF InsertIds
  <2> QED
    BY <1>2, <1>6, <2>1, <2>3, <2>4 DEF InsertIds
<1>11. DeleteIds'
  <2>1. ASSUME NEW r \in Rows, Deleted[r] # NOT_DELETED_ID PROVE DeleteId(r)'
    <3>1. DeleteId(r)
      BY <1>1 DEF DeleteIds
    <3>2. r < count /\ Inserted'[r] <= last_commit
      BY <1>0, <1>8, <2>1, <3>1, SMTT(30) DEF DeleteId, Numeric
    <3>3. CASE Deleted'[r] = Deleted[r]
      BY <1>2, <1>6, <2>1, <3>1, <3>2, <3>3 DEF DeleteId
    <3>4. CASE /\ Deleted'[r] \in Nat /\ Deleted'[r] <= last_commit
               /\ \A v \in Running : Deleted'[r] < start_time[v]
      <4>1. \A v \in Running : Deleted'[r] # start_time[v]
        BY <1>7, <3>4
      <4> QED
        BY <1>2, <1>6, <3>2, <3>4, <4>1 DEF DeleteId
    <3> QED
      BY <1>5, <3>3, <3>4
  <2>2. \A r \in Rows : DeleteId(r)'
    BY <1>5, <2>1 DEF DeleteId
  <2>3. ASSUME NEW u \in Running, NEW r \in DeletedBy(u) PROVE Deleted'[r] = transaction_id[u]
    <3>1. r \in Rows /\ Deleted[r] = transaction_id[u]
      BY <1>1, <1>7 DEF DeleteIds
    <3>2. ~(Deleted[r] <= last_commit)
      BY <1>0, <1>7, <3>1 DEF Numeric
    <3> QED
      BY <1>5, <3>1, <3>2
  <2> QED
    BY <1>2, <1>6, <2>2, <2>3 DEF DeleteIds
<1>12. CleanupSafe'
  <2>1. \A v \in Running : 0 < start_time[v]
    BY <1>7
  <2> QED
    BY <1>1, <1>2, <1>6, <1>8, <2>1 DEF CleanupSafe
<1>13. Lowest'
  BY <1>1, <1>2, <1>4, <1>6 DEF Lowest, LowestRead
<1>14. Stored'
  <2> SUFFICES ASSUME "fail" \notin behaviours PROVE Stored'
    BY <1>2 DEF Stored
  <2>1. ASSUME NEW r \in Rows PROVE StoredInsert(r)'
    <3>1. Inserted[r] <= last_commit /\ 0 <= last_commit
      BY <1>0, <1>1, <1>4 DEF Stored, StoredInsert, Numeric
    <3> QED
      BY <1>2, <1>8, <3>1 DEF StoredInsert
  <2>2. ASSUME NEW r \in Rows PROVE StoredDelete(r)'
    <3>1. StoredDelete(r)
      BY <1>1 DEF Stored
    <3>2. CASE Deleted'[r] = Deleted[r]
      BY <1>4, <3>1, <3>2 DEF StoredDelete
    <3>3. CASE /\ Deleted[r] <= last_commit
               /\ Unwritten # Invalid => Deleted'[r] <= Unwritten
      <4>1. Deleted[r] < TRANSACTION_ID_START
        BY <3>3, CommittedDeletes
      <4> QED
        BY <1>4, <3>1, <3>3, <4>1 DEF StoredDelete
    <3> QED
      BY <1>5, <3>2, <3>3
  <2>3. ASSUME NEW r \in version_info.storage PROVE Deleted'[r] < TRANSACTION_ID_START
    <3>1. r \in Rows /\ Deleted[r] < TRANSACTION_ID_START
      BY <1>0, <1>1 DEF Stored, Typed
    <3> QED
      BY <1>0, <1>5, <3>1 DEF Numeric
  <2> QED
    BY <1>4, <2>1, <2>2, <2>3 DEF Stored
<1>15. FullAlone'
  BY <1>1, <1>2, <1>4, <1>6 DEF FullAlone, UnderWay
<1>16. Image'
  <2> SUFFICES ASSUME "fail" \notin behaviours PROVE Image'
    BY <1>2 DEF Image
  <2>1. \A r \in Rows : Inserted'[r] <= checkpoint.id
    BY <1>0, <1>1, <1>4, <1>8 DEF Image, Numeric
  <2>2. Exact' <=> Exact
    BY <1>4 DEF Exact
  <2>3. ASSUME Exact
        PROVE  /\ checkpoint.rows = {r \in 0 .. count - 1 : ~(Deleted'[r] <= checkpoint.id)}
               /\ \A r \in version_info.storage : Deleted'[r] <= checkpoint.id
               /\ checkpoint.type = "full" =>
                    \A r \in Rows : Deleted'[r] # NOT_DELETED_ID => Deleted'[r] <= checkpoint.id
    <3>1. /\ checkpoint.rows = {r \in 0 .. count - 1 : ~(Deleted[r] <= checkpoint.id)}
          /\ \A r \in version_info.storage : Deleted[r] <= checkpoint.id
          /\ checkpoint.type = "full" =>
               \A r \in Rows : Deleted[r] # NOT_DELETED_ID => Deleted[r] <= checkpoint.id
      BY <1>1, <1>4 DEF Image
    <3>2. \A r \in Rows : (Deleted'[r] <= checkpoint.id) <=> (Deleted[r] <= checkpoint.id)
      BY <1>5, <2>3
    <3>3. 0 .. count - 1 \subseteq Rows /\ version_info.storage \subseteq Rows
      BY <1>0 DEF Numeric, Typed
    <3>4. checkpoint.type = "full" =>
                \A r \in Rows : Deleted'[r] # NOT_DELETED_ID => Deleted'[r] <= checkpoint.id
      BY <1>5, <2>3, <3>1
    <3>5. {r \in 0 .. count - 1 : ~(Deleted'[r] <= checkpoint.id)}
            = {r \in 0 .. count - 1 : ~(Deleted[r] <= checkpoint.id)}
      BY <3>2, <3>3
    <3> QED
      BY <3>1, <3>2, <3>3, <3>4, <3>5
  <2> QED
    BY <1>2, <1>4, <2>1, <2>2, <2>3 DEF Image
<1> QED
  BY <1>9, <1>10, <1>11, <1>12, <1>13, <1>14, <1>15, <1>16 DEF VersionInv

-----------------------------------------------------------------------------
(* VersionInv is inductive: the deletes are written *)

\* A checkpoint with an id that no insert id exceeds writes the rows that were deleted by then.
LEMMA WrittenRows ==
    ASSUME NEW m, Good(m), NEW id \in Nat, id < TRANSACTION_ID_START,
           \A r \in Rows : GetVectorInfo(m).inserted[r] <= id,
           \A r \in Rows : GetVectorInfo(m).deleted[r] <= NOT_DELETED_ID
    PROVE  (IF m.vector_info # NoInfo /\ HasDeletes(m.vector_info, id)
            THEN Write(m.vector_info, id) ELSE {}) = {r \in Rows : GetVectorInfo(m).deleted[r] <= id}
<1> PICK info : info = GetVectorInfo(m)
  OBVIOUS
<1>1. /\ Shape(info) /\ info \in VectorInfos
      /\ m.vector_info # NoInfo => info = m.vector_info
      /\ m.vector_info = NoInfo => info = NewInfo(0)
  BY ManagerFields
<1>2. /\ info.inserted \in [Rows -> Ids] /\ info.deleted \in [Rows -> Ids]
      /\ Ids \subseteq Nat
  BY <1>1, InfoFields, Constants
<1>3. /\ NOT_DELETED_ID \in Nat /\ MAX_TRANSACTION_ID \in Nat /\ TRANSACTION_ID_START \in Nat
      /\ TRANSACTION_ID_START < NOT_DELETED_ID /\ NOT_DELETED_ID < MAX_TRANSACTION_ID
      /\ Rows = 0 .. VectorSize - 1 /\ VectorSize \in Nat /\ 0 \in Rows
  BY Constants DEF Rows
<1>4. CASE m.vector_info = NoInfo
  <2>1. \A r \in Rows : info.deleted[r] = NOT_DELETED_ID
    BY <1>1, <1>4 DEF NewInfo
  <2>2. \A r \in Rows : ~(info.deleted[r] <= id)
    BY <1>3, <2>1
  <2> QED
    BY <1>4, <2>2
<1>5. CASE m.vector_info # NoInfo /\ ~HasDeletes(m.vector_info, id)
  <2>1. \A r \in Rows : ~(info.deleted[r] <= id)
    <3>1. CASE AnyDeleted(info)
      BY <1>1, <1>5, <3>1 DEF HasDeletes
    <3>2. CASE ~AnyDeleted(info)
      <4>1. \A r \in Rows : info.deleted[r] = NOT_DELETED_ID
        BY <1>1, <3>2 DEF AnyDeleted, Shape
      <4> QED
        BY <1>3, <4>1
    <3> QED
      BY <3>1, <3>2
  <2> QED
    BY <1>5, <2>1
<1>6. CASE m.vector_info # NoInfo /\ HasDeletes(m.vector_info, id)
  <2>1. ASSUME NEW r \in Rows
        PROVE  (UseInsertedVersion(id + 1, MAX_TRANSACTION_ID, info.inserted[r])
                /\ ~UseInsertedVersion(id + 1, MAX_TRANSACTION_ID, info.deleted[r]))
                   <=> ~(info.deleted[r] <= id)
    <3>1. /\ info.inserted[r] \in Nat /\ info.deleted[r] \in Nat
          /\ info.inserted[r] <= id /\ info.deleted[r] <= NOT_DELETED_ID
      BY <1>2
    <3> QED
      BY <1>3, <3>1 DEF UseInsertedVersion
  <2>2. info # NoInfo
    BY <1>1, <1>6
  <2>3. GetSelVector(info, id + 1, MAX_TRANSACTION_ID, VectorSize)
            = {r \in Rows : ~(info.deleted[r] <= id)}
    BY <1>3, <2>1, <2>2 DEF GetSelVector
  <2>4. Write(m.vector_info, id) = {r \in Rows : info.deleted[r] <= id}
    BY <1>1, <1>6, <2>3 DEF Write
  <2> QED
    BY <1>6, <2>4
<1> QED
  BY <1>4, <1>5, <1>6

\* What is written when a checkpoint with the id writes the deletes.
WritesDeletes(id) ==
    /\ Inserted' = Inserted /\ Deleted' = Deleted /\ ConstantInsert' = ConstantInsert
    /\ Unwritten = Invalid => Unwritten' = Unwritten /\ version_info'.storage = version_info.storage
    /\ Unwritten # Invalid =>
        /\ Unwritten' = (IF Unwritten <= id THEN Invalid ELSE Unwritten)
        /\ "fail" \notin behaviours =>
                version_info'.storage = {r \in Rows : Deleted[r] <= id}

\* CheckpointDeletes does that.
LEMMA CheckpointDeletesEffect ==
    ASSUME ShapeInv, VersionInv, CheckpointDeletes
    PROVE  WritesDeletes(checkpoint.id)
<1>0. Numeric /\ Typed /\ Good(version_info)
  BY Numbers, Functions DEF ShapeInv
<1> PICK m, id : m = version_info /\ id = checkpoint.id
  OBVIOUS
<1>1. version_info' = ManagerCheckpoint(m, id) /\ checkpoint.pc = "compressed" /\ id \in Nat
  BY <1>0 DEF CheckpointDeletes, Numeric
<1> PICK new : new = version_info'
  OBVIOUS
<1>2. WrittenIn(m, new, id)
  BY <1>0, <1>1, ManagerCheckpointEffect
<1>3. ActiveCheckpoint
  BY DEF ShapeInv
<1>4. id < TRANSACTION_ID_START
  BY <1>0, <1>1, <1>3 DEF ActiveCheckpoint, UnderWay, Numeric
<1>5. \A r \in Rows : GetVectorInfo(m).deleted[r] <= NOT_DELETED_ID
  BY CommittedDeletes DEF Deleted
<1>6. ASSUME "fail" \notin behaviours
      PROVE  (IF m.vector_info # NoInfo /\ HasDeletes(m.vector_info, id)
              THEN Write(m.vector_info, id) ELSE {}) = {r \in Rows : GetVectorInfo(m).deleted[r] <= id}
  <2>1. \A r \in Rows : GetVectorInfo(m).inserted[r] <= id
    BY <1>1, <1>6 DEF VersionInv, Image, Inserted
  <2> QED
    BY <1>0, <1>1, <1>4, <1>5, <2>1, WrittenRows
<1>7. Inserted' = Inserted /\ Deleted' = Deleted /\ ConstantInsert' = ConstantInsert
  BY <1>2 DEF WrittenIn, Inserted, Deleted, ConstantInsert
<1>8. Unwritten = Invalid => Unwritten' = Unwritten /\ version_info'.storage = version_info.storage
  BY <1>2 DEF WrittenIn, Unwritten
<1>9. Unwritten # Invalid =>
        /\ Unwritten' = (IF Unwritten <= id THEN Invalid ELSE Unwritten)
        /\ "fail" \notin behaviours => version_info'.storage = {r \in Rows : Deleted[r] <= id}
  BY <1>2, <1>6 DEF WrittenIn, Unwritten, Deleted
<1> QED
  BY <1>7, <1>8, <1>9 DEF WritesDeletes

\* A checkpoint writes the deletes.
LEMMA CheckpointDeletesVersions ==
    ASSUME ShapeInv, VersionInv, CheckpointDeletes
    PROVE  VersionInv'
<1>0. Numeric /\ Typed /\ checkpoint \in Checkpoints
  BY Numbers, Functions DEF ShapeInv, Types
<1>1. Clocks /\ InsertIds /\ DeleteIds /\ CleanupSafe /\ Lowest /\ Stored /\ FullAlone /\ Image
  BY DEF VersionInv
<1>2. /\ status' = status /\ start_time' = start_time /\ transaction_id' = transaction_id
      /\ undo_buffer' = undo_buffer /\ append_info' = append_info /\ cleanup' = cleanup
      /\ current_start_timestamp' = current_start_timestamp
      /\ current_transaction_id' = current_transaction_id
      /\ lowest_active_start' = lowest_active_start /\ last_commit' = last_commit
      /\ count' = count /\ behaviours' = behaviours
  BY DEF CheckpointDeletes, manager, transactions
<1>3. /\ checkpoint.pc = "compressed" /\ checkpoint'.pc = "written"
      /\ checkpoint'.type = checkpoint.type /\ checkpoint'.id = checkpoint.id
      /\ checkpoint'.bind = checkpoint.bind /\ checkpoint'.lowest = checkpoint.lowest
      /\ checkpoint'.rows = checkpoint.rows
  BY <1>0 DEF CheckpointDeletes, Checkpoints
<1>4. WritesDeletes(checkpoint.id)
  BY CheckpointDeletesEffect
<1>5. Inserted' = Inserted /\ Deleted' = Deleted /\ ConstantInsert' = ConstantInsert
  BY <1>4 DEF WritesDeletes
<1>6. /\ Running' = Running
      /\ \A u \in Txns : Flushed(u)' <=> Flushed(u)
      /\ \A u \in Txns : FirstRow(u)' = FirstRow(u) /\ LastRow(u)' = LastRow(u)
      /\ \A u \in Txns : DeletedBy(u)' = DeletedBy(u)
      /\ \A u \in Running : u \in Txns
  BY <1>2 DEF Running, Flushed, FirstRow, LastRow, DeletedBy
<1>7. Clocks'
  BY <1>1, <1>2, <1>3, <1>6 DEF Clocks
<1>8. InsertIds'
  BY <1>1, <1>2, <1>5, <1>6 DEF InsertIds, InsertId, UsedRow
<1>9. DeleteIds'
  BY <1>1, <1>2, <1>5, <1>6 DEF DeleteIds, DeleteId
<1>10. CleanupSafe'
  BY <1>1, <1>2, <1>5, <1>6 DEF CleanupSafe
<1>11. Lowest'
  BY <1>1, <1>2, <1>3, <1>6 DEF Lowest, LowestRead
<1>12. FullAlone'
  BY <1>1, <1>2, <1>3, <1>6 DEF FullAlone, UnderWay
<1>13. Stored'
  <2> SUFFICES ASSUME "fail" \notin behaviours PROVE Stored'
    BY <1>2 DEF Stored
  <2>1. \A r \in Rows : StoredInsert(r)'
    BY <1>1, <1>2, <1>5, <1>6 DEF Stored, StoredInsert
  <2>2. CASE Unwritten = Invalid
    <3>1. Unwritten' = Unwritten /\ version_info'.storage = version_info.storage
      BY <1>4, <2>2 DEF WritesDeletes
    <3> QED
      BY <1>1, <1>5, <2>1, <3>1 DEF Stored, StoredDelete
  <2>3. CASE Unwritten # Invalid
    <3>1. /\ Unwritten' = (IF Unwritten <= checkpoint.id THEN Invalid ELSE Unwritten)
          /\ version_info'.storage = {r \in Rows : Deleted[r] <= checkpoint.id}
      BY <1>4, <2>3 DEF WritesDeletes
    <3>2. ASSUME NEW r \in Rows PROVE StoredDelete(r)'
      <4>1. Deleted[r] < TRANSACTION_ID_START => Deleted[r] <= Unwritten
        BY <1>1, <2>3 DEF Stored, StoredDelete
      <4>2. Unwritten <= checkpoint.id /\ Deleted[r] <= Unwritten => Deleted[r] <= checkpoint.id
        BY <1>0 DEF Numeric, Typed
      <4> QED
        BY <1>5, <2>3, <3>1, <4>1, <4>2 DEF StoredDelete
    <3>3. \A r \in version_info'.storage : Deleted'[r] < TRANSACTION_ID_START
      <4>1. checkpoint.id < TRANSACTION_ID_START
        BY <1>0, <1>3 DEF ShapeInv, ActiveCheckpoint, UnderWay, Numeric
      <4> QED
        BY <1>0, <1>5, <3>1, <4>1 DEF Numeric, Typed
    <3> QED
      BY <2>1, <3>2, <3>3 DEF Stored
  <2> QED
    BY <2>2, <2>3
<1>14. Image'
  <2> SUFFICES ASSUME "fail" \notin behaviours, Exact PROVE Written' = checkpoint.rows
    <3>1. Exact' <=> Exact
      BY <1>3 DEF Exact
    <3> QED
      BY <1>2, <1>3, <3>1 DEF Image
  <2>1. /\ checkpoint.rows = {r \in 0 .. count - 1 : ~(Deleted[r] <= checkpoint.id)}
        /\ \A r \in version_info.storage : Deleted[r] <= checkpoint.id
    BY <1>1, <1>3 DEF Image
  <2>2. Written' = (0 .. count - 1) \ version_info'.storage
    BY <1>2 DEF Written
  <2>3. 0 .. count - 1 \subseteq Rows /\ version_info.storage \subseteq Rows
    BY <1>0 DEF Numeric, Typed
  <2>4. CASE Unwritten = Invalid
    <3>1. version_info'.storage = version_info.storage
      BY <1>4, <2>4 DEF WritesDeletes
    <3>2. checkpoint.id < TRANSACTION_ID_START
      BY <1>0, <1>3 DEF ShapeInv, ActiveCheckpoint, UnderWay, Numeric
    <3>3. ASSUME NEW r \in Rows PROVE Deleted[r] <= checkpoint.id => r \in version_info.storage
      <4>1. Deleted[r] <= checkpoint.id => Deleted[r] < TRANSACTION_ID_START
        BY <1>0, <3>2 DEF Numeric, Typed
      <4> QED
        BY <1>1, <2>4, <4>1 DEF Stored, StoredDelete
    <3> QED
      BY <2>1, <2>2, <2>3, <3>1, <3>3
  <2>5. CASE Unwritten # Invalid
    <3>1. version_info'.storage = {r \in Rows : Deleted[r] <= checkpoint.id}
      BY <1>4, <2>5 DEF WritesDeletes
    <3> QED
      BY <2>1, <2>2, <2>3, <3>1
  <2> QED
    BY <2>4, <2>5
<1> QED
  BY <1>7, <1>8, <1>9, <1>10, <1>11, <1>12, <1>13, <1>14 DEF VersionInv

-----------------------------------------------------------------------------
(* VersionInv is inductive: a restart *)

\* What a restart leaves: the deletes that were committed, with the id 0.
Restarts ==
    /\ version_info'.storage = {r \in Rows : Deleted[r] <= last_commit}
    /\ Inserted' = [r \in Rows |-> 0]
    /\ Deleted' = [r \in Rows |-> IF Deleted[r] <= last_commit THEN 0 ELSE NOT_DELETED_ID]
    /\ Unwritten' = Invalid
    /\ \A r \in Rows : Inserted[r] <= last_commit
    /\ \A r \in Rows : Deleted[r] = NOT_DELETED_ID \/ Deleted[r] <= last_commit
    /\ "fail" \notin behaviours

\* Restart does that.
LEMMA RestartEffect ==
    ASSUME ShapeInv, VersionInv, Regular, Restart
    PROVE  Restarts
<1>0. Numeric /\ Typed /\ Good(version_info)
  BY Numbers, Functions DEF ShapeInv
<1>1. "fail" \notin behaviours /\ Running = {}
  BY DEF Regular, Restart
<1>2. \A r \in Rows : Inserted[r] <= last_commit
  <2>1. \A t \in Txns : ~Flushed(t)
    BY <1>1 DEF Running, Flushed
  <2> QED
    BY <1>1, <2>1 DEF VersionInv, Stored, StoredInsert
<1>3. \A r \in Rows : Deleted[r] = NOT_DELETED_ID \/ Deleted[r] <= last_commit
  BY <1>1, CommittedDeletes
<1>4. PICK mid, low, id :
            /\ low = lowest_active_start /\ low \in Ids /\ id = last_commit /\ id \in Nat
            /\ CompressedIn(version_info, mid, low)
            /\ \E new : WrittenIn(mid, new, id) /\ Deserialized(new, version_info')
  BY RestartManager
<1>5. PICK new : WrittenIn(mid, new, id) /\ Deserialized(new, version_info')
  BY <1>4
<1>6. /\ mid.storage = version_info.storage
      /\ mid.uncheckpointed_delete_commit = Unwritten /\ Good(mid)
      /\ Compressed(GetVectorInfo(version_info), GetVectorInfo(mid), low)
  BY <1>4 DEF CompressedIn, Unwritten
<1>7. \A r \in Rows : GetVectorInfo(mid).inserted[r] <= id
  <2>1. \/ GetVectorInfo(mid).inserted = Inserted
        \/ GetVectorInfo(mid).inserted = [r \in Rows |-> 0]
    BY <1>6 DEF Compressed, Inserted
  <2> QED
    BY <1>2, <1>4, <2>1
<1>8. ASSUME NEW r \in Rows
      PROVE  /\ GetVectorInfo(mid).deleted[r] <= NOT_DELETED_ID
             /\ (GetVectorInfo(mid).deleted[r] <= id) <=> (Deleted[r] <= id)
  <2>1. \/ GetVectorInfo(mid).deleted[r] = Deleted[r]
        \/ /\ Deleted[r] # NOT_DELETED_ID
           /\ \E s \in Rows : /\ Deleted[s] # NOT_DELETED_ID
                              /\ GetVectorInfo(mid).deleted[r] \in {0, Deleted[s]}
    BY <1>6 DEF Compressed, Deleted
  <2>2. id <= NOT_DELETED_ID /\ 0 <= id /\ NOT_DELETED_ID \in Nat
    BY <1>0, <1>4 DEF Numeric
  <2>3. CASE GetVectorInfo(mid).deleted[r] = Deleted[r]
    BY <2>3, CommittedDeletes
  <2>4. ASSUME Deleted[r] # NOT_DELETED_ID, NEW s \in Rows, Deleted[s] # NOT_DELETED_ID,
               GetVectorInfo(mid).deleted[r] \in {0, Deleted[s]}
        PROVE  /\ GetVectorInfo(mid).deleted[r] <= NOT_DELETED_ID
               /\ GetVectorInfo(mid).deleted[r] <= id /\ Deleted[r] <= id
    <3>1. Deleted[r] <= id /\ Deleted[s] <= id /\ Deleted[s] <= NOT_DELETED_ID
      BY <1>3, <1>4, <2>4, CommittedDeletes
    <3> QED
      BY <2>2, <2>4, <3>1
  <2> QED
    BY <2>1, <2>3, <2>4
<1>9. new.storage = {r \in Rows : Deleted[r] <= id}
  <2>1. id < TRANSACTION_ID_START
    BY <1>0, <1>4 DEF Numeric
  <2>2. CASE Unwritten = Invalid
    <3>1. new.storage = version_info.storage
      BY <1>5, <1>6, <2>2 DEF WrittenIn
    <3>2. version_info.storage \subseteq Rows
      BY <1>0 DEF Typed
    <3>3. \A r \in Rows : Deleted[r] < TRANSACTION_ID_START => r \in version_info.storage
      BY <1>1, <2>2 DEF VersionInv, Stored, StoredDelete
    <3>4. \A r \in version_info.storage : Deleted[r] < TRANSACTION_ID_START
      BY <1>1 DEF VersionInv, Stored
    <3>5. \A r \in Rows : (Deleted[r] < TRANSACTION_ID_START) <=> (Deleted[r] <= id)
      BY <1>4, CommittedDeletes
    <3> QED
      BY <3>1, <3>2, <3>3, <3>4, <3>5
  <2>3. CASE Unwritten # Invalid
    <3>1. new.storage = IF mid.vector_info # NoInfo /\ HasDeletes(mid.vector_info, id)
                        THEN Write(mid.vector_info, id) ELSE {}
      BY <1>5, <1>6, <2>3 DEF WrittenIn
    <3>2. new.storage = {r \in Rows : GetVectorInfo(mid).deleted[r] <= id}
      BY <1>4, <1>6, <1>7, <1>8, <2>1, <3>1, WrittenRows
    <3> QED
      BY <1>8, <3>2
  <2> QED
    BY <2>2, <2>3
<1>10. /\ version_info'.storage = new.storage /\ Unwritten' = Invalid
       /\ Inserted' = [r \in Rows |-> 0]
       /\ Deleted' = [r \in Rows |-> IF r \in new.storage THEN 0 ELSE NOT_DELETED_ID]
  BY <1>5 DEF Deserialized, Unwritten, Inserted, Deleted
<1>11. Deleted' = [r \in Rows |-> IF Deleted[r] <= last_commit THEN 0 ELSE NOT_DELETED_ID]
  BY <1>4, <1>9, <1>10
<1> QED
  BY <1>1, <1>2, <1>3, <1>4, <1>9, <1>10, <1>11 DEF Restarts

\* The database is closed and opened.
LEMMA RestartVersions ==
    ASSUME ShapeInv, VersionInv, Regular, Restart
    PROVE  VersionInv'
<1>0. Numeric /\ Typed
  BY Numbers, Functions
<1>1. /\ status' = status /\ undo_buffer' = undo_buffer /\ append_info' = append_info
      /\ cleanup' = cleanup /\ count' = count /\ behaviours' = behaviours /\ checkpoint' = checkpoint
      /\ current_start_timestamp' = 2 /\ current_transaction_id' = TRANSACTION_ID_START
      /\ last_commit' = 0 /\ lowest_active_start' = MAX_TRANSACTION_ID
      /\ Running = {} /\ checkpoint.pc = "idle" /\ \A t \in Txns : cleanup[t] = NoCleanup
  BY DEF Restart, transactions
<1>2. Restarts
  BY RestartEffect
<1>3. /\ version_info'.storage = {r \in Rows : Deleted[r] <= last_commit}
      /\ \A r \in Rows : Inserted'[r] = 0
      /\ \A r \in Rows : Deleted'[r] = IF Deleted[r] <= last_commit THEN 0 ELSE NOT_DELETED_ID
      /\ Unwritten' = Invalid
  BY <1>2 DEF Restarts
<1>4. Running' = {} /\ \A t \in Txns : ~Flushed(t)'
  BY <1>1 DEF Running, Flushed
<1>5. checkpoint.bind = 0
  BY <1>1 DEF ShapeInv, Counters, UnderWay
<1>6. Clocks'
  BY <1>1, <1>4, <1>5 DEF VersionInv, Clocks
<1>7. InsertIds'
  <2>1. \A r \in 0 .. count - 1 : r \in Rows
    BY <1>0 DEF Numeric
  <2> QED
    BY <1>1, <1>3, <1>4, <2>1 DEF InsertIds, InsertId, UsedRow
<1>8. DeleteIds'
  <2>1. ASSUME NEW r \in Rows, Deleted[r] <= last_commit PROVE r < count
    <3>1. Deleted[r] # NOT_DELETED_ID
      BY <1>0, <2>1 DEF Numeric, Typed
    <3> QED
      BY <3>1 DEF VersionInv, DeleteIds, DeleteId
  <2> QED
    BY <1>1, <1>3, <1>4, <2>1 DEF DeleteIds, DeleteId
<1>9. CleanupSafe'
  BY <1>1 DEF CleanupSafe
<1>10. Lowest'
  BY <1>1, <1>4, <1>5 DEF Lowest, LowestRead
<1>11. Stored'
  <2>1. \A r \in Rows : StoredInsert(r)'
    BY <1>1, <1>3 DEF StoredInsert
  <2>2. ASSUME NEW r \in Rows PROVE StoredDelete(r)' /\ (r \in version_info'.storage => Deleted'[r] = 0)
    <3>1. ~(NOT_DELETED_ID < TRANSACTION_ID_START)
      BY <1>0 DEF Numeric
    <3> QED
      BY <1>3, <3>1 DEF StoredDelete
  <2>3. \A r \in version_info'.storage : r \in Rows /\ Deleted'[r] = 0
    BY <1>3, <2>2
  <2>4. 0 < TRANSACTION_ID_START
    BY <1>0 DEF Numeric
  <2> QED
    BY <2>1, <2>2, <2>3, <2>4 DEF Stored
<1>12. FullAlone'
  BY <1>4 DEF FullAlone
<1>13. Image'
  BY <1>1 DEF Image
<1> QED
  BY <1>6, <1>7, <1>8, <1>9, <1>10, <1>11, <1>12, <1>13 DEF VersionInv

-----------------------------------------------------------------------------
(* The invariant holds *)

\* What a behaviour may do is chosen once.
LEMMA BehavioursStay == [Next]_vars => behaviours' = behaviours
  BY DEF Next, vars, StartTransaction, DeleteStatement, FlushAppend, CommitTransaction,
     RollbackTransaction, CommitFails, FlushFails, RollbackEffect, CleanupTransaction, DecideCheckpoint,
     CreateCheckpoint, WALStartCheckpoint, StartBindTransaction, ReadLowestActiveStart,
     CompressVersionInfo, CheckpointDeletes, UnlockTable, CommitBindTransaction, FinishCheckpoint, Restart

\* Every step keeps the invariant.
LEMMA NextVersions ==
    ASSUME ShapeInv, ShapeInv', VersionInv, Regular, [Next]_vars
    PROVE  VersionInv' /\ Regular'
<1>1. behaviours' = behaviours
  BY BehavioursStay
<1>2. Regular'
  BY <1>1 DEF Regular
<1>3. ASSUME NEW t \in Txns,
             \/ StartTransaction(t)
             \/ \E rows \in DeleteInputs(t) : DeleteStatement(t, rows)
             \/ \E n \in 1 .. VectorSize, optimistic \in BOOLEAN : FlushAppend(t, n, optimistic)
             \/ CommitTransaction(t)
             \/ RollbackTransaction(t)
             \/ CommitFails(t)
             \/ FlushFails(t)
             \/ CleanupTransaction(t)
      PROVE  VersionInv'
  BY <1>3, StartTransactionVersions, DeleteStatementVersions, FlushAppendVersions,
     CommitTransactionVersions, RollbackVersions, CleanupTransactionVersions
<1>4. CASE UNCHANGED vars
  <2>1. /\ UNCHANGED <<transactions, count, version_info, behaviours>> /\ checkpoint' = checkpoint
        /\ current_start_timestamp' = current_start_timestamp
        /\ current_transaction_id' = current_transaction_id /\ last_commit' = last_commit
        /\ lowest_active_start' = lowest_active_start
    BY <1>4 DEF vars, manager
  <2>2. Numeric /\ Clocks /\ Lowest /\ FullAlone /\ Image
    BY Numbers DEF VersionInv
  <2>3. checkpoint'.bind # 0 => checkpoint'.bind \in 2 .. current_start_timestamp - 1
    BY <2>1, <2>2 DEF Clocks
  <2>4. /\ Clocks' /\ InsertIds' /\ DeleteIds' /\ CleanupSafe' /\ Stored'
        /\ Inserted' = Inserted /\ Deleted' = Deleted /\ Written' = Written
        /\ Running' = Running /\ start_time' = start_time /\ undo_buffer' = undo_buffer
        /\ version_info'.storage = version_info.storage /\ count' = count /\ behaviours' = behaviours
    BY <2>1, <2>2, <2>3, QuietStep DEF Numeric
  <2>5. Lowest'
    BY <2>1, <2>2, <2>4 DEF Lowest, LowestRead, SeenByAll
  <2>6. FullAlone'
    BY <2>1, <2>2, <2>4 DEF FullAlone
  <2>7. Image'
    BY <2>1, <2>2, <2>4 DEF Image, Exact
  <2> QED
    BY <1>2, <2>4, <2>5, <2>6, <2>7 DEF VersionInv
<1>5. CASE \/ DecideCheckpoint
           \/ \E type \in {"full", "concurrent"} : CreateCheckpoint(type)
           \/ WALStartCheckpoint
           \/ StartBindTransaction
           \/ ReadLowestActiveStart
           \/ CompressVersionInfo
           \/ CheckpointDeletes
           \/ UnlockTable
           \/ CommitBindTransaction
           \/ FinishCheckpoint
           \/ Restart
  BY <1>2, <1>5, CreateCheckpointVersions, WALStartVersions, StartBindVersions, ReadLowestVersions,
     CompressVersions, CheckpointDeletesVersions, EndCheckpointVersions, RestartVersions
<1> QED
  BY <1>2, <1>3, <1>4, <1>5 DEF Next

\* In every state of a regular behaviour the ids mean what VersionInv says.
THEOREM VersionInvariant == Spec /\ Regular => [](ShapeInv /\ VersionInv /\ Regular)
<1>1. Init /\ Regular => VersionInv
  BY InitVersions
<1>2. ShapeInv /\ ShapeInv' /\ VersionInv /\ Regular /\ [Next]_vars => VersionInv' /\ Regular'
  BY NextVersions
<1> QED
  BY <1>1, <1>2, InitShape, NextShape, PTL DEF Spec

-----------------------------------------------------------------------------
(* What the checkpoint writes *)

\* The rows that are committed and that a transaction sees, by their ids.
Sees ==
    /\ Committed = {r \in 0 .. count - 1 : Inserted[r] < TRANSACTION_ID_START
                                            /\ ~(Deleted[r] < TRANSACTION_ID_START)}
    /\ \A t \in Running :
            Visible(t) = {r \in 0 .. count - 1 :
                            Seen(Inserted[r], Deleted[r], start_time[t], transaction_id[t])}

\* That holds in a state with the invariant.
LEMMA SeesNow ==
    ASSUME ShapeInv, VersionInv
    PROVE  Sees
<1>0. Numeric /\ Typed /\ Clocks /\ InsertIds
  BY Numbers, Functions DEF VersionInv
<1>1. 0 .. count - 1 \subseteq Rows
  BY <1>0 DEF Numeric
<1>2. ASSUME NEW r \in 0 .. count - 1
      PROVE  Seen(Inserted[r], Deleted[r], current_start_timestamp, MAX_TRANSACTION_ID)
                <=> (Inserted[r] < TRANSACTION_ID_START /\ ~(Deleted[r] < TRANSACTION_ID_START))
  <2>1. r \in Rows /\ Inserted[r] \in Nat /\ Deleted[r] \in Nat /\ UsedRow(r)
    BY <1>0, <1>1 DEF Typed, InsertIds
  <2>2. /\ Deleted[r] < TRANSACTION_ID_START => Deleted[r] <= last_commit
        /\ Deleted[r] <= NOT_DELETED_ID
    BY <2>1, CommittedDeletes
  <2>3. Deleted[r] < current_start_timestamp <=> Deleted[r] < TRANSACTION_ID_START
    BY <1>0, <2>1, <2>2 DEF Numeric
  <2>4. Deleted[r] # MAX_TRANSACTION_ID
    BY <1>0, <2>1, <2>2 DEF Numeric
  <2>5. \/ Inserted[r] <= last_commit
        \/ TRANSACTION_ID_START <= Inserted[r] /\ Inserted[r] < NOT_DELETED_ID
    <3>1. ASSUME NEW t \in Txns, Flushed(t), Inserted[r] = transaction_id[t]
          PROVE TRANSACTION_ID_START <= Inserted[r] /\ Inserted[r] < NOT_DELETED_ID
      BY <1>0, <3>1, FlushedAlone, RunningIds
    <3> QED
      BY <2>1, <3>1 DEF UsedRow
  <2>6. (Inserted[r] < current_start_timestamp \/ Inserted[r] = MAX_TRANSACTION_ID)
            <=> Inserted[r] < TRANSACTION_ID_START
    BY <1>0, <2>1, <2>5 DEF Numeric
  <2> QED
    BY <2>3, <2>4, <2>6 DEF Seen
<1>3. Committed = {r \in 0 .. count - 1 : Inserted[r] < TRANSACTION_ID_START
                                            /\ ~(Deleted[r] < TRANSACTION_ID_START)}
  BY <1>2, CommittedIs
<1>4. \A t \in Running :
            Visible(t) = {r \in 0 .. count - 1 :
                            Seen(Inserted[r], Deleted[r], start_time[t], transaction_id[t])}
  BY <1>0, VisibleIs
<1> QED
  BY <1>3, <1>4 DEF Sees

\* A checkpoint that finds no delete to write reuses the pointers of the one before, and rightly so
\* (row_version_manager.cpp:250): what they point to has every committed delete, and no committed
\* row, however transactions, cleanups, compressions and checkpoints have interleaved since.
THEOREM SkippedWritesAreCurrent == Spec /\ Regular => []SkippedWriteIsCurrent
<1>1. ShapeInv /\ VersionInv => SkippedWriteIsCurrent
  <2> SUFFICES ASSUME ShapeInv, VersionInv, Unwritten = Invalid, "fail" \notin behaviours
               PROVE  /\ Committed \cap version_info.storage = {}
                      /\ version_info.vector_info # NoInfo =>
                            \A r \in 0 .. count - 1 :
                                version_info.vector_info.deleted[r] < TRANSACTION_ID_START =>
                                    r \in version_info.storage
    BY DEF SkippedWriteIsCurrent, Unwritten
  <2>1. \A r \in Committed : ~(Deleted[r] < TRANSACTION_ID_START)
    BY SeesNow DEF Sees
  <2>2. \A r \in version_info.storage : Deleted[r] < TRANSACTION_ID_START
    BY DEF VersionInv, Stored
  <2>3. \A r \in Rows : Deleted[r] < TRANSACTION_ID_START => r \in version_info.storage
    BY DEF VersionInv, Stored, StoredDelete
  <2>4. 0 .. count - 1 \subseteq Rows
    BY Numbers DEF Numeric
  <2>5. version_info.vector_info # NoInfo => Deleted = version_info.vector_info.deleted
    BY DEF Deleted, GetVectorInfo
  <2> QED
    BY <2>1, <2>2, <2>3, <2>4, <2>5
<1> QED
  BY <1>1, VersionInvariant, PTL

\* The assumption that no commit fails once its append is in the table.
NoFailedCommit == "fail" \notin behaviours

\* A checkpoint writes no committed row as deleted; and one that compressed nothing younger than
\* its id writes exactly the rows that were committed at its id, whatever is committed, rolled back
\* or cleaned up while it runs.
THEOREM CheckpointsAreSound == Spec /\ Regular /\ NoFailedCommit => []CheckpointSound
<1>1. ShapeInv /\ VersionInv /\ NoFailedCommit => CheckpointSound
  <2> SUFFICES ASSUME ShapeInv, VersionInv, NoFailedCommit, checkpoint.pc = "written"
               PROVE  /\ Committed \subseteq Written
                      /\ Exact => Written = checkpoint.rows
    BY DEF CheckpointSound, Exact
  <2>1. \A r \in Committed : r \in 0 .. count - 1 /\ ~(Deleted[r] < TRANSACTION_ID_START)
    BY SeesNow DEF Sees
  <2>2. \A r \in version_info.storage : Deleted[r] < TRANSACTION_ID_START
    BY DEF VersionInv, Stored, NoFailedCommit
  <2>3. Exact => Written = checkpoint.rows
    BY DEF VersionInv, Image, NoFailedCommit
  <2> QED
    BY <2>1, <2>2, <2>3 DEF Written
<1>2. NoFailedCommit /\ [Next]_vars => NoFailedCommit'
  BY BehavioursStay DEF NoFailedCommit
<1> QED
  BY <1>1, <1>2, VersionInvariant, PTL DEF Spec

-----------------------------------------------------------------------------
(* Snapshot isolation: the variables of the abstract table *)

\* What the rows look like after a step.
LEMMA SeesNext == ShapeInv' /\ VersionInv' => Sees'
<1>1. ShapeInv /\ VersionInv => Sees
  BY SeesNow
<1> QED
  BY <1>1, PTL

\* What a transaction is to the abstract table.
TablePhase(t) ==
    IF status[t] = "flushed" THEN "active" ELSE IF status[t] = "invalidated" THEN "doomed" ELSE status[t]
TableView(t) == IF t \in Running THEN Visible(t) ELSE {}
TableDeleted(t) == IF t \in Running THEN DeletedBy(t) ELSE {}
TableAppended(t) ==
    IF t \in Running /\ append_info[t] # <<>> THEN append_info[t][1] .. append_info[t][2] ELSE {}

TablePhases == [t \in Txns |-> TablePhase(t)]
TableViews == [t \in Txns |-> TableView(t)]
TableDeletes == [t \in Txns |-> TableDeleted(t)]
TableAppends == [t \in Txns |-> TableAppended(t)]

\* A step that a transaction does not notice.
Unnoticed(u) ==
    /\ TablePhase(u)' = TablePhase(u) /\ TableView(u)' = TableView(u)
    /\ TableDeleted(u)' = TableDeleted(u) /\ TableAppended(u)' = TableAppended(u)

\* The variables of the abstract table when one transaction changes.
LEMMA OneChanges ==
    ASSUME NEW t \in Txns, \A u \in Txns \ {t} : Unnoticed(u)
    PROVE  /\ TablePhases' = [TablePhases EXCEPT ![t] = TablePhase(t)']
           /\ TableViews' = [TableViews EXCEPT ![t] = TableView(t)']
           /\ TableDeletes' = [TableDeletes EXCEPT ![t] = TableDeleted(t)']
           /\ TableAppends' = [TableAppends EXCEPT ![t] = TableAppended(t)']
           /\ TablePhases[t] = TablePhase(t) /\ TableViews[t] = TableView(t)
           /\ TableDeletes[t] = TableDeleted(t) /\ TableAppends[t] = TableAppended(t)
           /\ TablePhase(t)' = TablePhase(t) => TablePhases' = TablePhases
           /\ TableView(t)' = TableView(t) => TableViews' = TableViews
           /\ TableDeleted(t)' = TableDeleted(t) => TableDeletes' = TableDeletes
           /\ TableAppended(t)' = TableAppended(t) => TableAppends' = TableAppends
  BY DEF Unnoticed, TablePhases, TableViews, TableDeletes, TableAppends

\* A step that nobody notices is none of the abstract table.
LEMMA NoneChanges ==
    ASSUME \A u \in Txns : Unnoticed(u), Committed' = Committed
    PROVE  UNCHANGED Table!vars
<1>1. /\ TablePhases' = TablePhases /\ TableViews' = TableViews
      /\ TableDeletes' = TableDeletes /\ TableAppends' = TableAppends
  BY DEF Unnoticed, TablePhases, TableViews, TableDeletes, TableAppends
<1> QED
  BY <1>1 DEF Table!vars, TablePhases, TableViews, TableDeletes, TableAppends,
     TablePhase, TableView, TableDeleted, TableAppended

\* What makes a step one of the abstract table.
StartsIn(t) ==
    /\ Committed' = Committed
    /\ TablePhase(t) = "idle" /\ TablePhase(t)' = "active" /\ TableView(t)' = Committed
    /\ TableDeleted(t)' = TableDeleted(t) /\ TableAppended(t)' = TableAppended(t)

\* A start.
LEMMA StartMaps ==
    ASSUME NEW t \in Txns, \A u \in Txns \ {t} : Unnoticed(u), StartsIn(t)
    PROVE  Table!Start(t)
<1>1. /\ TablePhases[t] = "idle" /\ TablePhases' = [TablePhases EXCEPT ![t] = "active"]
      /\ TableViews' = [TableViews EXCEPT ![t] = Committed] /\ Committed' = Committed
      /\ TableDeletes' = TableDeletes /\ TableAppends' = TableAppends
  BY OneChanges DEF StartsIn
<1> QED
  BY <1>1 DEF Table!Start, TablePhases, TableViews, TableDeletes, TableAppends,
     TablePhase, TableView, TableDeleted, TableAppended

\* R has a row that somebody else has deleted.
TakenIn(t, R) ==
    R \cap (TableView(t) \ Committed) # {} \/ \E u \in Txns \ {t} : R \cap TableDeleted(u) # {}

\* That is what the abstract table says.
LEMMA TakenMaps ==
    ASSUME NEW t \in Txns, NEW R
    PROVE  Table!Taken(t, R) <=> TakenIn(t, R)
  BY DEF Table!Taken, TakenIn, TableView, TableDeleted

DeletesIn(t, R) ==
    /\ Committed' = Committed
    /\ TablePhase(t) = "active" /\ TablePhase(t)' = "active"
    /\ R \subseteq TableView(t) /\ TableView(t)' = TableView(t) \ R
    /\ TableDeleted(t)' = TableDeleted(t) \cup R /\ TableAppended(t)' = TableAppended(t)
    /\ ~TakenIn(t, R)

\* A delete.
LEMMA DeleteMaps ==
    ASSUME NEW t \in Txns, \A u \in Txns \ {t} : Unnoticed(u), NEW R, DeletesIn(t, R)
    PROVE  Table!Delete(t, R) /\ R \subseteq TableView(t)
<1>1. /\ TablePhases[t] = "active" /\ TablePhases' = TablePhases
      /\ TableViews' = [TableViews EXCEPT ![t] = TableViews[t] \ R] /\ Committed' = Committed
      /\ TableDeletes' = [TableDeletes EXCEPT ![t] = TableDeletes[t] \cup R]
      /\ TableAppends' = TableAppends /\ R \subseteq TableView(t)
  BY OneChanges DEF DeletesIn
<1>2. ~Table!Taken(t, R)
  BY TakenMaps DEF DeletesIn
<1> QED
  BY <1>1, <1>2 DEF Table!Delete, TablePhases, TableViews, TableDeletes, TableAppends,
     TablePhase, TableView, TableDeleted, TableAppended

ConflictsIn(t, R) ==
    /\ Committed' = Committed
    /\ TablePhase(t) = "active" /\ TablePhase(t)' = "doomed"
    /\ TableView(t)' = TableView(t) /\ TableDeleted(t)' = TableDeleted(t)
    /\ TableAppended(t)' = TableAppended(t)
    /\ R \subseteq TableView(t) /\ TakenIn(t, R)

\* A conflict.
LEMMA ConflictMaps ==
    ASSUME NEW t \in Txns, \A u \in Txns \ {t} : Unnoticed(u), NEW R, ConflictsIn(t, R)
    PROVE  Table!Conflict(t)
<1>1. /\ TablePhases[t] = "active" /\ TablePhases' = [TablePhases EXCEPT ![t] = "doomed"]
      /\ TableViews' = TableViews /\ Committed' = Committed
      /\ TableDeletes' = TableDeletes /\ TableAppends' = TableAppends
      /\ R \subseteq TableViews[t]
  BY OneChanges DEF ConflictsIn
<1>2. Table!Taken(t, R)
  BY TakenMaps DEF ConflictsIn
<1>3. \E S \in SUBSET TableViews[t] : Table!Taken(t, S)
  BY <1>1, <1>2
<1> QED
  BY <1>1, <1>3 DEF Table!Conflict, TablePhases, TableViews, TableDeletes, TableAppends,
     TablePhase, TableView, TableDeleted, TableAppended

AppendsIn(t, R) ==
    /\ Committed' = Committed
    /\ TablePhase(t) = "active" /\ TablePhase(t)' = "active"
    /\ R \subseteq Rows \ TableView(t) /\ R \cap Committed = {}
    /\ TableView(t)' = TableView(t) \cup R /\ TableDeleted(t)' = TableDeleted(t)
    /\ TableAppended(t)' = TableAppended(t) \cup R

\* An append.
LEMMA AppendMaps ==
    ASSUME NEW t \in Txns, \A u \in Txns \ {t} : Unnoticed(u), NEW R, AppendsIn(t, R)
    PROVE  Table!Append(t, R) /\ R \subseteq Rows \ TableView(t)
<1>1. /\ TablePhases[t] = "active" /\ TablePhases' = TablePhases
      /\ TableViews' = [TableViews EXCEPT ![t] = TableViews[t] \cup R] /\ Committed' = Committed
      /\ TableAppends' = [TableAppends EXCEPT ![t] = TableAppends[t] \cup R]
      /\ TableDeletes' = TableDeletes /\ R \cap Committed = {} /\ R \subseteq Rows \ TableView(t)
  BY OneChanges DEF AppendsIn
<1> QED
  BY <1>1 DEF Table!Append, TablePhases, TableViews, TableDeletes, TableAppends,
     TablePhase, TableView, TableDeleted, TableAppended

EndsIn(t) ==
    /\ TablePhase(t)' = "done" /\ TableView(t)' = {} /\ TableDeleted(t)' = {} /\ TableAppended(t)' = {}

\* The end of a transaction.
LEMMA EndMaps ==
    ASSUME NEW t \in Txns, \A u \in Txns \ {t} : Unnoticed(u), EndsIn(t)
    PROVE  /\ TablePhase(t) = "active" /\ Committed' = (Committed \ TableDeleted(t)) \cup TableAppended(t) =>
                Table!Commit(t)
           /\ TablePhase(t) \in {"active", "doomed"} /\ Committed' = Committed => Table!Rollback(t)
<1>1. /\ TablePhases' = [TablePhases EXCEPT ![t] = "done"]
      /\ TableViews' = [TableViews EXCEPT ![t] = {}]
      /\ TableDeletes' = [TableDeletes EXCEPT ![t] = {}]
      /\ TableAppends' = [TableAppends EXCEPT ![t] = {}]
      /\ TablePhases[t] = TablePhase(t)
      /\ TableDeletes[t] = TableDeleted(t) /\ TableAppends[t] = TableAppended(t)
  BY OneChanges DEF EndsIn
<1>2. Table!End(t)
  BY <1>1 DEF Table!End, TablePhases, TableViews, TableDeletes, TableAppends,
     TablePhase, TableView, TableDeleted, TableAppended
<1>3. ASSUME TablePhase(t) = "active", Committed' = (Committed \ TableDeleted(t)) \cup TableAppended(t)
      PROVE  Table!Commit(t)
  <2>1. TablePhases[t] = "active" /\ Committed' = (Committed \ TableDeletes[t]) \cup TableAppends[t]
    BY <1>1, <1>3
  <2> QED
    BY <1>2, <2>1 DEF Table!Commit, TablePhases, TableDeletes, TableAppends,
       TablePhase, TableDeleted, TableAppended
<1>4. ASSUME TablePhase(t) \in {"active", "doomed"}, Committed' = Committed
      PROVE  Table!Rollback(t)
  <2>1. TablePhases[t] \in {"active", "doomed"}
    BY <1>1, <1>4
  <2> QED
    BY <1>2, <1>4, <2>1 DEF Table!Rollback, TablePhases, TablePhase
<1> QED
  BY <1>3, <1>4

-----------------------------------------------------------------------------
(* Snapshot isolation: steps that nobody notices *)

\* What a transaction sees stays as it is, if what it sees of each row does.
LEMMA SameSight ==
    ASSUME Sees, Sees', NEW u \in Running, u \in Running', count' = count,
           start_time'[u] = start_time[u], transaction_id'[u] = transaction_id[u],
           \A r \in 0 .. count - 1 :
                Seen(Inserted'[r], Deleted'[r], start_time[u], transaction_id[u])
                    <=> Seen(Inserted[r], Deleted[r], start_time[u], transaction_id[u])
    PROVE  TableView(u)' = TableView(u)
<1>1. Visible(u) = {r \in 0 .. count - 1 :
                        Seen(Inserted[r], Deleted[r], start_time[u], transaction_id[u])}
  BY DEF Sees
<1>2. Visible(u)' = {r \in 0 .. count' - 1 :
                        Seen(Inserted'[r], Deleted'[r], start_time'[u], transaction_id'[u])}
  BY DEF Sees
<1>3. Visible(u)' = Visible(u)
  BY <1>1, <1>2
<1> QED
  BY <1>3 DEF TableView

\* Ids that everybody sees may be exchanged for others that everybody sees, and transactions that
\* do not run may be cleaned up.
LEMMA QuietSight ==
    ASSUME ShapeInv, VersionInv, ShapeInv', VersionInv', status' = status, count' = count,
           \A u \in Running : start_time'[u] = start_time[u] /\ transaction_id'[u] = transaction_id[u],
           \A u \in Running : undo_buffer'[u] = undo_buffer[u] /\ append_info'[u] = append_info[u],
           \A r \in Rows : \/ Inserted'[r] = Inserted[r]
                           \/ Inserted'[r] = 0 /\ SeenByAll(Inserted[r]),
           \A r \in Rows : \/ Deleted'[r] = Deleted[r]
                           \/ /\ Deleted[r] < TRANSACTION_ID_START /\ Deleted'[r] < TRANSACTION_ID_START
                              /\ \A v \in Running : Deleted[r] < start_time[v]
                              /\ \A v \in Running : Deleted'[r] < start_time[v]
    PROVE  UNCHANGED Table!vars
<1>0. Numeric /\ Typed /\ Clocks /\ Sees /\ Sees'
  BY Numbers, Functions, SeesNow, SeesNext DEF VersionInv
<1>1. Running' = Running
  BY DEF Running
<1>2. 0 .. count - 1 \subseteq Rows
  BY <1>0 DEF Numeric
<1>3. ASSUME NEW r \in Rows
      PROVE  /\ (Inserted'[r] < TRANSACTION_ID_START) <=> (Inserted[r] < TRANSACTION_ID_START)
             /\ (Deleted'[r] < TRANSACTION_ID_START) <=> (Deleted[r] < TRANSACTION_ID_START)
  <2>1. Inserted[r] \in Nat /\ (SeenByAll(Inserted[r]) => Inserted[r] < TRANSACTION_ID_START)
    BY <1>0 DEF SeenByAll, Numeric, Typed
  <2>2. 0 < TRANSACTION_ID_START
    BY <1>0 DEF Numeric
  <2> QED
    BY <2>1, <2>2
<1>4. Committed' = Committed
  BY <1>0, <1>2, <1>3 DEF Sees
<1>5. ASSUME NEW u \in Running PROVE Unnoticed(u)
  <2>1. 0 < start_time[u]
    BY <1>0, RunningIds
  <2>2. ASSUME NEW r \in 0 .. count - 1
        PROVE  Seen(Inserted'[r], Deleted'[r], start_time[u], transaction_id[u])
                 <=> Seen(Inserted[r], Deleted[r], start_time[u], transaction_id[u])
    <3>1. (Inserted'[r] < start_time[u] \/ Inserted'[r] = transaction_id[u])
            <=> (Inserted[r] < start_time[u] \/ Inserted[r] = transaction_id[u])
      BY <1>2, <2>1 DEF SeenByAll
    <3>2. (Deleted'[r] < start_time[u] \/ Deleted'[r] = transaction_id[u])
            <=> (Deleted[r] < start_time[u] \/ Deleted[r] = transaction_id[u])
      BY <1>2
    <3> QED
      BY <3>1, <3>2 DEF Seen
  <2>3. TableView(u)' = TableView(u)
    BY <1>0, <1>1, <2>2, SameSight
  <2> QED
    BY <1>1, <2>3 DEF Unnoticed, TablePhase, TableDeleted, TableAppended, DeletedBy
<1>6. ASSUME NEW u \in Txns, u \notin Running PROVE Unnoticed(u)
  BY <1>1, <1>6 DEF Unnoticed, TablePhase, TableView, TableDeleted, TableAppended
<1> QED
  BY <1>4, <1>5, <1>6, NoneChanges

\* The steps of a checkpoint, of a cleanup and of a restart.
LEMMA QuietMaps ==
    ASSUME ShapeInv, VersionInv, ShapeInv', VersionInv', Regular,
           \/ \E t \in Txns : CleanupTransaction(t)
           \/ DecideCheckpoint
           \/ \E type \in {"full", "concurrent"} : CreateCheckpoint(type)
           \/ WALStartCheckpoint
           \/ StartBindTransaction
           \/ ReadLowestActiveStart
           \/ CompressVersionInfo
           \/ CheckpointDeletes
           \/ UnlockTable
           \/ CommitBindTransaction
           \/ FinishCheckpoint
           \/ Restart
    PROVE  UNCHANGED Table!vars
<1>0. Numeric /\ Typed /\ Clocks
  BY Numbers, Functions DEF VersionInv
<1>1. CASE \/ DecideCheckpoint
           \/ \E type \in {"full", "concurrent"} : CreateCheckpoint(type)
           \/ WALStartCheckpoint
           \/ StartBindTransaction
           \/ ReadLowestActiveStart
           \/ UnlockTable
           \/ CommitBindTransaction
           \/ FinishCheckpoint
  <2>1. UNCHANGED <<transactions, count, version_info>>
    BY <1>1 DEF DecideCheckpoint, CreateCheckpoint, WALStartCheckpoint, StartBindTransaction,
       ReadLowestActiveStart, UnlockTable, CommitBindTransaction, FinishCheckpoint
  <2>2. Inserted' = Inserted /\ Deleted' = Deleted /\ count' = count
    BY <2>1 DEF Inserted, Deleted
  <2>3. /\ status' = status /\ start_time' = start_time /\ transaction_id' = transaction_id
        /\ undo_buffer' = undo_buffer /\ append_info' = append_info
    BY <2>1 DEF transactions
  <2> QED
    BY <2>2, <2>3, QuietSight
<1>2. ASSUME NEW t \in Txns, CleanupTransaction(t) PROVE UNCHANGED Table!vars
  <2>1. CleansUp(t)
    BY <1>2, CleanupEffect
  <2>2. /\ status' = status /\ start_time' = start_time /\ transaction_id' = transaction_id
        /\ count' = count
    BY <1>2 DEF CleanupTransaction
  <2>3. \A u \in Running : undo_buffer'[u] = undo_buffer[u] /\ append_info'[u] = append_info[u]
    BY <1>0, <2>1 DEF CleansUp, Typed
  <2>4. ASSUME NEW r \in Rows
        PROVE  Inserted'[r] = Inserted[r] \/ (Inserted'[r] = 0 /\ SeenByAll(Inserted[r]))
    <3>1. Inserted[r] <= last_commit => Inserted[r] < current_start_timestamp
      BY <1>0 DEF Numeric, Typed
    <3> QED
      BY <2>1, <3>1 DEF CleansUp, SeenByAll
  <2>5. Deleted' = Deleted
    BY <2>1 DEF CleansUp
  <2> QED
    BY <2>2, <2>3, <2>4, <2>5, QuietSight
<1>3. CASE CompressVersionInfo
  <2>1. Compresses
    BY <1>3, CompressEffect
  <2>2. /\ status' = status /\ start_time' = start_time /\ transaction_id' = transaction_id
        /\ undo_buffer' = undo_buffer /\ append_info' = append_info /\ count' = count
    BY <1>3 DEF CompressVersionInfo, transactions
  <2>3. \A r \in Rows : Inserted'[r] = Inserted[r] \/ (Inserted'[r] = 0 /\ SeenByAll(Inserted[r]))
    BY <2>1 DEF Compresses
  <2>4. ASSUME NEW r \in Rows
        PROVE  \/ Deleted'[r] = Deleted[r]
               \/ /\ Deleted[r] < TRANSACTION_ID_START /\ Deleted'[r] < TRANSACTION_ID_START
                  /\ \A v \in Running : Deleted[r] < start_time[v]
                  /\ \A v \in Running : Deleted'[r] < start_time[v]
    <3>1. \/ Deleted'[r] = Deleted[r]
          \/ /\ Deleted[r] <= last_commit
             /\ Deleted'[r] \in Nat /\ Deleted'[r] <= last_commit /\ SeenByAll(Deleted[r])
             /\ \A v \in Running : Deleted'[r] < start_time[v]
      BY <2>1, CompressedDelete
    <3>2. /\ Deleted[r] <= last_commit => Deleted[r] < TRANSACTION_ID_START
          /\ Deleted'[r] \in Nat /\ Deleted'[r] <= last_commit => Deleted'[r] < TRANSACTION_ID_START
      BY <1>0, SMTT(30) DEF Numeric, Typed
    <3> QED
      BY <3>1, <3>2 DEF SeenByAll
  <2> QED
    BY <2>2, <2>3, <2>4, QuietSight
<1>4. CASE CheckpointDeletes
  <2>1. Inserted' = Inserted /\ Deleted' = Deleted
    BY <1>4, CheckpointDeletesEffect DEF WritesDeletes
  <2>2. /\ status' = status /\ start_time' = start_time /\ transaction_id' = transaction_id
        /\ undo_buffer' = undo_buffer /\ append_info' = append_info /\ count' = count
    BY <1>4 DEF CheckpointDeletes, transactions
  <2> QED
    BY <2>1, <2>2, QuietSight
<1>5. CASE Restart
  <2>1. Restarts
    BY <1>5, RestartEffect
  <2>2. /\ status' = status /\ count' = count /\ Running = {}
    BY <1>5 DEF Restart, transactions
  <2>3. ASSUME NEW r \in Rows
        PROVE  Inserted'[r] = 0 /\ SeenByAll(Inserted[r])
    <3>1. Inserted[r] < current_start_timestamp
      BY <1>0, <2>1 DEF Restarts, Numeric, Typed
    <3> QED
      BY <2>1, <2>2, <3>1 DEF Restarts, SeenByAll
  <2>4. ASSUME NEW r \in Rows
        PROVE  \/ Deleted'[r] = Deleted[r]
               \/ Deleted[r] < TRANSACTION_ID_START /\ Deleted'[r] < TRANSACTION_ID_START
    <3>1. Deleted[r] <= last_commit => Deleted[r] < TRANSACTION_ID_START
      BY CommittedDeletes
    <3>2. 0 < TRANSACTION_ID_START
      BY <1>0 DEF Numeric
    <3>3. CASE Deleted[r] <= last_commit
      BY <2>1, <3>1, <3>2, <3>3 DEF Restarts
    <3>4. CASE ~(Deleted[r] <= last_commit)
      BY <2>1, <3>4 DEF Restarts
    <3> QED
      BY <3>3, <3>4
  <2> QED
    BY <2>2, <2>3, <2>4, QuietSight
<1> QED
  BY <1>1, <1>2, <1>3, <1>4, <1>5

-----------------------------------------------------------------------------
(* Snapshot isolation: steps of transactions *)

\* Ids of running transactions differ.
LEMMA OwnIds ==
    ASSUME Clocks, NEW t \in Running, NEW u \in Running, t # u
    PROVE  transaction_id[t] # transaction_id[u]
  BY DEF Clocks

\* A transaction starts on the committed rows.
LEMMA StartTransactionMaps ==
    ASSUME ShapeInv, VersionInv, ShapeInv', VersionInv', NEW t \in Txns, StartTransaction(t)
    PROVE  Table!Start(t)
<1>0. Numeric /\ Typed /\ Clocks /\ InsertIds /\ DeleteIds /\ Sees /\ Sees'
  BY Numbers, Functions, SeesNow, SeesNext DEF VersionInv
<1>1. /\ status[t] = "idle" /\ status' = [status EXCEPT ![t] = "active"]
      /\ start_time' = [start_time EXCEPT ![t] = current_start_timestamp]
      /\ transaction_id' = [transaction_id EXCEPT ![t] = current_transaction_id]
      /\ undo_buffer' = undo_buffer /\ append_info' = append_info /\ count' = count
      /\ version_info' = version_info
  BY DEF StartTransaction
<1>2. /\ Inserted' = Inserted /\ Deleted' = Deleted
      /\ Running' = Running \cup {t} /\ t \notin Running
  BY <1>0, <1>1 DEF Inserted, Deleted, Running, Typed
<1>3. Committed' = Committed
  BY <1>0, <1>1, <1>2 DEF Sees
<1>4. ASSUME NEW u \in Txns \ {t} PROVE Unnoticed(u)
  <2>1. /\ start_time'[u] = start_time[u] /\ transaction_id'[u] = transaction_id[u]
        /\ status'[u] = status[u] /\ (u \in Running' <=> u \in Running)
    BY <1>0, <1>1, <1>2 DEF Typed
  <2>2. TableView(u)' = TableView(u)
    <3>1. CASE u \in Running
      BY <1>0, <1>1, <1>2, <2>1, <3>1, SameSight
    <3>2. CASE u \notin Running
      BY <2>1, <3>2 DEF TableView
    <3> QED
      BY <3>1, <3>2
  <2> QED
    BY <1>1, <2>1, <2>2 DEF Unnoticed, TablePhase, TableDeleted, TableAppended, DeletedBy
<1>5. TableView(t)' = Committed
  <2>1. start_time'[t] = current_start_timestamp /\ transaction_id'[t] = current_transaction_id
    BY <1>0, <1>1 DEF Typed
  <2>2. Visible(t)' = {r \in 0 .. count - 1 :
                Seen(Inserted[r], Deleted[r], current_start_timestamp, current_transaction_id)}
    BY <1>0, <1>1, <1>2, <2>1 DEF Sees
  <2>3. ASSUME NEW r \in 0 .. count - 1
        PROVE  Seen(Inserted[r], Deleted[r], current_start_timestamp, current_transaction_id)
                 <=> Seen(Inserted[r], Deleted[r], current_start_timestamp, MAX_TRANSACTION_ID)
    <3>1. r \in Rows /\ Inserted[r] \in Nat /\ Deleted[r] \in Nat
      BY <1>0 DEF Numeric, Typed
    <3>2. Inserted[r] # current_transaction_id /\ Inserted[r] # MAX_TRANSACTION_ID
      <4>1. \/ Inserted[r] < current_start_timestamp
            \/ Inserted[r] \in TRANSACTION_ID_START .. current_transaction_id - 1
        BY <1>0, <3>1 DEF InsertIds, InsertId
      <4> QED
        BY <1>0, <3>1, <4>1 DEF Numeric
    <3>3. Deleted[r] # current_transaction_id /\ Deleted[r] # MAX_TRANSACTION_ID
      <4>1. \/ Deleted[r] = NOT_DELETED_ID \/ Deleted[r] <= last_commit
            \/ \E u \in Running : Deleted[r] = transaction_id[u]
        BY <1>0, <3>1 DEF DeleteIds, DeleteId
      <4>2. \A u \in Running : /\ transaction_id[u] \in Nat /\ transaction_id[u] < current_transaction_id
        BY <1>0, RunningIds
      <4> QED
        BY <1>0, <3>1, <4>1, <4>2 DEF Numeric
    <3> QED
      BY <3>2, <3>3 DEF Seen
  <2>4. Visible(t)' = Committed
    BY <2>2, <2>3, CommittedIs
  <2> QED
    BY <1>2, <2>4 DEF TableView
<1>6. TablePhase(t) = "idle" /\ TablePhase(t)' = "active"
  BY <1>0, <1>1 DEF TablePhase, Typed
<1>7. TableDeleted(t) = {} /\ TableAppended(t) = {}
  BY <1>2 DEF TableDeleted, TableAppended
<1>8. TableDeleted(t)' = {}
  <2>1. undo_buffer'[t] = <<>>
    BY <1>0, <1>1 DEF Clocks
  <2> QED
    BY <2>1 DEF TableDeleted, DeletedBy
<1>9. TableAppended(t)' = {}
  <2>1. append_info[t] = <<>>
    BY <1>1 DEF ShapeInv, Appends, Appended, Flushed
  <2> QED
    BY <1>1, <2>1 DEF TableAppended
<1>10. StartsIn(t)
  BY <1>3, <1>5, <1>6, <1>7, <1>8, <1>9 DEF StartsIn
<1> QED
  BY <1>4, <1>10, StartMaps

\* A statement deletes rows, or fails because somebody else has deleted one of them.
LEMMA DeleteStatementMaps ==
    ASSUME ShapeInv, VersionInv, ShapeInv', VersionInv', Regular,
           NEW t \in Txns, NEW rows \in DeleteInputs(t), DeleteStatement(t, rows)
    PROVE  Table!Conflict(t) \/ \E R : R \subseteq TableView(t) /\ Table!Delete(t, R)
<1>0. Numeric /\ Typed /\ Clocks /\ InsertIds /\ DeleteIds /\ Sees /\ Sees'
  BY Numbers, Functions, SeesNow, SeesNext DEF VersionInv
<1>1. PICK R : DeletesOrConflicts(t, R)
  BY <1>0, DeleteStatementEffect
<1>2. /\ status[t] = "active" /\ t \in Running
      /\ start_time' = start_time /\ transaction_id' = transaction_id
      /\ append_info' = append_info /\ count' = count /\ last_commit' = last_commit
  BY DEF DeleteStatement, Running, manager
<1>3. /\ R \subseteq Visible(t) /\ R \subseteq Rows /\ R # {}
      /\ Inserted' = Inserted
      /\ \A u \in Txns \ {t} : undo_buffer'[u] = undo_buffer[u] /\ status'[u] = status[u]
      /\ status'[t] \in {"active", "invalidated"}
  BY <1>1 DEF DeletesOrConflicts
<1>4. Running' = Running
  BY <1>2, <1>3 DEF Running
<1>5. TableAppended(t)' = TableAppended(t) /\ TablePhase(t) = "active" /\ R \subseteq TableView(t)
  BY <1>2, <1>3, <1>4 DEF TableAppended, TablePhase, TableView
<1>6. 0 .. count - 1 \subseteq Rows
  BY <1>0 DEF Numeric
<1>7. \A u \in Running : /\ transaction_id[u] \in Nat /\ start_time[u] \in Nat /\ u \in Txns
                        /\ TRANSACTION_ID_START <= transaction_id[u]
                        /\ start_time[u] < TRANSACTION_ID_START
                        /\ transaction_id[u] < NOT_DELETED_ID
  BY <1>0, RunningIds DEF Numeric
<1>8. Visible(t) = {r \in 0 .. count - 1 :
                        Seen(Inserted[r], Deleted[r], start_time[t], transaction_id[t])}
  BY <1>0, <1>2 DEF Sees
<1>9. ASSUME NEW u \in Txns \ {t}, TableView(u)' = TableView(u) PROVE Unnoticed(u)
  BY <1>2, <1>3, <1>4, <1>9 DEF Unnoticed, TablePhase, TableDeleted, TableAppended, DeletedBy
<1>10. CASE /\ status'[t] = "invalidated" /\ undo_buffer'[t] = undo_buffer[t] /\ Deleted' = Deleted
            /\ \E r \in R : Deleted[r] # NOT_DELETED_ID
  <2>1. ASSUME NEW u \in Txns PROVE TableView(u)' = TableView(u)
    <3>1. CASE u \in Running
      BY <1>0, <1>2, <1>3, <1>4, <1>10, <3>1, SameSight
    <3>2. CASE u \notin Running
      BY <1>4, <3>2 DEF TableView
    <3> QED
      BY <3>1, <3>2
  <2>2. Committed' = Committed
    BY <1>0, <1>2, <1>3, <1>10 DEF Sees
  <2>3. PICK r \in R : Deleted[r] # NOT_DELETED_ID
    BY <1>10
  <2>4. TakenIn(t, R)
    <3>1. r \in Rows /\ r \in Visible(t) /\ DeleteId(r) /\ Deleted[r] # transaction_id[t]
      BY <1>0, <1>3, <1>8 DEF DeleteIds, Seen
    <3>2. CASE Deleted[r] <= last_commit
      <4>1. Deleted[r] < TRANSACTION_ID_START
        BY <3>1, <3>2, CommittedDeletes
      <4>2. r \notin Committed
        BY <1>0, <4>1 DEF Sees
      <4> QED
        BY <1>2, <3>1, <4>2 DEF TakenIn, TableView
    <3>3. ASSUME NEW u \in Running, Deleted[r] = transaction_id[u], r \in DeletedBy(u)
          PROVE TakenIn(t, R)
      <4>1. u \in Txns \ {t}
        BY <1>7, <3>1, <3>3
      <4> QED
        BY <3>3, <4>1 DEF TakenIn, TableDeleted
    <3> QED
      BY <2>3, <3>1, <3>2, <3>3 DEF DeleteId
  <2>5. TablePhase(t)' = "doomed" /\ TableDeleted(t)' = TableDeleted(t)
    BY <1>4, <1>10 DEF TablePhase, TableDeleted, DeletedBy
  <2>6. ConflictsIn(t, R)
    BY <1>5, <2>1, <2>2, <2>4, <2>5 DEF ConflictsIn
  <2> QED
    BY <1>9, <2>1, <2>6, ConflictMaps
<1>11. CASE /\ status'[t] = "active" /\ DeletedBy(t)' = DeletedBy(t) \cup R
            /\ Deleted' = [r \in Rows |-> IF r \in R THEN transaction_id[t] ELSE Deleted[r]]
            /\ \A r \in R : Deleted[r] = NOT_DELETED_ID
  <2>1. /\ \A r \in R : Deleted'[r] = transaction_id[t]
        /\ \A r \in R : Deleted[r] = NOT_DELETED_ID
        /\ \A r \in Rows : r \notin R => Deleted'[r] = Deleted[r]
    BY <1>3, <1>11
  <2>2. ~(transaction_id[t] < TRANSACTION_ID_START) /\ ~(NOT_DELETED_ID < TRANSACTION_ID_START)
    BY <1>0, <1>2, <1>7 DEF Numeric
  <2>3. Committed' = Committed
    BY <1>0, <1>2, <1>3, <1>6, <2>1, <2>2 DEF Sees
  <2>4. ASSUME NEW u \in Txns \ {t} PROVE Unnoticed(u)
    <3>1. CASE u \in Running
      <4>1. /\ ~(transaction_id[t] < start_time[u]) /\ ~(NOT_DELETED_ID < start_time[u])
            /\ NOT_DELETED_ID # transaction_id[u]
        BY <1>0, <1>2, <1>7, <3>1 DEF Numeric
      <4>2. transaction_id[t] # transaction_id[u]
        BY <1>0, <1>2, <3>1, OwnIds
      <4>3. ASSUME NEW r \in 0 .. count - 1
            PROVE  Seen(Inserted'[r], Deleted'[r], start_time[u], transaction_id[u])
                     <=> Seen(Inserted[r], Deleted[r], start_time[u], transaction_id[u])
        BY <1>3, <1>6, <2>1, <4>1, <4>2 DEF Seen
      <4>4. TableView(u)' = TableView(u)
        BY <1>0, <1>2, <1>4, <3>1, <4>3, SameSight
      <4> QED
        BY <1>9, <4>4
    <3>2. CASE u \notin Running
      <4>1. TableView(u)' = TableView(u)
        BY <1>4, <3>2 DEF TableView
      <4> QED
        BY <1>9, <4>1
    <3> QED
      BY <3>1, <3>2
  <2>5. TableView(t)' = TableView(t) \ R
    <3>1. Visible(t)' = {r \in 0 .. count - 1 :
                            Seen(Inserted[r], Deleted'[r], start_time[t], transaction_id[t])}
      BY <1>0, <1>2, <1>3, <1>4 DEF Sees
    <3>2. ASSUME NEW r \in 0 .. count - 1
          PROVE  Seen(Inserted[r], Deleted'[r], start_time[t], transaction_id[t])
                    <=> (Seen(Inserted[r], Deleted[r], start_time[t], transaction_id[t]) /\ r \notin R)
      BY <1>6, <2>1 DEF Seen
    <3>3. Visible(t)' = Visible(t) \ R
      BY <1>8, <3>1, <3>2
    <3> QED
      BY <1>2, <1>4, <3>3 DEF TableView
  <2>6. ~TakenIn(t, R)
    <3>1. ASSUME NEW r \in R PROVE r \in Committed
      <4>1. r \in Rows /\ Deleted'[r] # NOT_DELETED_ID
        BY <1>0, <1>2, <1>3, <1>7, <2>1 DEF Numeric
      <4>2. Inserted'[r] <= last_commit'
        BY <4>1 DEF VersionInv, DeleteIds, DeleteId
      <4>3. Inserted[r] < TRANSACTION_ID_START
        BY <1>0, <1>2, <1>3, <4>1, <4>2, SMTT(30) DEF Numeric, Typed
      <4>4. r \in 0 .. count - 1
        BY <1>3, <1>8
      <4> QED
        BY <1>0, <2>1, <2>2, <4>1, <4>3, <4>4 DEF Sees
    <3>2. ASSUME NEW u \in Txns \ {t}, NEW r \in R, r \in TableDeleted(u) PROVE FALSE
      <4>1. u \in Running /\ r \in DeletedBy(u)
        BY <3>2 DEF TableDeleted
      <4>2. Deleted[r] = transaction_id[u]
        BY <1>0, <4>1 DEF DeleteIds
      <4> QED
        BY <1>0, <1>3, <1>7, <2>1, <4>1, <4>2 DEF Numeric
    <3> QED
      BY <3>1, <3>2 DEF TakenIn
  <2>7. TablePhase(t)' = "active" /\ TableDeleted(t)' = TableDeleted(t) \cup R
    BY <1>2, <1>4, <1>11 DEF TablePhase, TableDeleted
  <2>8. DeletesIn(t, R)
    BY <1>5, <2>3, <2>5, <2>6, <2>7 DEF DeletesIn
  <2> QED
    BY <2>4, <2>8, DeleteMaps
<1> QED
  BY <1>1, <1>10, <1>11 DEF DeletesOrConflicts

\* The rows that a transaction flushes are new, and only it sees them.
LEMMA FlushAppendMaps ==
    ASSUME ShapeInv, VersionInv, ShapeInv', VersionInv', Regular, NEW t \in Txns,
           NEW n \in 1 .. VectorSize, NEW optimistic \in BOOLEAN, FlushAppend(t, n, optimistic)
    PROVE  \E R : R \subseteq Rows \ TableView(t) /\ Table!Append(t, R)
<1>0. Numeric /\ Typed /\ Clocks /\ InsertIds /\ DeleteIds /\ Sees /\ Sees'
  BY Numbers, Functions, SeesNow, SeesNext DEF VersionInv
<1>1. PICK first, last : Flushes(t, first, last)
  BY FlushAppendEffect
<1>2. /\ status[t] = "active" /\ status' = [status EXCEPT ![t] = "flushed"]
      /\ start_time' = start_time /\ transaction_id' = transaction_id /\ undo_buffer' = undo_buffer
  BY DEF FlushAppend
<1>3. /\ first = count /\ count' = last + 1 /\ first <= last /\ last < VectorSize
      /\ first \in Nat /\ last \in Nat
      /\ Deleted' = Deleted
      /\ Inserted' = [r \in Rows |-> IF first = 0 \/ r \in first .. last THEN transaction_id[t] ELSE Inserted[r]]
      /\ FirstRow(t)' = first /\ LastRow(t)' = last /\ Flushed(t)'
      /\ \A u \in Txns \ {t} : append_info'[u] = append_info[u]
      /\ Running' = Running /\ t \in Running
  BY <1>1 DEF Flushes
<1> PICK R : R = first .. last
  OBVIOUS
<1>4. /\ 0 .. count - 1 \subseteq Rows /\ R \subseteq Rows
      /\ 0 .. count' - 1 = (0 .. count - 1) \cup R
      /\ \A r \in 0 .. count - 1 : r \notin R /\ first # 0
      /\ \A r \in R : r \notin 0 .. count - 1
  <2>1. count \in Nat /\ VectorSize \in Nat /\ count <= VectorSize /\ Rows = 0 .. VectorSize - 1
    BY <1>0 DEF Numeric
  <2>2. 0 .. count - 1 \subseteq Rows /\ R \subseteq Rows
    BY <1>3, <2>1
  <2>3. 0 .. count' - 1 = (0 .. count - 1) \cup R
    BY <1>3, <2>1
  <2>4. \A r \in 0 .. count - 1 : r \notin R /\ first # 0
    BY <1>3, <2>1
  <2>5. \A r \in R : r \notin 0 .. count - 1
    BY <1>3, <2>1
  <2> QED
    BY <2>2, <2>3, <2>4, <2>5
<1>5. /\ \A r \in R : Inserted'[r] = transaction_id[t]
      /\ \A r \in 0 .. count - 1 : Inserted'[r] = Inserted[r]
  BY <1>3, <1>4
<1>6. ASSUME NEW r \in R PROVE Deleted[r] = NOT_DELETED_ID
  <2>1. r \in Rows /\ ~(r < count)
    BY <1>0, <1>3, <1>4 DEF Numeric
  <2> QED
    BY <1>0, <2>1 DEF DeleteIds, DeleteId
<1>7. ASSUME NEW u \in Running
      PROVE  /\ transaction_id[u] \in Nat /\ start_time[u] \in Nat
             /\ TRANSACTION_ID_START <= transaction_id[u]
             /\ start_time[u] < TRANSACTION_ID_START
             /\ transaction_id[u] < NOT_DELETED_ID
  <2>1. /\ transaction_id[u] \in Nat /\ start_time[u] \in Nat
        /\ TRANSACTION_ID_START <= transaction_id[u]
        /\ start_time[u] < current_start_timestamp
        /\ transaction_id[u] < NOT_DELETED_ID
    BY <1>0, RunningIds
  <2> QED
    BY <1>0, <2>1 DEF Numeric
<1>8. Committed' = Committed
  <2>0. ~(transaction_id[t] < TRANSACTION_ID_START)
    BY <1>0, <1>3, <1>7 DEF Numeric
  <2>1. \A r \in R : ~(Inserted'[r] < TRANSACTION_ID_START)
    BY <1>5, <2>0
  <2> QED
    BY <1>0, <1>3, <1>4, <1>5, <2>1 DEF Sees
<1>9. ASSUME NEW u \in Running
      PROVE  /\ Visible(u) = {r \in 0 .. count - 1 :
                                Seen(Inserted[r], Deleted[r], start_time[u], transaction_id[u])}
             /\ Visible(u)' = {r \in (0 .. count - 1) \cup R :
                                Seen(Inserted'[r], Deleted[r], start_time[u], transaction_id[u])}
  <2>1. Visible(u) = {r \in 0 .. count - 1 :
                        Seen(Inserted[r], Deleted[r], start_time[u], transaction_id[u])}
    BY <1>0 DEF Sees
  <2>2. Visible(u)' = {r \in 0 .. count' - 1 :
                        Seen(Inserted'[r], Deleted'[r], start_time'[u], transaction_id'[u])}
    BY <1>0, <1>3 DEF Sees
  <2> QED
    BY <1>2, <1>3, <1>4, <2>1, <2>2
<1>10. ASSUME NEW u \in Txns \ {t} PROVE Unnoticed(u)
  <2>1. TableView(u)' = TableView(u)
    <3>1. CASE u \in Running
      <4>1. ~(transaction_id[t] < start_time[u])
        BY SMTT(30), <1>0, <1>3, <1>7, <3>1 DEF Numeric
      <4>2. transaction_id[t] # transaction_id[u]
        BY <1>0, <1>3, <3>1, OwnIds
      <4>3. \A r \in R : ~Seen(Inserted'[r], Deleted[r], start_time[u], transaction_id[u])
        BY <1>5, <4>1, <4>2 DEF Seen
      <4>4. Visible(u)' = Visible(u)
        <5>1. \A r \in 0 .. count - 1 : Inserted'[r] = Inserted[r]
          BY <1>5
        <5>2. /\ Visible(u) = {r \in 0 .. count - 1 :
                                Seen(Inserted[r], Deleted[r], start_time[u], transaction_id[u])}
              /\ Visible(u)' = {r \in (0 .. count - 1) \cup R :
                                Seen(Inserted'[r], Deleted[r], start_time[u], transaction_id[u])}
          BY <1>9, <3>1
        <5>3. \A r : r \in Visible(u)' <=>
                 r \in 0 .. count - 1 /\ Seen(Inserted'[r], Deleted[r], start_time[u], transaction_id[u])
          BY <4>3, <5>2
        <5>4. \A r : r \in Visible(u)' <=> r \in Visible(u)
          BY <5>1, <5>2, <5>3
        <5> QED
          BY <5>4
      <4> QED
        BY <1>3, <4>4 DEF TableView
    <3>2. CASE u \notin Running
      BY <1>3, <3>2 DEF TableView
    <3> QED
      BY <3>1, <3>2
  <2>2. status'[u] = status[u] /\ append_info'[u] = append_info[u]
    BY <1>0, <1>2, <1>3 DEF Typed
  <2> QED
    BY <1>2, <1>3, <2>1, <2>2 DEF Unnoticed, TablePhase, TableDeleted, TableAppended, DeletedBy
<1>11. TableView(t)' = TableView(t) \cup R
  <2>1. ~(NOT_DELETED_ID < start_time[t]) /\ NOT_DELETED_ID # transaction_id[t]
    BY <1>0, <1>3, <1>7, SMTT(30) DEF Numeric
  <2>2. \A r \in R : Seen(Inserted'[r], Deleted[r], start_time[t], transaction_id[t])
    BY <1>5, <1>6, <2>1 DEF Seen
  <2>3. Visible(t)' = Visible(t) \cup R
    BY <1>3, <1>5, <1>9, <2>2
  <2> QED
    BY <1>3, <2>3 DEF TableView
<1>12. R \subseteq Rows \ TableView(t) /\ R \cap Committed = {}
  <2>1. Visible(t) \subseteq 0 .. count - 1 /\ Committed \subseteq 0 .. count - 1
    BY <1>0, <1>3, <1>9 DEF Sees
  <2> QED
    BY <1>3, <1>4, <2>1 DEF TableView
<1>13. TablePhase(t) = "active" /\ TablePhase(t)' = "active" /\ TableDeleted(t)' = TableDeleted(t)
  BY <1>0, <1>2, <1>3 DEF TablePhase, TableDeleted, DeletedBy, Typed
<1>14. TableAppended(t)' = TableAppended(t) \cup R
  <2>1. append_info[t] = <<>>
    BY <1>2 DEF ShapeInv, Appends, Appended, Flushed
  <2>2. append_info'[t] # <<>>
    BY <1>3 DEF ShapeInv, Appends, LastAppend
  <2>3. TableAppended(t)' = first .. last
    BY <1>3, <2>2 DEF TableAppended, FirstRow, LastRow
  <2> QED
    BY <2>1, <2>3 DEF TableAppended
<1>15. AppendsIn(t, R)
  BY <1>8, <1>11, <1>12, <1>13, <1>14 DEF AppendsIn
<1> QED
  BY <1>10, <1>15, AppendMaps

\* The rows of a flushed append are those of its transaction, which nobody has deleted.
LEMMA FlushedRows ==
    ASSUME ShapeInv, VersionInv, NEW t \in Txns, Flushed(t), NEW r \in 0 .. count - 1
    PROVE  /\ FirstRow(t) <= r => Inserted[r] = transaction_id[t] /\ Deleted[r] = NOT_DELETED_ID
           /\ FirstRow(t) <= r <=> r \in FirstRow(t) .. LastRow(t)
           /\ r \in DeletedBy(t) => ~(FirstRow(t) <= r)
<1>0. Numeric /\ Typed /\ Clocks /\ InsertIds /\ DeleteIds
  BY Numbers, Functions DEF VersionInv
<1>1. /\ t \in Running /\ append_info[t] # <<>> /\ LastRow(t) = count - 1
      /\ \A u \in Txns \ {t} : ~Flushed(u)
  BY FlushedAlone
<1>2. FirstRow(t) \in Nat /\ LastRow(t) \in Nat
  BY <1>1, AppendRows
<1>3. r \in Rows /\ UsedRow(r)
  BY <1>0 DEF Numeric, InsertIds
<1>4. ASSUME FirstRow(t) <= r PROVE Inserted[r] = transaction_id[t] /\ Deleted[r] = NOT_DELETED_ID
  <2>1. ~(r < FirstRow(t))
    BY <1>2, <1>4
  <2>2. Inserted[r] = transaction_id[t]
    BY <1>1, <1>3, <2>1 DEF UsedRow
  <2>3. Deleted[r] = NOT_DELETED_ID
    BY <1>2, <1>3, <1>4, DeletedBefore
  <2> QED
    BY <2>2, <2>3
<1>5. FirstRow(t) <= r <=> r \in FirstRow(t) .. LastRow(t)
  BY <1>0, <1>1, <1>2 DEF Numeric
<1>6. ASSUME r \in DeletedBy(t), FirstRow(t) <= r PROVE FALSE
  <2>1. Deleted[r] = transaction_id[t]
    BY <1>0, <1>1, <1>6 DEF DeleteIds
  <2>2. transaction_id[t] # NOT_DELETED_ID
    BY <1>0, <1>1, RunningIds DEF Numeric
  <2> QED
    BY <1>4, <1>6, <2>1, <2>2
<1> QED
  BY <1>4, <1>5, <1>6

\* A commit makes the deletes and the append of the transaction visible to those that start later.
LEMMA CommitTransactionMaps ==
    ASSUME ShapeInv, VersionInv, ShapeInv', VersionInv', NEW t \in Txns, CommitTransaction(t)
    PROVE  Table!Commit(t)
<1>0. Numeric /\ Typed /\ Clocks /\ InsertIds /\ DeleteIds /\ Sees /\ Sees'
  BY Numbers, Functions, SeesNow, SeesNext DEF VersionInv
<1> PICK c : c = current_start_timestamp
  OBVIOUS
<1>1. PICK low : Commits(t, c, low)
  BY CommitTransactionEffect
<1>2. /\ status[t] \in {"active", "flushed"} /\ status' = [status EXCEPT ![t] = "done"]
      /\ start_time' = start_time /\ transaction_id' = transaction_id /\ undo_buffer' = undo_buffer
      /\ append_info' = append_info /\ count' = count
  BY DEF CommitTransaction, RemoveTransaction
<1>3. /\ t \in Running /\ Running' = Running \ {t}
      /\ Deleted' = [r \in Rows |-> IF r \in DeletedBy(t) THEN c ELSE Deleted[r]]
      /\ Inserted' = [r \in Rows |-> IF Flushed(t) /\ (FirstRow(t) = 0 \/ r \in FirstRow(t) .. LastRow(t))
                                     THEN c ELSE Inserted[r]]
  BY <1>1 DEF Commits
<1>4. c \in Nat /\ c < TRANSACTION_ID_START /\ 0 .. count - 1 \subseteq Rows
  BY <1>0 DEF Numeric
<1>5. \A u \in Running : /\ transaction_id[u] \in Nat /\ start_time[u] \in Nat /\ u \in Txns
                        /\ TRANSACTION_ID_START <= transaction_id[u] /\ start_time[u] < c
                        /\ transaction_id[u] < NOT_DELETED_ID
  BY <1>0, RunningIds
<1>6. TableAppended(t) = {r \in 0 .. count - 1 : Flushed(t) /\ FirstRow(t) <= r}
  <2>1. CASE Flushed(t)
    <3>1. append_info[t] # <<>> /\ FirstRow(t) \in Rows /\ LastRow(t) = count - 1
      BY <2>1, FlushedAlone, AppendRows
    <3>2. TableAppended(t) = FirstRow(t) .. count - 1
      BY <1>3, <3>1 DEF TableAppended, FirstRow, LastRow
    <3> QED
      BY <1>0, <2>1, <3>1, <3>2 DEF Numeric
  <2>2. CASE ~Flushed(t)
    <3>1. append_info[t] = <<>>
      BY <1>2, <2>2 DEF ShapeInv, Appends, Appended, Flushed
    <3> QED
      BY <2>2, <3>1 DEF TableAppended
  <2> QED
    BY <2>1, <2>2
<1>7. ASSUME NEW r \in 0 .. count - 1, r \in TableAppended(t)
      PROVE  /\ Inserted'[r] = c /\ Inserted[r] = transaction_id[t]
             /\ Deleted'[r] = NOT_DELETED_ID /\ Deleted[r] = NOT_DELETED_ID
  <2>1. Flushed(t) /\ FirstRow(t) <= r /\ r \in Rows
    BY <1>4, <1>6, <1>7
  <2>2. /\ Inserted[r] = transaction_id[t] /\ Deleted[r] = NOT_DELETED_ID
        /\ r \in FirstRow(t) .. LastRow(t) /\ r \notin DeletedBy(t)
    BY <2>1, FlushedRows
  <2> QED
    BY <1>3, <2>1, <2>2
<1>8. ASSUME NEW r \in 0 .. count - 1, r \notin TableAppended(t)
      PROVE  Inserted'[r] = Inserted[r]
  <2>1. CASE Flushed(t)
    <3>1. ~(FirstRow(t) <= r) /\ r \in Rows
      BY <1>4, <1>6, <1>8, <2>1
    <3>2. r \notin FirstRow(t) .. LastRow(t)
      BY <2>1, <3>1, FlushedRows
    <3>3. FirstRow(t) # 0
      BY <1>0, <3>1 DEF Numeric
    <3> QED
      BY <1>3, <3>1, <3>2, <3>3
  <2>2. CASE ~Flushed(t)
    BY <1>3, <1>4, <2>2
  <2> QED
    BY <2>1, <2>2
<1>9. ASSUME NEW r \in 0 .. count - 1
      PROVE  /\ r \in DeletedBy(t) => Deleted'[r] = c
             /\ r \in DeletedBy(t) => Deleted[r] = transaction_id[t]
             /\ r \notin DeletedBy(t) => Deleted'[r] = Deleted[r]
  BY <1>0, <1>3, <1>4 DEF DeleteIds
<1>10. Committed' = (Committed \ TableDeleted(t)) \cup TableAppended(t)
  <2>1. TableDeleted(t) = DeletedBy(t) /\ TableAppended(t) \subseteq 0 .. count - 1
    BY <1>3, <1>6 DEF TableDeleted
  <2>2. ASSUME NEW r \in 0 .. count - 1
        PROVE  (Inserted'[r] < TRANSACTION_ID_START /\ ~(Deleted'[r] < TRANSACTION_ID_START))
                 <=> \/ /\ Inserted[r] < TRANSACTION_ID_START /\ ~(Deleted[r] < TRANSACTION_ID_START)
                        /\ r \notin DeletedBy(t)
                     \/ r \in TableAppended(t)
    <3>1. CASE r \in TableAppended(t)
      BY <1>0, <1>4, <1>7, <3>1 DEF Numeric
    <3>2. CASE r \notin TableAppended(t) /\ r \in DeletedBy(t)
      BY <1>4, <1>9, <3>2
    <3>3. CASE r \notin TableAppended(t) /\ r \notin DeletedBy(t)
      BY <1>8, <1>9, <3>3
    <3> QED
      BY <3>1, <3>2, <3>3
  <2> QED
    BY <1>0, <1>2, <2>1, <2>2 DEF Sees
<1>11. ASSUME NEW u \in Txns \ {t} PROVE Unnoticed(u)
  <2>1. status'[u] = status[u] /\ (u \in Running' <=> u \in Running)
    BY <1>0, <1>2, <1>3 DEF Typed
  <2>2. TableView(u)' = TableView(u)
    <3>1. CASE u \in Running
      <4>1. /\ ~(transaction_id[t] < start_time[u]) /\ ~(c < start_time[u]) /\ c # transaction_id[u]
        BY <1>0, <1>3, <1>4, <1>5, <3>1 DEF Numeric
      <4>2. transaction_id[t] # transaction_id[u]
        BY <1>0, <1>3, <3>1, OwnIds
      <4>3. ASSUME NEW r \in 0 .. count - 1
            PROVE  Seen(Inserted'[r], Deleted'[r], start_time[u], transaction_id[u])
                     <=> Seen(Inserted[r], Deleted[r], start_time[u], transaction_id[u])
        <5>1. (Inserted'[r] < start_time[u] \/ Inserted'[r] = transaction_id[u])
                <=> (Inserted[r] < start_time[u] \/ Inserted[r] = transaction_id[u])
          BY <1>7, <1>8, <4>1, <4>2
        <5>2. (Deleted'[r] < start_time[u] \/ Deleted'[r] = transaction_id[u])
                <=> (Deleted[r] < start_time[u] \/ Deleted[r] = transaction_id[u])
          BY <1>9, <4>1, <4>2
        <5> QED
          BY <5>1, <5>2 DEF Seen
      <4> QED
        BY <1>0, <1>2, <2>1, <3>1, <4>3, SameSight
    <3>2. CASE u \notin Running
      BY <2>1, <3>2 DEF TableView
    <3> QED
      BY <3>1, <3>2
  <2> QED
    BY <1>2, <2>1, <2>2 DEF Unnoticed, TablePhase, TableDeleted, TableAppended, DeletedBy
<1>12. EndsIn(t)
  <2>1. status'[t] = "done" /\ t \notin Running'
    BY <1>0, <1>2, <1>3 DEF Typed
  <2> QED
    BY <2>1 DEF EndsIn, TablePhase, TableView, TableDeleted, TableAppended
<1>13. TablePhase(t) = "active"
  BY <1>2 DEF TablePhase
<1> QED
  BY <1>10, <1>11, <1>12, <1>13, EndMaps

\* A rollback takes back the deletes and the append of the transaction, which nobody else has seen.
LEMMA RollbackMaps ==
    ASSUME ShapeInv, VersionInv, ShapeInv', VersionInv', NEW t \in Txns,
           RollbackTransaction(t) \/ CommitFails(t) \/ FlushFails(t)
    PROVE  Table!Rollback(t)
<1>0. Numeric /\ Typed /\ Clocks /\ InsertIds /\ DeleteIds /\ Sees /\ Sees'
  BY Numbers, Functions, SeesNow, SeesNext DEF VersionInv
<1>1. PICK d, low : RollsBack(t, d, low)
  BY RollbackStepEffect
<1>2. /\ status' = [status EXCEPT ![t] = "done"]
      /\ start_time' = start_time /\ transaction_id' = transaction_id
  BY DEF RollbackTransaction, CommitFails, FlushFails, RollbackEffect, RemoveTransaction
<1>3. /\ t \in Running /\ Running' = Running \ {t}
      /\ \A r \in DeletedBy(t) : Deleted'[r] = NOT_DELETED_ID
      /\ \A r \in Rows \ DeletedBy(t) : Deleted'[r] = Deleted[r]
      /\ ~Flushed(t) => count' = count
      /\ Flushed(t) => count' = FirstRow(t)
      /\ \A r \in 0 .. count' - 1 : Inserted'[r] = Inserted[r]
      /\ \A u \in Txns \ {t} : DeletedBy(u)' = DeletedBy(u)
      /\ \A u \in Txns \ {t} : append_info'[u] = append_info[u]
  BY <1>1 DEF RollsBack
<1>4. ASSUME NEW u \in Running
      PROVE  /\ transaction_id[u] \in Nat /\ start_time[u] \in Nat
             /\ TRANSACTION_ID_START <= transaction_id[u]
             /\ start_time[u] < TRANSACTION_ID_START
             /\ transaction_id[u] < NOT_DELETED_ID
  <2>1. /\ transaction_id[u] \in Nat /\ start_time[u] \in Nat
        /\ TRANSACTION_ID_START <= transaction_id[u]
        /\ start_time[u] < current_start_timestamp
        /\ transaction_id[u] < NOT_DELETED_ID
    BY <1>0, RunningIds
  <2> QED
    BY <1>0, <2>1 DEF Numeric
<1>5. 0 .. count - 1 \subseteq Rows
  BY <1>0 DEF Numeric
<1>6. 0 .. count' - 1 \subseteq 0 .. count - 1
  <2>1. CASE Flushed(t)
    <3>1. FirstRow(t) \in Nat /\ FirstRow(t) < count
      BY <1>0, <2>1, FlushedAlone, AppendRows DEF Numeric
    <3> QED
      BY <1>0, <1>3, <2>1, <3>1 DEF Numeric
  <2>2. CASE ~Flushed(t)
    BY <1>3, <2>2
  <2> QED
    BY <2>1, <2>2
<1>7. ASSUME NEW r \in 0 .. count - 1, r \notin 0 .. count' - 1
      PROVE  Inserted[r] = transaction_id[t]
  <2>1. Flushed(t) /\ count' = FirstRow(t)
    BY <1>3, <1>7
  <2>2. FirstRow(t) \in Nat
    BY <2>1, FlushedAlone, AppendRows
  <2>3. FirstRow(t) <= r
    BY <1>0, <1>7, <2>1, <2>2 DEF Numeric
  <2> QED
    BY <2>1, <2>3, FlushedRows
<1>8. ASSUME NEW r \in 0 .. count - 1
      PROVE  \/ Deleted'[r] = Deleted[r]
             \/ Deleted[r] = transaction_id[t] /\ Deleted'[r] = NOT_DELETED_ID
  BY <1>0, <1>3, <1>5 DEF DeleteIds
<1>9. Committed' = Committed
  <2>1. ~(transaction_id[t] < TRANSACTION_ID_START) /\ ~(NOT_DELETED_ID < TRANSACTION_ID_START)
    BY <1>0, <1>3, <1>4 DEF Numeric
  <2>2. ASSUME NEW r \in 0 .. count - 1
        PROVE  /\ r \notin 0 .. count' - 1 => ~(Inserted[r] < TRANSACTION_ID_START)
               /\ r \in 0 .. count' - 1 => Inserted'[r] = Inserted[r]
               /\ (Deleted'[r] < TRANSACTION_ID_START) <=> (Deleted[r] < TRANSACTION_ID_START)
    BY <1>3, <1>7, <1>8, <2>1
  <2> QED
    BY <1>0, <1>6, <2>2 DEF Sees
<1>10. ASSUME NEW u \in Txns \ {t} PROVE Unnoticed(u)
  <2>1. status'[u] = status[u] /\ (u \in Running' <=> u \in Running)
    BY <1>0, <1>2, <1>3 DEF Typed
  <2>2. TableView(u)' = TableView(u)
    <3>1. CASE u \in Running
      <4>1. /\ ~(transaction_id[t] < start_time[u]) /\ ~(NOT_DELETED_ID < start_time[u])
            /\ NOT_DELETED_ID # transaction_id[u]
        BY <1>0, <1>3, <1>4, <3>1 DEF Numeric
      <4>2. transaction_id[t] # transaction_id[u]
        BY <1>0, <1>3, <3>1, OwnIds
      <4>3. Visible(u) = {r \in 0 .. count - 1 :
                            Seen(Inserted[r], Deleted[r], start_time[u], transaction_id[u])}
        BY <1>0, <3>1 DEF Sees
      <4>4. Visible(u)' = {r \in 0 .. count' - 1 :
                            Seen(Inserted'[r], Deleted'[r], start_time[u], transaction_id[u])}
        BY <1>0, <1>2, <2>1, <3>1 DEF Sees
      <4>5. ASSUME NEW r \in 0 .. count - 1
            PROVE  /\ r \notin 0 .. count' - 1 =>
                        ~Seen(Inserted[r], Deleted[r], start_time[u], transaction_id[u])
                   /\ r \in 0 .. count' - 1 =>
                        (Seen(Inserted'[r], Deleted'[r], start_time[u], transaction_id[u])
                            <=> Seen(Inserted[r], Deleted[r], start_time[u], transaction_id[u]))
        <5>1. (Deleted'[r] < start_time[u] \/ Deleted'[r] = transaction_id[u])
                <=> (Deleted[r] < start_time[u] \/ Deleted[r] = transaction_id[u])
          BY <1>8, <4>1, <4>2
        <5>2. r \notin 0 .. count' - 1 =>
                    ~(Inserted[r] < start_time[u] \/ Inserted[r] = transaction_id[u])
          BY <1>7, <4>1, <4>2
        <5> QED
          BY <1>3, <5>1, <5>2 DEF Seen
      <4>6. Visible(u)' = Visible(u)
        BY <1>6, <4>3, <4>4, <4>5
      <4> QED
        BY <2>1, <3>1, <4>6 DEF TableView
    <3>2. CASE u \notin Running
      BY <2>1, <3>2 DEF TableView
    <3> QED
      BY <3>1, <3>2
  <2> QED
    BY <1>3, <2>1, <2>2 DEF Unnoticed, TablePhase, TableDeleted, TableAppended
<1>11. EndsIn(t)
  <2>1. status'[t] = "done" /\ t \notin Running'
    BY <1>0, <1>2, <1>3 DEF Typed
  <2> QED
    BY <2>1 DEF EndsIn, TablePhase, TableView, TableDeleted, TableAppended
<1>12. TablePhase(t) \in {"active", "doomed"}
  BY <1>3 DEF TablePhase, Running
<1> QED
  BY <1>9, <1>10, <1>11, <1>12, EndMaps

-----------------------------------------------------------------------------
(* Snapshot isolation *)

\* At the beginning there are some rows, and no transaction.
LEMMA InitTable == Init => Table!Init
<1> SUFFICES ASSUME Init PROVE Table!Init
  OBVIOUS
<1>1. ShapeInv /\ VersionInv
  BY InitShape, InitVersions
<1>2. Committed \in SUBSET Rows
  <2>1. 0 .. count - 1 \subseteq Rows
    BY <1>1, Numbers DEF Numeric
  <2> QED
    BY <1>1, <2>1, SeesNow DEF Sees
<1>3. /\ \A t \in Txns : status[t] = "idle" /\ t \notin Running
  BY DEF Init, Running
<1>4. /\ TablePhases = [t \in Txns |-> "idle"] /\ TableViews = [t \in Txns |-> {}]
      /\ TableDeletes = [t \in Txns |-> {}] /\ TableAppends = [t \in Txns |-> {}]
  BY <1>3 DEF TablePhases, TableViews, TableDeletes, TableAppends,
     TablePhase, TableView, TableDeleted, TableAppended
<1> QED
  BY <1>2, <1>4 DEF Table!Init, TablePhases, TableViews, TableDeletes, TableAppends,
     TablePhase, TableView, TableDeleted, TableAppended

\* A step of a transaction.
LEMMA StepOfTransaction ==
    ASSUME NEW t \in Txns,
           \/ Table!Start(t) \/ Table!Conflict(t) \/ Table!Commit(t) \/ Table!Rollback(t)
           \/ \E R : R \subseteq TableView(t) /\ Table!Delete(t, R)
           \/ \E R : R \subseteq Rows \ TableView(t) /\ Table!Append(t, R)
    PROVE  Table!Next
<1>1. TableViews[t] = TableView(t)
  BY DEF TableViews
<1>2. \/ Table!Start(t) \/ Table!Conflict(t) \/ Table!Commit(t) \/ Table!Rollback(t)
      \/ \E R \in SUBSET TableViews[t] : Table!Delete(t, R)
      \/ \E R \in SUBSET (Rows \ TableViews[t]) : Table!Append(t, R)
  BY <1>1
<1> QED
  BY <1>2 DEF Table!Next, TableViews, TableView

\* Every step is a step of the table, or one that it does not see.
LEMMA StepOfSnapshotTable ==
    ASSUME ShapeInv, VersionInv, ShapeInv', VersionInv', Regular, [Next]_vars
    PROVE  [Table!Next]_(Table!vars)
<1>1. ASSUME NEW t \in Txns, StartTransaction(t) PROVE Table!Next
  BY <1>1, StartTransactionMaps, StepOfTransaction
<1>2. ASSUME NEW t \in Txns, NEW rows \in DeleteInputs(t), DeleteStatement(t, rows) PROVE Table!Next
  BY <1>2, DeleteStatementMaps, StepOfTransaction
<1>3. ASSUME NEW t \in Txns, NEW n \in 1 .. VectorSize, NEW optimistic \in BOOLEAN,
             FlushAppend(t, n, optimistic)
      PROVE  Table!Next
  BY <1>3, FlushAppendMaps, StepOfTransaction
<1>4. ASSUME NEW t \in Txns, CommitTransaction(t) PROVE Table!Next
  BY <1>4, CommitTransactionMaps, StepOfTransaction
<1>5. ASSUME NEW t \in Txns, RollbackTransaction(t) \/ CommitFails(t) \/ FlushFails(t) PROVE Table!Next
  BY <1>5, RollbackMaps, StepOfTransaction
<1>6. ASSUME \/ \E t \in Txns : CleanupTransaction(t)
             \/ DecideCheckpoint
             \/ \E type \in {"full", "concurrent"} : CreateCheckpoint(type)
             \/ WALStartCheckpoint
             \/ StartBindTransaction
             \/ ReadLowestActiveStart
             \/ CompressVersionInfo
             \/ CheckpointDeletes
             \/ UnlockTable
             \/ CommitBindTransaction
             \/ FinishCheckpoint
             \/ Restart
      PROVE  UNCHANGED Table!vars
  BY <1>6, QuietMaps
<1>7. ASSUME UNCHANGED vars PROVE UNCHANGED Table!vars
  <2>1. /\ status' = status /\ start_time' = start_time /\ transaction_id' = transaction_id
        /\ undo_buffer' = undo_buffer /\ append_info' = append_info /\ count' = count
        /\ version_info' = version_info
    BY <1>7 DEF vars, transactions
  <2>2. Inserted' = Inserted /\ Deleted' = Deleted
    BY <2>1 DEF Inserted, Deleted
  <2> QED
    BY <2>1, <2>2, QuietSight
<1> QED
  BY <1>1, <1>2, <1>3, <1>4, <1>5, <1>6, <1>7 DEF Next

\* The row versions implement snapshot isolation: a transaction sees the rows that were committed
\* when it started, changed only by itself, whatever others delete, append, commit or roll back, and
\* whatever is compressed, cleaned up or written meanwhile; a row is deleted by one transaction at
\* most; a commit makes the work of its transaction visible at once and a rollback none of it.
THEOREM RowVersionsAreSnapshots == Spec /\ Regular => ImplementsSnapshotTable
<1>1. Init => Table!Init
  BY InitTable
<1>2. /\ ShapeInv /\ VersionInv /\ Regular /\ (ShapeInv /\ VersionInv)' /\ [Next]_vars
      => [Table!Next]_(Table!vars)
  BY StepOfSnapshotTable
<1> QED
  BY <1>1, <1>2, VersionInvariant, PTL DEF Spec, ImplementsSnapshotTable, Table!Spec
=============================================================================
