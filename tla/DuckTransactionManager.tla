----------------------- MODULE DuckTransactionManager -----------------------
(***************************************************************************)
(* The transaction manager of one persistent database                      *)
(* (src/transaction/duck_transaction_manager.cpp) with the checkpoints it  *)
(* starts (StorageManager::CreateCheckpoint,                               *)
(* SingleFileCheckpointWriter::CreateCheckpoint, WALStartCheckpoint,       *)
(* WALFinishCheckpoint).                                                   *)
(*                                                                         *)
(* Each transaction is run by a thread of its own and commits or rolls     *)
(* back once.  A checkpointer is a thread that runs one CHECKPOINT or      *)
(* FORCE CHECKPOINT statement; the read-only transaction it opens to bind  *)
(* indexes is kept under the checkpointer's own name.  The actions are the *)
(* stretches of code between two accesses to state that other threads can  *)
(* change meanwhile: a critical section of transaction_lock is one action  *)
(* unless atomics read by other threads change inside it.                  *)
(*                                                                         *)
(* What a transaction did to the data is reduced to the properties the     *)
(* manager looks at (UndoBufferProperties and the locks of                 *)
(* DuckTransaction::SetModifications).                                     *)
(***************************************************************************)
EXTENDS Integers, Sequences, FiniteSetsExt

CONSTANTS Txns, Checkpointers,
          NoThread,
          Mods,                  \* the modifications transactions make
          MaxMods,               \* how many different ones a transaction makes at most
          AutoCheckpoint,        \* may a commit find the WAL large enough to checkpoint?
          TRANSACTION_ID_START,  \* above every timestamp
          MAX_TRANSACTION_ID,
          InitialLastCommit      \* last_commit is not initialised before the first commit

AllMods == {"insert", "delete", "index_delete", "update", "create", "drop"}

ASSUME ThreadsAssumption ==
    /\ NoThread \notin Txns \cup Checkpointers
    /\ Txns \cap Checkpointers = {}
    /\ IsFiniteSet(Txns \cup Checkpointers)
ASSUME ModsAssumption == Mods \subseteq AllMods /\ MaxMods \in Nat
ASSUME AutoCheckpointAssumption == AutoCheckpoint \in BOOLEAN
ASSUME TimestampAssumption ==
    /\ TRANSACTION_ID_START \in Nat
    /\ MAX_TRANSACTION_ID \in Nat
    /\ 2 < TRANSACTION_ID_START
    /\ TRANSACTION_ID_START < MAX_TRANSACTION_ID
    /\ InitialLastCommit \in Nat

Threads == Txns \cup Checkpointers

VARIABLES
    \* the mutexes: their owner, or NoThread
    transaction_lock, start_transaction_lock, wal_lock, cleanup_lock,
    \* the two StorageLocks (see ReadWriteLock)
    checkpoint_readers, checkpoint_writer, vacuum_readers, vacuum_writer,
    \* the manager's counters
    current_start_timestamp, last_commit, lowest_active_start, active_checkpoint,
    \* the manager's collections
    active_transactions, recently_committed, cleanup_queue,
    \* the transactions
    start_time, commit_id, read_only, mods,
    \* local variables of the threads
    pc,
    decision,     \* CheckpointDecision: "no", or the type of the checkpoint
    skip_wal,     \* skip_wal_write_due_to_checkpoint
    error,        \* did writing to the WAL fail?
    loaded,       \* the value of an atomic the thread has read
    cleaning,     \* top_cleanup_info
    \* what would survive a crash
    wal,          \* the transactions in the WAL, in the order they were written
    wal_start,    \* how many of them were there when the checkpoint started
    file          \* the transactions whose changes are in the database file

locks == <<transaction_lock, start_transaction_lock, wal_lock, cleanup_lock>>
storage_locks == <<checkpoint_readers, checkpoint_writer, vacuum_readers, vacuum_writer>>
counters == <<current_start_timestamp, last_commit, lowest_active_start, active_checkpoint>>
collections == <<active_transactions, recently_committed, cleanup_queue>>
transactions == <<start_time, commit_id, read_only, mods>>
locals == <<pc, decision, skip_wal, error, loaded, cleaning>>
durable == <<wal, wal_start, file>>

vars == <<locks, storage_locks, counters, collections, transactions, locals, durable>>

CheckpointLock == INSTANCE ReadWriteLock
                    WITH Holders <- Threads, NoHolder <- NoThread,
                         readers <- checkpoint_readers, writer <- checkpoint_writer
VacuumLock == INSTANCE ReadWriteLock
                    WITH Holders <- Threads, NoHolder <- NoThread,
                         readers <- vacuum_readers, writer <- vacuum_writer

Labels == {"none", "active", "wal", "written", "backpedal", "backpedalled", "commit",
           "remove", "unlock_wal", "cleanup", "clean", "done",
           "force_spin", "last_commit", "checkpoint_type", "create_checkpoint",
           "wal_start", "set_checkpoint_id", "bind", "write_tables", "wal_finish", "clear",
           "return"}

\* DuckCleanupInfo
CleanupInfos == [lowest_start_time : Nat, transactions : SUBSET Threads]

LocksTyped ==
    /\ transaction_lock \in Threads \cup {NoThread}
    /\ start_transaction_lock \in Checkpointers \cup {NoThread}
    /\ wal_lock \in Threads \cup {NoThread}
    /\ cleanup_lock \in Threads \cup {NoThread}

StorageLocksTyped ==
    /\ checkpoint_readers \subseteq Txns
    /\ checkpoint_writer \in Threads \cup {NoThread}
    /\ vacuum_readers \subseteq Txns
    /\ vacuum_writer \in Threads \cup {NoThread}

CountersTyped ==
    /\ current_start_timestamp \in Nat
    /\ last_commit \in Nat
    /\ lowest_active_start \in Nat
    /\ active_checkpoint \in Nat

CollectionsTyped ==
    /\ active_transactions \subseteq Threads
    /\ recently_committed \in Seq(Threads)
    /\ cleanup_queue \in Seq(CleanupInfos)

TransactionsTyped ==
    /\ start_time \in [Threads -> Nat]
    /\ commit_id \in [Threads -> Nat]
    /\ read_only \in [Threads -> BOOLEAN]
    /\ mods \in [Threads -> SUBSET Mods]

LocalsTyped ==
    /\ pc \in [Threads -> Labels]
    /\ decision \in [Threads -> {"no", "full", "concurrent"}]
    /\ skip_wal \in [Threads -> BOOLEAN]
    /\ error \in [Threads -> BOOLEAN]
    /\ loaded \in [Threads -> Nat]
    /\ cleaning \in [Threads -> SUBSET Threads]

DurableTyped ==
    /\ wal \in Seq(Threads)
    /\ wal_start \in Nat
    /\ file \subseteq Threads

\* Every variable has its type.
TypeOK == /\ LocksTyped
          /\ StorageLocksTyped
          /\ CountersTyped
          /\ CollectionsTyped
          /\ TransactionsTyped
          /\ LocalsTyped
          /\ DurableTyped

Init ==
    /\ transaction_lock = NoThread
    /\ start_transaction_lock = NoThread
    /\ wal_lock = NoThread
    /\ cleanup_lock = NoThread
    /\ CheckpointLock!Init
    /\ VacuumLock!Init
    /\ current_start_timestamp = 2
    /\ last_commit = InitialLastCommit
    /\ lowest_active_start = MAX_TRANSACTION_ID
    /\ active_checkpoint = MAX_TRANSACTION_ID
    /\ active_transactions = {}
    /\ recently_committed = <<>>
    /\ cleanup_queue = <<>>
    /\ start_time = [t \in Threads |-> 0]
    /\ commit_id = [t \in Threads |-> 0]
    /\ read_only = [t \in Threads |-> FALSE]
    /\ mods = [t \in Threads |-> {}]
    /\ pc = [t \in Threads |-> "none"]
    /\ decision = [t \in Threads |-> "no"]
    /\ skip_wal = [t \in Threads |-> FALSE]
    /\ error = [t \in Threads |-> FALSE]
    /\ loaded = [t \in Threads |-> 0]
    /\ cleaning = [t \in Threads |-> {}]
    /\ wal = <<>>
    /\ wal_start = 0
    /\ file = {}

Goto(t, label) == pc' = [pc EXCEPT ![t] = label]

-----------------------------------------------------------------------------
(***************************************************************************)
(* Starting and modifying.                                                 *)
(***************************************************************************)

\* Mutant: every start moves lowest_active_start.
StartTransaction_AlwaysLowest(t, is_read_only, next) ==
    /\ is_read_only \/ start_transaction_lock = NoThread
    /\ transaction_lock = NoThread
    /\ current_start_timestamp < TRANSACTION_ID_START
    /\ start_time' = [start_time EXCEPT ![t] = current_start_timestamp]
    /\ read_only' = [read_only EXCEPT ![t] = is_read_only]
    /\ current_start_timestamp' = current_start_timestamp + 1
    /\ lowest_active_start' = current_start_timestamp
    /\ active_transactions' = active_transactions \cup {t}
    /\ Goto(t, next)
    /\ UNCHANGED <<locks, storage_locks, last_commit, active_checkpoint,
                   recently_committed, cleanup_queue, commit_id, mods,
                   decision, skip_wal, error, loaded, cleaning, durable>>

\* StartTransaction.  Only a read-only transaction does without the
\* start_transaction_lock that FORCE CHECKPOINT holds while it waits.
StartTransaction(t, is_read_only, next) ==
    /\ is_read_only \/ start_transaction_lock = NoThread
    /\ transaction_lock = NoThread
    /\ current_start_timestamp < TRANSACTION_ID_START
    /\ start_time' = [start_time EXCEPT ![t] = current_start_timestamp]
    /\ read_only' = [read_only EXCEPT ![t] = is_read_only]
    /\ current_start_timestamp' = current_start_timestamp + 1
    /\ lowest_active_start' = IF active_transactions = {} THEN current_start_timestamp
                              ELSE lowest_active_start
    /\ active_transactions' = active_transactions \cup {t}
    /\ Goto(t, next)
    /\ UNCHANGED <<locks, storage_locks, last_commit, active_checkpoint,
                   recently_committed, cleanup_queue, commit_id, mods,
                   decision, skip_wal, error, loaded, cleaning, durable>>

Begin(t) == /\ pc[t] = "none"
            /\ \E is_read_only \in BOOLEAN : StartTransaction(t, is_read_only, "active")

\* SetModifications: which shared lock a modification needs.
RequiresCheckpointLock(m) == m \in {"update", "create", "drop"}
RequiresVacuumLock(m) == m \in {"insert", "delete", "index_delete"}

\* Before it runs a statement that makes modifications of kind m, the transaction
\* takes the lock they need.
SetModifications(t, m) ==
    /\ pc[t] = "active"
    /\ ~read_only[t]
    /\ \/ /\ RequiresCheckpointLock(m)
          /\ t \notin checkpoint_readers
          /\ CheckpointLock!AcquireShared(t)
          /\ UNCHANGED <<vacuum_readers, vacuum_writer>>
       \/ /\ RequiresVacuumLock(m)
          /\ t \notin vacuum_readers
          /\ VacuumLock!AcquireShared(t)
          /\ UNCHANGED <<checkpoint_readers, checkpoint_writer>>
    /\ UNCHANGED <<locks, counters, collections, transactions, locals, durable>>

\* The statement may then change data or catalog.
Modify(t, m) ==
    /\ pc[t] = "active"
    /\ ~read_only[t]
    /\ RequiresCheckpointLock(m) => t \in checkpoint_readers
    /\ RequiresVacuumLock(m) => t \in vacuum_readers
    /\ m \notin mods[t]
    /\ Cardinality(mods[t]) < MaxMods
    /\ mods' = [mods EXCEPT ![t] = @ \cup {m}]
    /\ UNCHANGED <<locks, storage_locks, counters, collections, start_time, commit_id, read_only,
                   locals, durable>>

ChangesMade(t) == mods[t] # {}

-----------------------------------------------------------------------------
(***************************************************************************)
(* CommitTransaction.                                                      *)
(***************************************************************************)

\* CanCheckpoint and the choice of skip_wal_write_due_to_checkpoint, at the
\* start of the commit.  A transaction with changes then gives up the
\* transaction_lock to wait for the WAL lock; one without keeps it.
CommitTransaction(t) ==
    /\ pc[t] = "active"
    /\ transaction_lock = NoThread
    /\ \/ /\ ~ChangesMade(t)
          /\ transaction_lock' = t
          /\ Goto(t, "commit")
          /\ UNCHANGED <<storage_locks, decision, skip_wal>>
       \/ /\ ChangesMade(t)
          /\ Goto(t, "wal")
          /\ UNCHANGED <<transaction_lock, storage_locks, decision, skip_wal>>
       \/ /\ ChangesMade(t)
          /\ AutoCheckpoint
          /\ IF t \in checkpoint_readers THEN CheckpointLock!Upgrade(t)
                                          ELSE CheckpointLock!AcquireExclusive(t)
          /\ decision' = [decision EXCEPT ![t] = "full"]
          /\ \E skip \in BOOLEAN : skip_wal' = [skip_wal EXCEPT ![t] = skip]
          /\ Goto(t, "wal")
          /\ UNCHANGED <<transaction_lock, vacuum_readers, vacuum_writer>>
    /\ UNCHANGED <<start_transaction_lock, wal_lock, cleanup_lock, counters, collections,
                   transactions, error, loaded, cleaning, durable>>

\* DuckTransaction::WriteToWAL: an error takes back what was written.
WriteToWAL(t) ==
    /\ \/ /\ wal' = Append(wal, t)
          /\ UNCHANGED error
       \/ /\ error' = [error EXCEPT ![t] = TRUE]
          /\ UNCHANGED wal
    /\ UNCHANGED <<wal_start, file>>

\* Mutant: the WAL lock is held only while the WAL is written.
CommitWAL_LockScoped(t) ==
    /\ pc[t] = "wal"
    /\ wal_lock = NoThread
    /\ wal_lock' = IF skip_wal[t] THEN t ELSE NoThread
    /\ IF skip_wal[t] THEN UNCHANGED <<durable, error>> ELSE WriteToWAL(t)
    /\ Goto(t, "written")
    /\ UNCHANGED <<transaction_lock, start_transaction_lock, cleanup_lock, storage_locks,
                   counters, collections, transactions, decision, skip_wal, loaded, cleaning>>

\* The thread takes the WAL lock and writes, unless a checkpoint is to replace it.
CommitWAL(t) ==
    /\ pc[t] = "wal"
    /\ wal_lock = NoThread
    /\ wal_lock' = t
    /\ IF skip_wal[t] THEN UNCHANGED <<durable, error>> ELSE WriteToWAL(t)
    /\ Goto(t, "written")
    /\ UNCHANGED <<transaction_lock, start_transaction_lock, cleanup_lock, storage_locks,
                   counters, collections, transactions, decision, skip_wal, loaded, cleaning>>

HasOtherTransactions(t) == active_transactions \ {t} # {}

\* Mutant: what the transaction itself changed does not matter.
CheckpointType_AnyChange(t) == IF HasOtherTransactions(t) THEN "concurrent" ELSE "full"

\* GetCheckpointType
CheckpointType(t) ==
    IF ~HasOtherTransactions(t) THEN "full"
    ELSE IF mods[t] \cap {"update", "drop"} # {} THEN "no"
    ELSE "concurrent"

\* With the transaction_lock again, the type of the checkpoint is decided.  If
\* there will be none after all, a skipped WAL write must be made up for.
CommitDecide(t) ==
    /\ pc[t] = "written"
    /\ transaction_lock = NoThread
    /\ IF error[t] \/ decision[t] = "no"
       THEN /\ transaction_lock' = t
            /\ Goto(t, "commit")
            /\ UNCHANGED <<decision, skip_wal>>
       ELSE /\ decision' = [decision EXCEPT ![t] = CheckpointType(t)]
            /\ IF skip_wal[t] /\ CheckpointType(t) = "no"
               THEN /\ skip_wal' = [skip_wal EXCEPT ![t] = FALSE]
                    /\ Goto(t, "backpedal")
                    /\ UNCHANGED transaction_lock
               ELSE /\ transaction_lock' = t
                    /\ Goto(t, "commit")
                    /\ UNCHANGED skip_wal
    /\ UNCHANGED <<start_transaction_lock, wal_lock, cleanup_lock, storage_locks, counters,
                   collections, transactions, error, loaded, cleaning, durable>>

CommitBackpedal(t) ==
    /\ pc[t] = "backpedal"
    /\ WriteToWAL(t)
    /\ Goto(t, "backpedalled")
    /\ UNCHANGED <<locks, storage_locks, counters, collections, transactions,
                   decision, skip_wal, loaded, cleaning>>

CommitBackpedalled(t) ==
    /\ pc[t] = "backpedalled"
    /\ transaction_lock = NoThread
    /\ transaction_lock' = t
    /\ Goto(t, "commit")
    /\ UNCHANGED <<start_transaction_lock, wal_lock, cleanup_lock, storage_locks, counters,
                   collections, transactions, decision, skip_wal, error, loaded, cleaning, durable>>

\* The exclusive checkpoint lock is given back when there is to be no checkpoint.
DropCheckpointLock(t) ==
    IF checkpoint_writer = t THEN CheckpointLock!ReleaseExclusive(t)
    ELSE UNCHANGED <<checkpoint_readers, checkpoint_writer>>

\* A commit timestamp is taken and the changes are stamped with it
\* (DuckTransaction::Commit).
CommitSucceeds(t) ==
    /\ pc[t] = "commit"
    /\ ~error[t]
    /\ commit_id' = [commit_id EXCEPT ![t] = current_start_timestamp]
    /\ last_commit' = current_start_timestamp
    /\ current_start_timestamp' = current_start_timestamp + 1
    /\ IF decision[t] = "no" THEN DropCheckpointLock(t)
       ELSE UNCHANGED <<checkpoint_readers, checkpoint_writer>>
    /\ Goto(t, "remove")
    /\ UNCHANGED <<locks, vacuum_readers, vacuum_writer, lowest_active_start, active_checkpoint,
                   collections, start_time, read_only, mods, decision, skip_wal, error, loaded,
                   cleaning, durable>>

\* SingleFileStorageCommitState::RevertCommit: what t wrote is the end of the WAL.
WALWithout(t) == IF wal # <<>> /\ wal[Len(wal)] = t THEN SubSeq(wal, 1, Len(wal) - 1)
                 ELSE wal

\* The WAL write failed, or the commit fails now: the WAL is truncated to where
\* it was, and the transaction is rolled back.
CommitFails(t) ==
    /\ pc[t] = "commit"
    /\ ChangesMade(t)
    /\ error' = [error EXCEPT ![t] = TRUE]
    /\ current_start_timestamp' = current_start_timestamp + 1
    /\ decision' = [decision EXCEPT ![t] = "no"]
    /\ skip_wal' = [skip_wal EXCEPT ![t] = FALSE]
    /\ DropCheckpointLock(t)
    /\ wal' = WALWithout(t)
    /\ Goto(t, "remove")
    /\ UNCHANGED <<locks, vacuum_readers, vacuum_writer, last_commit, lowest_active_start,
                   active_checkpoint, collections, transactions, loaded, cleaning,
                   wal_start, file>>

-----------------------------------------------------------------------------
(***************************************************************************)
(* RemoveTransaction, RollbackTransaction and CleanupTransactions.         *)
(***************************************************************************)

\* Mutant: the checkpoint under way is ignored.
LowestStartTime_NoCheckpoint(t) ==
    Min({TRANSACTION_ID_START} \cup {start_time[a] : a \in active_transactions \ {t}})

\* The lowest start time among the other active transactions, or the id of the
\* checkpoint under way if that is lower.
LowestStartTime(t) ==
    Min({TRANSACTION_ID_START}
        \cup {start_time[a] : a \in active_transactions \ {t}}
        \cup (IF active_checkpoint = MAX_TRANSACTION_ID THEN {} ELSE {active_checkpoint}))

\* How many transactions at the front of rc committed before lowest.
ReleasedCount(rc, lowest) ==
    Max({n \in 0 .. Len(rc) : \A i \in 1 .. n : commit_id[rc[i]] < lowest})

\* Mutant: the newest transaction is put in front.
PushRecentlyCommitted_Front(t) == <<t>> \o recently_committed

PushRecentlyCommitted(t) == Append(recently_committed, t)

\* The transaction leaves active_transactions.  If others may need its undo
\* information it becomes recently committed; otherwise, if it changed
\* anything, it is scheduled for cleanup with all recently committed
\* transactions that nobody can look behind any more.  A transaction without changes
\* is destroyed at once, and gives back the shared locks it may own.
RemoveTransaction(t, store_transaction) ==
    LET lowest == LowestStartTime(t)
        keep == store_transaction /\ commit_id[t] # 0
        rc == IF keep THEN PushRecentlyCommitted(t) ELSE recently_committed
        n == ReleasedCount(rc, lowest)
        scheduled == {rc[i] : i \in 1 .. n} \cup (IF ChangesMade(t) /\ ~keep THEN {t} ELSE {})
    IN  /\ active_transactions' = active_transactions \ {t}
        /\ lowest_active_start' = lowest
        /\ recently_committed' = SubSeq(rc, n + 1, Len(rc))
        /\ cleanup_queue' =
             IF scheduled = {} THEN cleanup_queue
             ELSE Append(cleanup_queue, [lowest_start_time |-> lowest, transactions |-> scheduled])
        /\ checkpoint_readers' = checkpoint_readers \ (IF ChangesMade(t) THEN {} ELSE {t})
        /\ vacuum_readers' = vacuum_readers \ (IF ChangesMade(t) THEN {} ELSE {t})
        /\ UNCHANGED <<checkpoint_writer, vacuum_writer>>

\* Modifications whose undo information older transactions may have to read.
Stored == {"update", "index_delete", "create", "drop"}

CommitRemove(t) ==
    /\ pc[t] = "remove"
    /\ RemoveTransaction(t, mods[t] \cap Stored # {} \/ error[t])
    /\ transaction_lock' = NoThread
    /\ Goto(t, "unlock_wal")
    /\ UNCHANGED <<start_transaction_lock, wal_lock, cleanup_lock,
                   current_start_timestamp, last_commit, active_checkpoint, transactions,
                   decision, skip_wal, error, loaded, cleaning, durable>>

\* Mutant: the WAL lock is always given back.
CommitUnlockWAL_Always(t) ==
    /\ pc[t] = "unlock_wal"
    /\ wal_lock' = IF wal_lock = t THEN NoThread ELSE wal_lock
    /\ Goto(t, "cleanup")
    /\ UNCHANGED <<transaction_lock, start_transaction_lock, cleanup_lock, storage_locks, counters,
                   collections, transactions, decision, skip_wal, error, loaded, cleaning, durable>>

\* The WAL lock is kept for a checkpoint that replaces the WAL write.
CommitUnlockWAL(t) ==
    /\ pc[t] = "unlock_wal"
    /\ wal_lock' = IF wal_lock = t /\ ~skip_wal[t] THEN NoThread ELSE wal_lock
    /\ Goto(t, "cleanup")
    /\ UNCHANGED <<transaction_lock, start_transaction_lock, cleanup_lock, storage_locks, counters,
                   collections, transactions, decision, skip_wal, error, loaded, cleaning, durable>>

RollbackTransaction(t) ==
    /\ pc[t] = "active"
    /\ t \in Txns
    /\ transaction_lock = NoThread
    /\ RemoveTransaction(t, ChangesMade(t))
    /\ Goto(t, "cleanup")
    /\ UNCHANGED <<locks, current_start_timestamp, last_commit, active_checkpoint,
                   transactions, decision, skip_wal, error, loaded, cleaning, durable>>

\* Mutant: the queue is safe, but several threads may clean up at once.
CleanupPop_NoCleanupLock(t) ==
    /\ pc[t] = "cleanup"
    /\ cleanup_queue # <<>>
    /\ cleaning' = [cleaning EXCEPT ![t] = Head(cleanup_queue).transactions]
    /\ cleanup_queue' = Tail(cleanup_queue)
    /\ Goto(t, "clean")
    /\ UNCHANGED <<locks, storage_locks, counters, active_transactions, recently_committed,
                   transactions, decision, skip_wal, error, loaded, durable>>

\* CleanupTransactions: one thread at a time empties the queue from the front.
CleanupPop(t) ==
    /\ pc[t] = "cleanup"
    /\ cleanup_lock \in {NoThread, t}
    /\ cleanup_queue # <<>>
    /\ cleanup_lock' = t
    /\ cleaning' = [cleaning EXCEPT ![t] = Head(cleanup_queue).transactions]
    /\ cleanup_queue' = Tail(cleanup_queue)
    /\ Goto(t, "clean")
    /\ UNCHANGED <<transaction_lock, start_transaction_lock, wal_lock, storage_locks, counters,
                   active_transactions, recently_committed, transactions, decision, skip_wal,
                   error, loaded, durable>>

\* DuckCleanupInfo::Cleanup; the transactions are then destroyed, and with them
\* the shared locks they own.
CleanupRun(t) ==
    /\ pc[t] = "clean"
    /\ checkpoint_readers' = checkpoint_readers \ cleaning[t]
    /\ vacuum_readers' = vacuum_readers \ cleaning[t]
    /\ cleaning' = [cleaning EXCEPT ![t] = {}]
    /\ Goto(t, "cleanup")
    /\ UNCHANGED <<locks, checkpoint_writer, vacuum_writer, counters, collections, transactions,
                   decision, skip_wal, error, loaded, durable>>

\* The queue is empty.  A committer that decided to checkpoint goes on to do so;
\* a checkpointer has just ended its bind transaction.
CleanupDone(t) ==
    /\ pc[t] = "cleanup"
    /\ cleanup_lock \in {NoThread, t}
    /\ cleanup_queue = <<>>
    /\ cleanup_lock' = NoThread
    /\ Goto(t, IF t \in Checkpointers THEN "clear"
               ELSE IF decision[t] # "no" THEN "create_checkpoint" ELSE "done")
    /\ UNCHANGED <<transaction_lock, start_transaction_lock, wal_lock, storage_locks, counters,
                   collections, transactions, decision, skip_wal, error, loaded, cleaning, durable>>

-----------------------------------------------------------------------------
(***************************************************************************)
(* Checkpoint: the CHECKPOINT and FORCE CHECKPOINT statements.             *)
(***************************************************************************)
Checkpoint(k) ==
    /\ pc[k] = "none"
    /\ \/ /\ CheckpointLock!AcquireExclusive(k)
          /\ Goto(k, "last_commit")
       \/ /\ checkpoint_readers # {} \/ checkpoint_writer # NoThread
          /\ Goto(k, "done")
          /\ UNCHANGED <<checkpoint_readers, checkpoint_writer>>
    /\ UNCHANGED <<locks, vacuum_readers, vacuum_writer, counters, collections, transactions,
                   decision, skip_wal, error, loaded, cleaning, durable>>

ForceCheckpoint(k) ==
    /\ pc[k] = "none"
    /\ start_transaction_lock = NoThread
    /\ start_transaction_lock' = k
    /\ Goto(k, "force_spin")
    /\ UNCHANGED <<transaction_lock, wal_lock, cleanup_lock, storage_locks, counters, collections,
                   transactions, decision, skip_wal, error, loaded, cleaning, durable>>

\* A round of the loop that obtains the lock; the other rounds change nothing.
ForceObtainsLock(k) ==
    /\ pc[k] = "force_spin"
    /\ CheckpointLock!AcquireExclusive(k)
    /\ start_transaction_lock' = NoThread
    /\ Goto(k, "last_commit")
    /\ UNCHANGED <<transaction_lock, wal_lock, cleanup_lock, vacuum_readers, vacuum_writer, counters,
                   collections, transactions, decision, skip_wal, error, loaded, cleaning, durable>>

ForceInterrupted(k) ==
    /\ pc[k] = "force_spin"
    /\ start_transaction_lock' = NoThread
    /\ Goto(k, "done")
    /\ UNCHANGED <<transaction_lock, wal_lock, cleanup_lock, storage_locks, counters, collections,
                   transactions, decision, skip_wal, error, loaded, cleaning, durable>>

\* GetLastCommit() > LowestActiveStart(): two atomics, read one after the other.
CheckpointLastCommit(k) ==
    /\ pc[k] = "last_commit"
    /\ loaded' = [loaded EXCEPT ![k] = last_commit]
    /\ Goto(k, "checkpoint_type")
    /\ UNCHANGED <<locks, storage_locks, counters, collections, transactions, decision, skip_wal,
                   error, cleaning, durable>>

CheckpointLowestActiveStart(k) ==
    /\ pc[k] = "checkpoint_type"
    /\ decision' = [decision EXCEPT ![k] = IF loaded[k] > lowest_active_start THEN "concurrent"
                                           ELSE "full"]
    /\ loaded' = [loaded EXCEPT ![k] = 0]
    /\ Goto(k, "create_checkpoint")
    /\ UNCHANGED <<locks, storage_locks, counters, collections, transactions, skip_wal,
                   error, cleaning, durable>>

-----------------------------------------------------------------------------
(***************************************************************************)
(* CreateCheckpoint, for a committer or a checkpointer that owns the       *)
(* exclusive checkpoint lock.                                              *)
(***************************************************************************)

\* A full checkpoint vacuums and needs the vacuum lock; without it, it becomes a
\* concurrent one.  A CHECKPOINT statement does nothing if the WAL is empty.
CreateCheckpoint(c) ==
    /\ pc[c] = "create_checkpoint"
    /\ \/ /\ decision[c] = "full"
          /\ VacuumLock!AcquireExclusive(c)
          /\ UNCHANGED decision
       \/ /\ decision[c] = "full"
          /\ vacuum_readers # {} \/ vacuum_writer # NoThread
          /\ decision' = [decision EXCEPT ![c] = "concurrent"]
          /\ UNCHANGED <<vacuum_readers, vacuum_writer>>
       \/ /\ decision[c] = "concurrent"
          /\ UNCHANGED <<decision, vacuum_readers, vacuum_writer>>
    /\ Goto(c, IF c \in Checkpointers /\ wal = <<>> THEN "return" ELSE "wal_start")
    /\ UNCHANGED <<locks, checkpoint_readers, checkpoint_writer, counters, collections, transactions,
                   skip_wal, error, loaded, cleaning, durable>>

\* Mutant: the checkpoint id is taken to be exclusive.
WALStartCheckpoint_Exclusive(c) ==
    /\ pc[c] = "wal_start"
    /\ wal_lock \in {NoThread, c}
    /\ wal_lock' = c
    /\ loaded' = [loaded EXCEPT ![c] = last_commit - 1]
    /\ Goto(c, "set_checkpoint_id")
    /\ UNCHANGED <<transaction_lock, start_transaction_lock, cleanup_lock, storage_locks, counters,
                   collections, transactions, decision, skip_wal, error, cleaning, durable>>

\* Mutant: the WAL lock that the caller passes in is taken a second time.
WALStartCheckpoint_Relocks(c) ==
    /\ pc[c] = "wal_start"
    /\ wal_lock = NoThread
    /\ wal_lock' = c
    /\ loaded' = [loaded EXCEPT ![c] = last_commit]
    /\ Goto(c, "set_checkpoint_id")
    /\ UNCHANGED <<transaction_lock, start_transaction_lock, cleanup_lock, storage_locks, counters,
                   collections, transactions, decision, skip_wal, error, cleaning, durable>>

\* WALStartCheckpoint, first half: under the WAL lock, GetNewCheckpointId reads
\* last_commit ...
WALStartCheckpoint(c) ==
    /\ pc[c] = "wal_start"
    /\ wal_lock \in {NoThread, c}
    /\ wal_lock' = c
    /\ loaded' = [loaded EXCEPT ![c] = last_commit]
    /\ Goto(c, "set_checkpoint_id")
    /\ UNCHANGED <<transaction_lock, start_transaction_lock, cleanup_lock, storage_locks, counters,
                   collections, transactions, decision, skip_wal, error, cleaning, durable>>

\* ... and publishes it; later commits are written to the checkpoint WAL.
SetCheckpointId(c) ==
    /\ pc[c] = "set_checkpoint_id"
    /\ active_checkpoint' = loaded[c]
    /\ wal_start' = Len(wal)
    /\ wal_lock' = IF skip_wal[c] THEN c ELSE NoThread
    /\ Goto(c, IF c \in Checkpointers THEN "bind" ELSE "write_tables")
    /\ UNCHANGED <<transaction_lock, start_transaction_lock, cleanup_lock, storage_locks,
                   current_start_timestamp, last_commit, lowest_active_start, collections,
                   transactions, decision, skip_wal, error, loaded, cleaning, wal, file>>

\* Mutant: the transaction is not read-only.
CheckpointBind_ReadWrite(c) ==
    /\ pc[c] = "bind"
    /\ StartTransaction(c, FALSE, "write_tables")

\* A checkpointer opens the transaction in which it binds indexes.
CheckpointBind(c) ==
    /\ pc[c] = "bind"
    /\ StartTransaction(c, TRUE, "write_tables")

Committed == {t \in Threads : commit_id[t] # 0 /\ ChangesMade(t)}

\* What the tables written by c contain: the commits up to the checkpoint id.
TablesWritten(c) == {t \in Committed : commit_id[t] <= loaded[c]}

\* Before a row group is written its delete markers are compressed: in a vector
\* with rows left, the ones below the lowest active start lose their commit id.
DeletesCompressed ==
    {t \in Committed : /\ mods[t] \cap {"delete", "index_delete"} # {}
                       /\ commit_id[t] < lowest_active_start}

\* Compressed deletes are written whatever the checkpoint id is.
WriteTables(c) ==
    /\ pc[c] = "write_tables"
    /\ \E compressed \in SUBSET DeletesCompressed :
          file' = file \cup TablesWritten(c) \cup compressed
    /\ Goto(c, "wal_finish")
    /\ UNCHANGED <<locks, storage_locks, counters, collections, transactions, decision, skip_wal,
                   error, loaded, cleaning, wal, wal_start>>

\* WALFinishCheckpoint: the checkpoint WAL becomes the WAL.
WALFinishCheckpoint(c) ==
    /\ pc[c] = "wal_finish"
    /\ wal_start = 0 \/ wal_lock \in {NoThread, c}
    /\ wal' = SubSeq(wal, wal_start + 1, Len(wal))
    /\ wal_start' = 0
    /\ Goto(c, IF c \in Checkpointers THEN "active" ELSE "clear")
    /\ UNCHANGED <<locks, storage_locks, counters, collections, transactions, decision, skip_wal,
                   error, loaded, cleaning, file>>

\* Mutant: the checkpoint id is not reset.
ResetCheckpointId_Forgotten(c) ==
    /\ pc[c] = "clear"
    /\ Goto(c, "return")
    /\ UNCHANGED <<locks, storage_locks, counters, collections, transactions, decision, skip_wal,
                   error, loaded, cleaning, durable>>

\* ActiveCheckpointWrapper::Clear
ResetCheckpointId(c) ==
    /\ pc[c] = "clear"
    /\ active_checkpoint' = MAX_TRANSACTION_ID
    /\ Goto(c, "return")
    /\ UNCHANGED <<locks, storage_locks, current_start_timestamp, last_commit, lowest_active_start,
                   collections, transactions, decision, skip_wal, error, loaded, cleaning, durable>>

\* The locks go with the functions that hold them.
CheckpointReturn(c) ==
    /\ pc[c] = "return"
    /\ IF vacuum_writer = c THEN VacuumLock!ReleaseExclusive(c)
       ELSE UNCHANGED <<vacuum_readers, vacuum_writer>>
    /\ CheckpointLock!ReleaseExclusive(c)
    /\ wal_lock' = IF wal_lock = c THEN NoThread ELSE wal_lock
    /\ skip_wal' = [skip_wal EXCEPT ![c] = FALSE]
    /\ decision' = [decision EXCEPT ![c] = "no"]
    /\ loaded' = [loaded EXCEPT ![c] = 0]
    /\ Goto(c, "done")
    /\ UNCHANGED <<transaction_lock, start_transaction_lock, cleanup_lock, counters, collections,
                   transactions, error, cleaning, durable>>

-----------------------------------------------------------------------------
EndTransaction(t) == CommitTransaction(t) \/ RollbackTransaction(t)

\* The steps of a commit, a rollback or a checkpoint that is under way.
CommitStep(t) == \/ CommitWAL(t)
                 \/ CommitDecide(t)
                 \/ CommitBackpedal(t)
                 \/ CommitBackpedalled(t)
                 \/ CommitSucceeds(t)
                 \/ CommitFails(t)
                 \/ CommitRemove(t)
                 \/ CommitUnlockWAL(t)

CleanupStep(t) == \/ CleanupPop(t)
                  \/ CleanupRun(t)
                  \/ CleanupDone(t)

CheckpointStep(c) == \/ ForceObtainsLock(c)
                     \/ CheckpointLastCommit(c)
                     \/ CheckpointLowestActiveStart(c)
                     \/ CreateCheckpoint(c)
                     \/ WALStartCheckpoint(c)
                     \/ SetCheckpointId(c)
                     \/ CheckpointBind(c)
                     \/ WriteTables(c)
                     \/ WALFinishCheckpoint(c)
                     \/ ResetCheckpointId(c)
                     \/ CheckpointReturn(c)

Step(t) == CommitStep(t) \/ CleanupStep(t) \/ CheckpointStep(t)

Next ==
    \/ \E t \in Txns : Begin(t) \/ (\E m \in Mods : SetModifications(t, m) \/ Modify(t, m))
    \/ \E t \in Threads : EndTransaction(t)
    \/ \E t \in Threads : Step(t)
    \/ \E k \in Checkpointers : Checkpoint(k) \/ ForceCheckpoint(k) \/ ForceInterrupted(k)

Spec == Init /\ [][Next]_vars

(***************************************************************************)
(* A thread that is inside the manager keeps running, and every client     *)
(* ends its transaction at some point.  Nobody is forced to begin, modify, *)
(* checkpoint or interrupt.                                                *)
(***************************************************************************)
Fairness == \A t \in Threads : WF_vars(Step(t)) /\ WF_vars(EndTransaction(t))

FairSpec == Spec /\ Fairness

-----------------------------------------------------------------------------
(***************************************************************************)
(* Safety.                                                                 *)
(***************************************************************************)
\* Transactions on their way to be cleaned up.
AwaitingCleanup ==
    {d \in Threads : \/ \E i \in DOMAIN cleanup_queue : d \in cleanup_queue[i].transactions
                     \/ \E t \in Threads : d \in cleaning[t]}

\* The undo information of a committed transaction is thrown away only when
\* every active transaction started after its commit and the checkpoint under
\* way includes it (RemoveTransaction's lowest_start_time), however long the
\* cleanup itself is delayed by the cleanup queue.
CleanupSafe ==
    \A d \in AwaitingCleanup :
        commit_id[d] # 0 /\ mods[d] \cap Stored # {} =>
            /\ \A a \in active_transactions : commit_id[d] < start_time[a]
            /\ active_checkpoint # MAX_TRANSACTION_ID => commit_id[d] <= active_checkpoint

\* "Cleanups have to happen in-order": while a stored transaction is cleaned up,
\* no stored transaction that committed before it still waits for its cleanup or
\* is being cleaned up by another thread.
CleanupInOrder ==
    \A t \in Threads : \A d \in cleaning[t] :
        \A e \in Threads :
            /\ mods[d] \cap Stored # {} /\ mods[e] \cap Stored # {}
            /\ 0 < commit_id[e] /\ commit_id[e] < commit_id[d]
            => /\ \A i \in DOMAIN recently_committed : recently_committed[i] # e
               /\ \A i \in DOMAIN cleanup_queue : e \notin cleanup_queue[i].transactions
               /\ \A u \in Threads \ {t} : e \notin cleaning[u]

\* lowest_active_start, which is kept up to date only by some starts and by
\* removals, is never above the start of an active transaction.
LowestActiveStartSafe ==
    \A a \in active_transactions : lowest_active_start <= start_time[a]

\* recently_committed_transactions is ordered on commit_id, as the early break
\* of RemoveTransaction relies on.
RecentlyCommittedOrdered ==
    \A i, j \in DOMAIN recently_committed :
        i < j => commit_id[recently_committed[i]] < commit_id[recently_committed[j]]

\* GetNewCheckpointId never finds a checkpoint id already set.
OneCheckpointAtATime ==
    \A c \in Threads : pc[c] \in {"wal_start", "set_checkpoint_id"} =>
                           active_checkpoint = MAX_TRANSACTION_ID

\* The WAL holds the transactions in the order of their commit ids, although the
\* ids are drawn after the WAL is written and under another lock.
WALInCommitOrder ==
    \A i, j \in DOMAIN wal :
        i < j /\ commit_id[wal[j]] # 0 => /\ commit_id[wal[i]] # 0
                                          /\ commit_id[wal[i]] < commit_id[wal[j]]

InWAL == {wal[i] : i \in DOMAIN wal}

\* A committed transaction is in the WAL or in the file, unless it left its WAL
\* write to the checkpoint it is still running; and nothing can be committed on
\* top of such a transaction, because losing it would then lose only part.
DurableOrAlone ==
    \A t \in Committed \ (InWAL \cup file) :
        /\ skip_wal[t]
        /\ wal_lock = t
        /\ \A u \in Committed : commit_id[u] <= commit_id[t]

\* While a checkpoint writes the tables, every committed update or drop is
\* visible to every active transaction and is part of the checkpoint, and no
\* other such change is in progress: in-place changes need no old versions.
NoOldVersionsNeeded ==
    \A c \in Threads : pc[c] = "write_tables" =>
        \A u \in Threads : mods[u] \cap {"update", "drop"} # {} =>
            /\ u \notin active_transactions
            /\ commit_id[u] <= loaded[c]
            /\ \A a \in active_transactions : commit_id[u] < start_time[a]

\* "They can only be run if no transaction need to read old data": while the
\* vacuum lock is held by a checkpoint, no active transaction started before a
\* committed delete, whose rows the vacuum removes.
FullCheckpointNeedsNoOldData ==
    vacuum_writer # NoThread =>
        \A d \in Committed, a \in active_transactions :
            "delete" \in mods[d] => commit_id[d] < start_time[a]

(***************************************************************************)
(* Liveness.                                                               *)
(***************************************************************************)
\* FORCE CHECKPOINT waits "until any active transactions are finished".
ForceCheckpointEnds ==
    \A k \in Checkpointers : pc[k] = "force_spin" ~> pc[k] = "done"

\* Whoever starts to commit comes to an end: no cycle of locks among committers,
\* checkpoints, cleanup and FORCE CHECKPOINT.
CommitsEnd == \A t \in Txns : pc[t] = "wal" ~> pc[t] = "done"
=============================================================================
