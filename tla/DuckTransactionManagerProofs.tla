--------------------- MODULE DuckTransactionManagerProofs ---------------------
(***************************************************************************)
(* For any set of transactions and checkpointers and any modifications:    *)
(* types, the order of recently_committed, the safety of                   *)
(* lowest_active_start and of cleanup, and then checkpoints, durability    *)
(* and the order of cleanups.                                              *)
(***************************************************************************)
EXTENDS DuckTransactionManager, SequenceTheorems, WellFoundedInduction, TLAPS

Recent == {recently_committed[i] : i \in DOMAIN recently_committed}

\* Who holds the transaction_lock and the WAL lock.
LocksHeld ==
    \A t \in Threads :
        /\ pc[t] \in {"commit", "remove"} => transaction_lock = t
        /\ pc[t] \in {"written", "backpedal", "backpedalled", "set_checkpoint_id"} => wal_lock = t
        /\ pc[t] \in {"commit", "remove"} /\ mods[t] # {} => wal_lock = t

\* Labels between the start of a transaction and its removal.
Running == {"active", "wal", "written", "backpedal", "backpedalled", "commit", "remove"}

RunningActive ==
    /\ \A t \in Threads : pc[t] \in Running => t \in active_transactions
    /\ \A k \in Checkpointers : /\ mods[k] = {}
                                /\ pc[k] \in {"write_tables", "wal_finish"} =>
                                       k \in active_transactions
    /\ \A t \in Txns : pc[t] # "bind"

\* Only a transaction with changes writes to the WAL and can fail.
OnlyChangesFail ==
    \A t \in Threads : pc[t] \in {"wal", "written", "backpedal", "backpedalled"} \/ error[t] =>
                           mods[t] # {}

\* Transactions that wait for cleanup, or may have to, have ended.
Retired ==
    \A d \in AwaitingCleanup \cup Recent :
        mods[d] # {} /\ d \notin active_transactions /\ pc[d] # "none"

\* Timestamps come from one counter, and last_commit is the last commit.
Timestamps ==
    /\ \A t \in Threads : /\ start_time[t] < current_start_timestamp
                          /\ commit_id[t] < current_start_timestamp
                          /\ commit_id[t] <= last_commit
    /\ \A t \in Txns : pc[t] \in (Running \ {"remove"}) \cup {"none"} => commit_id[t] = 0

\* Whoever is about to be removed committed last.
RemovedIsLatest ==
    \A t, u \in Threads : pc[t] = "remove" /\ commit_id[t] # 0 /\ u # t => commit_id[u] < commit_id[t]

\* The checkpoint id that is about to be published covers every commit with changes.
CheckpointIdCovers ==
    \A c, t \in Threads : pc[c] = "set_checkpoint_id" /\ mods[t] # {} => commit_id[t] <= loaded[c]

\* The inductive invariant.
Inv == /\ TypeOK
       /\ LocksHeld
       /\ RunningActive
       /\ OnlyChangesFail
       /\ Retired
       /\ Timestamps
       /\ RemovedIsLatest
       /\ CheckpointIdCovers
       /\ LowestActiveStartSafe
       /\ RecentlyCommittedOrdered
       /\ CleanupSafe

-----------------------------------------------------------------------------
(***************************************************************************)
(* What the helpers of RemoveTransaction return.                           *)
(***************************************************************************)

\* A non-empty set of naturals has a least element.
LEMMA MinOfNats ==
    ASSUME NEW S, S \subseteq Nat, S # {}
    PROVE  Min(S) \in S /\ \A y \in S : Min(S) <= y
<1>1. PICK x \in S : \A y \in S : <<y, x>> \notin OpToRel(<, Nat)
  BY NatLessThanWellFounded, WFMin, Zenon
<1>2. \A y \in S : ~ (y < x)
  BY <1>1, Zenon DEF OpToRel
<1>3. \A y \in S : x <= y
  BY <1>2
<1> QED
  BY <1>3 DEF Min

\* A non-empty set of numbers up to n has a greatest element.
LEMMA MaxOfNats ==
    ASSUME NEW n \in Nat, NEW S, S \subseteq 0 .. n, S # {}
    PROVE  Max(S) \in S /\ \A y \in S : Max(S) >= y
<1> DEFINE D == {n - x : x \in S}
<1>1. D \subseteq Nat /\ D # {}
  <2>1. \A x \in S : n - x \in Nat
    OBVIOUS
  <2> QED BY <2>1
<1>2. Min(D) \in D /\ \A y \in D : Min(D) <= y
  BY <1>1, MinOfNats
<1>3. PICK x \in S : n - x = Min(D)
  BY <1>2
<1>4. ASSUME NEW y \in S PROVE x >= y
  <2>1. n - x <= n - y
    BY <1>2, <1>3
  <2> QED BY <2>1
<1> QED
  BY <1>4 DEF Max

\* lowest_start_time is not above the start of another active transaction, nor
\* above the id of the checkpoint under way.
LEMMA LowestStartTimeBounds ==
    ASSUME TypeOK, NEW t \in Threads
    PROVE  /\ LowestStartTime(t) \in Nat
           /\ \A a \in active_transactions \ {t} : LowestStartTime(t) <= start_time[a]
           /\ active_checkpoint # MAX_TRANSACTION_ID => LowestStartTime(t) <= active_checkpoint
<1> DEFINE S == {TRANSACTION_ID_START}
                \cup {start_time[a] : a \in active_transactions \ {t}}
                \cup (IF active_checkpoint = MAX_TRANSACTION_ID THEN {} ELSE {active_checkpoint})
<1>1. S \subseteq Nat /\ S # {}
  BY TimestampAssumption DEF TypeOK, CountersTyped, CollectionsTyped, TransactionsTyped
<1>2. Min(S) \in S /\ \A y \in S : Min(S) <= y
  <2> HIDE DEF S
  <2> QED BY <1>1, MinOfNats
<1>3. LowestStartTime(t) = Min(S)
  BY DEF LowestStartTime
<1> HIDE DEF LowestStartTime
<1> QED
  BY <1>1, <1>2, <1>3

\* The released transactions are a prefix, and all committed before lowest.
LEMMA ReleasedCountBounds ==
    ASSUME TypeOK, NEW rc \in Seq(Threads), NEW lowest \in Nat
    PROVE  /\ ReleasedCount(rc, lowest) \in 0 .. Len(rc)
           /\ \A i \in 1 .. ReleasedCount(rc, lowest) : commit_id[rc[i]] < lowest
<1> DEFINE S == {n \in 0 .. Len(rc) : \A i \in 1 .. n : commit_id[rc[i]] < lowest}
<1>1. Len(rc) \in Nat /\ S \subseteq 0 .. Len(rc) /\ 0 \in S
  OBVIOUS
<1>2. Max(S) \in S
  <2> HIDE DEF S
  <2> QED BY <1>1, MaxOfNats
<1>3. ReleasedCount(rc, lowest) = Max(S)
  BY DEF ReleasedCount
<1> QED
  BY <1>2, <1>3

\* What a removal does to the collections and to lowest_active_start.
LEMMA RemovalEffect ==
    ASSUME TypeOK, NEW t \in Threads, NEW store \in BOOLEAN, RemoveTransaction(t, store)
    PROVE  /\ active_transactions' = active_transactions \ {t}
           /\ lowest_active_start' = LowestStartTime(t)
           /\ recently_committed' \in Seq(Threads)
           /\ \A i \in DOMAIN recently_committed' :
                 \/ \E j \in DOMAIN recently_committed :
                       recently_committed'[i] = recently_committed[j]
                 \/ recently_committed'[i] = t /\ store /\ commit_id[t] # 0
           /\ cleanup_queue' \in Seq(CleanupInfos)
           /\ \A i \in DOMAIN cleanup_queue' : \A d \in cleanup_queue'[i].transactions :
                 \/ \E j \in DOMAIN cleanup_queue : d \in cleanup_queue[j].transactions
                 \/ d = t /\ mods[t] # {} /\ ~(store /\ commit_id[t] # 0)
                 \/ /\ d \in Recent \/ (d = t /\ store /\ commit_id[t] # 0)
                    /\ commit_id[d] < LowestStartTime(t)
<1> DEFINE lowest == LowestStartTime(t)
           keep == store /\ commit_id[t] # 0
           rc == IF keep THEN PushRecentlyCommitted(t) ELSE recently_committed
           n == ReleasedCount(rc, lowest)
           scheduled == {rc[i] : i \in 1 .. n} \cup (IF ChangesMade(t) /\ ~keep THEN {t} ELSE {})
<1>1. /\ active_transactions' = active_transactions \ {t}
      /\ lowest_active_start' = lowest
      /\ recently_committed' = SubSeq(rc, n + 1, Len(rc))
      /\ cleanup_queue' =
             IF scheduled = {} THEN cleanup_queue
             ELSE Append(cleanup_queue, [lowest_start_time |-> lowest, transactions |-> scheduled])
  BY DEF RemoveTransaction
<1>2. lowest \in Nat
  BY LowestStartTimeBounds
<1>3. /\ rc \in Seq(Threads)
      /\ \A i \in 1 .. Len(rc) : \/ \E j \in DOMAIN recently_committed : rc[i] = recently_committed[j]
                                 \/ rc[i] = t /\ keep
  <2>1. recently_committed \in Seq(Threads) /\ DOMAIN recently_committed = 1 .. Len(recently_committed)
    BY DEF TypeOK, CountersTyped, CollectionsTyped, TransactionsTyped
  <2>2. CASE keep
    <3>1. rc = Append(recently_committed, t)
      BY <2>2 DEF PushRecentlyCommitted
    <3> HIDE DEF rc, keep
    <3> QED BY <2>1, <2>2, <3>1
  <2>3. CASE ~keep
    <3>1. rc = recently_committed
      BY <2>3
    <3> HIDE DEF rc, keep
    <3> QED BY <2>1, <3>1
  <2> QED BY <2>2, <2>3
<1>4. n \in 0 .. Len(rc) /\ \A i \in 1 .. n : commit_id[rc[i]] < lowest
  <2> HIDE DEF rc, lowest
  <2> QED BY <1>2, <1>3, ReleasedCountBounds DEF n
<1>5. scheduled \subseteq Threads
  BY <1>3, <1>4
<1>6. /\ recently_committed' \in Seq(Threads)
      /\ \A i \in DOMAIN recently_committed' : \E j \in 1 .. Len(rc) : recently_committed'[i] = rc[j]
  <2> HIDE DEF rc, n
  <2>1. /\ rc \in Seq(Threads) /\ Len(rc) \in Nat /\ n \in 0 .. Len(rc)
        /\ recently_committed' = SubSeq(rc, n + 1, Len(rc))
    BY <1>1, <1>3, <1>4
  <2>2. \A i \in n + 1 .. Len(rc) : i \in 1 .. Len(rc) /\ rc[i] \in Threads
    BY <2>1
  <2>3. SubSeq(rc, n + 1, Len(rc)) \in Seq(Threads)
    BY <2>1, <2>2
  <2>4. /\ DOMAIN recently_committed' = 1 .. Len(rc) - n
        /\ \A i \in 1 .. Len(rc) - n : recently_committed'[i] = rc[n + i] /\ n + i \in 1 .. Len(rc)
    BY <2>1
  <2> QED BY <2>1, <2>3, <2>4
<1>7. [lowest_start_time |-> lowest, transactions |-> scheduled] \in CleanupInfos
  <2> HIDE DEF lowest, scheduled
  <2> QED BY <1>2, <1>5 DEF CleanupInfos
<1>8. /\ cleanup_queue' \in Seq(CleanupInfos)
      /\ \A i \in DOMAIN cleanup_queue' : \/ cleanup_queue'[i].transactions = scheduled
                                          \/ /\ i \in DOMAIN cleanup_queue
                                             /\ cleanup_queue'[i] = cleanup_queue[i]
  <2> DEFINE info == [lowest_start_time |-> lowest, transactions |-> scheduled]
  <2>1. cleanup_queue' = cleanup_queue \/ cleanup_queue' = Append(cleanup_queue, info)
    BY <1>1
  <2>2. info \in CleanupInfos /\ info.transactions = scheduled
    BY <1>7
  <2>3. cleanup_queue \in Seq(CleanupInfos)
    BY DEF TypeOK, CountersTyped, CollectionsTyped, TransactionsTyped
  <2> HIDE DEF info, scheduled
  <2> QED BY <2>1, <2>2, <2>3
<1>9. \A d \in scheduled : \/ d = t /\ mods[t] # {} /\ ~keep
                           \/ /\ d \in Recent \/ (d = t /\ keep)
                              /\ commit_id[d] < lowest
  <2> SUFFICES ASSUME NEW d \in scheduled
               PROVE  \/ d = t /\ mods[t] # {} /\ ~keep
                      \/ /\ d \in Recent \/ (d = t /\ keep)
                         /\ commit_id[d] < lowest
    OBVIOUS
  <2>1. CASE d = t /\ ChangesMade(t) /\ ~keep
    BY <2>1 DEF ChangesMade
  <2>2. CASE \E i \in 1 .. n : d = rc[i]
    <3>1. PICK i \in 1 .. n : d = rc[i]
      BY <2>2
    <3>2. i \in 1 .. Len(rc) /\ commit_id[d] < lowest
      <4> HIDE DEF rc, n, lowest
      <4> QED BY <1>3, <1>4, <3>1
    <3>3. \/ \E j \in DOMAIN recently_committed : d = recently_committed[j]
          \/ d = t /\ keep
      <4> HIDE DEF rc, n, keep, lowest
      <4> QED BY <1>3, <3>1, <3>2
    <3>4. d \in Recent \/ (d = t /\ keep)
      BY <3>3 DEF Recent
    <3> QED BY <3>2, <3>4
  <2> QED BY <2>1, <2>2
<1>10. \A i \in DOMAIN recently_committed' :
          \/ \E j \in DOMAIN recently_committed : recently_committed'[i] = recently_committed[j]
          \/ recently_committed'[i] = t /\ keep
  <2> HIDE DEF rc, keep
  <2> QED BY <1>3, <1>6
<1>11. \A i \in DOMAIN cleanup_queue' : \A d \in cleanup_queue'[i].transactions :
          \/ \E j \in DOMAIN cleanup_queue : d \in cleanup_queue[j].transactions
          \/ d \in scheduled
  <2> HIDE DEF scheduled
  <2> QED BY <1>8
<1> HIDE DEF rc, scheduled
<1> QED
  BY <1>1, <1>6, <1>8, <1>9, <1>10, <1>11

-----------------------------------------------------------------------------
(***************************************************************************)
(* Types.                                                                   *)
(***************************************************************************)

\* A step of any kind leaves every variable in its type.
LEMMA TypeStep == TypeOK /\ [Next]_vars => TypeOK'
<1> SUFFICES ASSUME TypeOK, [Next]_vars PROVE TypeOK'
  OBVIOUS
<1> USE DEF TypeOK, Goto, vars, locks, storage_locks, counters, collections, transactions, locals,
            durable
<1>1. ASSUME NEW t \in Txns, Begin(t) PROVE TypeOK'
  <2>1. LocksTyped' /\ StorageLocksTyped'
    BY <1>1 DEF Begin, StartTransaction, Threads, LocksTyped, StorageLocksTyped
  <2>2. CountersTyped' /\ CollectionsTyped' /\ TransactionsTyped'
    BY <1>1 DEF Begin, StartTransaction, Threads, CountersTyped, CollectionsTyped,
        TransactionsTyped
  <2>3. LocalsTyped' /\ DurableTyped'
    BY <1>1 DEF Begin, StartTransaction, LocalsTyped, DurableTyped, Labels
  <2> QED BY <2>1, <2>2, <2>3
<1>2. ASSUME NEW t \in Txns, NEW m \in Mods, Modify(t, m) PROVE TypeOK'
  <2>1. LocksTyped' /\ StorageLocksTyped'
    BY <1>2 DEF Modify, LocksTyped, StorageLocksTyped
  <2>2. CountersTyped' /\ CollectionsTyped' /\ TransactionsTyped'
    BY <1>2 DEF Modify, Threads, CountersTyped, CollectionsTyped, TransactionsTyped
  <2>3. LocalsTyped' /\ DurableTyped'
    BY <1>2 DEF Modify, LocalsTyped, DurableTyped, Labels
  <2> QED BY <2>1, <2>2, <2>3
<1>3. ASSUME NEW t \in Threads, CommitTransaction(t) PROVE TypeOK'
  <2>1. LocksTyped' /\ StorageLocksTyped'
    BY <1>3 DEF CommitTransaction, CheckpointLock!AcquireExclusive,
        CheckpointLock!Upgrade, CheckpointLock!ReleaseExclusive, Threads, LocksTyped,
        StorageLocksTyped
  <2>2. CountersTyped' /\ CollectionsTyped' /\ TransactionsTyped'
    BY <1>3 DEF CommitTransaction, Threads, CountersTyped, CollectionsTyped,
        TransactionsTyped
  <2>3. skip_wal' \in [Threads -> BOOLEAN]
    <3>1. skip_wal' = skip_wal \/ \E skip \in BOOLEAN : skip_wal' = [skip_wal EXCEPT ![t] = skip]
      BY <1>3 DEF CommitTransaction
    <3> QED BY <3>1 DEF LocalsTyped
  <2>4. LocalsTyped' /\ DurableTyped'
    BY <1>3, <2>3 DEF CommitTransaction, LocalsTyped, DurableTyped, Labels
  <2> QED BY <2>1, <2>2, <2>4
<1>4. ASSUME NEW t \in Threads, CommitWAL(t) PROVE TypeOK'
  <2>1. LocksTyped' /\ StorageLocksTyped'
    BY <1>4 DEF CommitWAL, WriteToWAL, Threads, LocksTyped, StorageLocksTyped
  <2>2. CountersTyped' /\ CollectionsTyped' /\ TransactionsTyped'
    BY <1>4 DEF CommitWAL, WriteToWAL, Threads, CountersTyped, CollectionsTyped,
        TransactionsTyped
  <2>3. LocalsTyped'
    BY <1>4 DEF CommitWAL, WriteToWAL, LocalsTyped, Labels
  <2>4. DurableTyped'
    <3>1. wal' = wal \/ wal' = Append(wal, t)
      BY <1>4 DEF CommitWAL, WriteToWAL
    <3>2. UNCHANGED <<wal_start, file>>
      BY <1>4 DEF CommitWAL, WriteToWAL
    <3>3. wal \in Seq(Threads) /\ wal_start \in Nat /\ file \subseteq Threads
      BY DEF DurableTyped
    <3>4. wal' \in Seq(Threads)
      BY <3>1, <3>3
    <3> QED BY <3>2, <3>3, <3>4 DEF DurableTyped
  <2> QED BY <2>1, <2>2, <2>3, <2>4
<1>5. ASSUME NEW t \in Threads, CommitDecide(t) PROVE TypeOK'
  <2>1. LocksTyped' /\ StorageLocksTyped'
    BY <1>5 DEF CommitDecide, CheckpointType, Threads, LocksTyped, StorageLocksTyped
  <2>2. CountersTyped' /\ CollectionsTyped' /\ TransactionsTyped'
    BY <1>5 DEF CommitDecide, CheckpointType, Threads, CountersTyped, CollectionsTyped,
        TransactionsTyped
  <2>3. CheckpointType(t) \in {"no", "full", "concurrent"}
    BY DEF CheckpointType
  <2>4. pc' \in [Threads -> Labels]
    BY <1>5 DEF CommitDecide, LocalsTyped, Labels
  <2>5. decision' \in [Threads -> {"no", "full", "concurrent"}]
    BY <1>5, <2>3 DEF CommitDecide, LocalsTyped
  <2>6. skip_wal' \in [Threads -> BOOLEAN]
    BY <1>5 DEF CommitDecide, LocalsTyped
  <2>7. UNCHANGED <<error, loaded, cleaning, wal, wal_start, file>>
    BY <1>5 DEF CommitDecide, durable
  <2>8. LocalsTyped' /\ DurableTyped'
    BY <2>4, <2>5, <2>6, <2>7 DEF LocalsTyped, DurableTyped
  <2> QED BY <2>1, <2>2, <2>8
<1>6. ASSUME NEW t \in Threads, CommitBackpedal(t) PROVE TypeOK'
  <2>1. LocksTyped' /\ StorageLocksTyped'
    BY <1>6 DEF CommitBackpedal, WriteToWAL, Threads, LocksTyped, StorageLocksTyped
  <2>2. CountersTyped' /\ CollectionsTyped' /\ TransactionsTyped'
    BY <1>6 DEF CommitBackpedal, WriteToWAL, Threads, CountersTyped, CollectionsTyped,
        TransactionsTyped
  <2>3. LocalsTyped'
    BY <1>6 DEF CommitBackpedal, WriteToWAL, LocalsTyped, Labels
  <2>4. DurableTyped'
    <3>1. wal' = wal \/ wal' = Append(wal, t)
      BY <1>6 DEF CommitBackpedal, WriteToWAL
    <3>2. UNCHANGED <<wal_start, file>>
      BY <1>6 DEF CommitBackpedal, WriteToWAL
    <3>3. wal \in Seq(Threads) /\ wal_start \in Nat /\ file \subseteq Threads
      BY DEF DurableTyped
    <3>4. wal' \in Seq(Threads)
      BY <3>1, <3>3
    <3> QED BY <3>2, <3>3, <3>4 DEF DurableTyped
  <2> QED BY <2>1, <2>2, <2>3, <2>4
<1>7. ASSUME NEW t \in Threads, CommitBackpedalled(t) PROVE TypeOK'
  <2>1. LocksTyped' /\ StorageLocksTyped'
    BY <1>7 DEF CommitBackpedalled, Threads, LocksTyped, StorageLocksTyped
  <2>2. CountersTyped' /\ CollectionsTyped' /\ TransactionsTyped'
    BY <1>7 DEF CommitBackpedalled, Threads, CountersTyped, CollectionsTyped,
        TransactionsTyped
  <2>3. LocalsTyped' /\ DurableTyped'
    BY <1>7 DEF CommitBackpedalled, LocalsTyped, DurableTyped, Labels
  <2> QED BY <2>1, <2>2, <2>3
<1>8. ASSUME NEW t \in Threads, CommitSucceeds(t) PROVE TypeOK'
  <2>1. LocksTyped' /\ StorageLocksTyped'
    BY <1>8 DEF CommitSucceeds, DropCheckpointLock, CheckpointLock!ReleaseExclusive,
        Threads, LocksTyped, StorageLocksTyped
  <2>2. CountersTyped' /\ CollectionsTyped' /\ TransactionsTyped'
    BY <1>8 DEF CommitSucceeds, Threads, CountersTyped, CollectionsTyped,
        TransactionsTyped
  <2>3. LocalsTyped' /\ DurableTyped'
    BY <1>8 DEF CommitSucceeds, LocalsTyped, DurableTyped, Labels
  <2> QED BY <2>1, <2>2, <2>3
<1>9. ASSUME NEW t \in Threads, CommitFails(t) PROVE TypeOK'
  <2>1. LocksTyped' /\ StorageLocksTyped'
    BY <1>9 DEF CommitFails, WALWithout, DropCheckpointLock,
        CheckpointLock!ReleaseExclusive, Threads, LocksTyped, StorageLocksTyped
  <2>2. CountersTyped' /\ CollectionsTyped' /\ TransactionsTyped'
    BY <1>9 DEF CommitFails, WALWithout, Threads, CountersTyped, CollectionsTyped,
        TransactionsTyped
  <2>3. LocalsTyped' /\ DurableTyped'
    BY <1>9 DEF CommitFails, WALWithout, LocalsTyped, DurableTyped, Labels
  <2> QED BY <2>1, <2>2, <2>3
<1>10. ASSUME NEW t \in Threads, CommitRemove(t) PROVE TypeOK'
  <2>1. PICK store \in BOOLEAN : RemoveTransaction(t, store)
    BY <1>10 DEF CommitRemove, LocalsTyped
  <2>2. /\ lowest_active_start' \in Nat
        /\ active_transactions' \subseteq Threads
        /\ recently_committed' \in Seq(Threads)
        /\ cleanup_queue' \in Seq(CleanupInfos)
    BY <2>1, RemovalEffect, LowestStartTimeBounds DEF CollectionsTyped
  <2>3. CountersTyped' /\ CollectionsTyped'
    BY <1>10, <2>2 DEF CommitRemove, CountersTyped, CollectionsTyped
  <2>4. LocksTyped' /\ StorageLocksTyped'
    BY <1>10 DEF CommitRemove, RemoveTransaction, LocksTyped, StorageLocksTyped
  <2>5. TransactionsTyped' /\ LocalsTyped' /\ DurableTyped'
    BY <1>10 DEF CommitRemove, TransactionsTyped, LocalsTyped, DurableTyped, Labels
  <2> QED BY <2>3, <2>4, <2>5
<1>11. ASSUME NEW t \in Threads, CommitUnlockWAL(t) PROVE TypeOK'
  <2>1. LocksTyped' /\ StorageLocksTyped'
    BY <1>11 DEF CommitUnlockWAL, Threads, LocksTyped, StorageLocksTyped
  <2>2. CountersTyped' /\ CollectionsTyped' /\ TransactionsTyped'
    BY <1>11 DEF CommitUnlockWAL, Threads, CountersTyped, CollectionsTyped,
        TransactionsTyped
  <2>3. LocalsTyped' /\ DurableTyped'
    BY <1>11 DEF CommitUnlockWAL, LocalsTyped, DurableTyped, Labels
  <2> QED BY <2>1, <2>2, <2>3
<1>12. ASSUME NEW t \in Threads, RollbackTransaction(t) PROVE TypeOK'
  <2>1. PICK store \in BOOLEAN : RemoveTransaction(t, store)
    BY <1>12 DEF RollbackTransaction, LocalsTyped, ChangesMade
  <2>2. /\ lowest_active_start' \in Nat
        /\ active_transactions' \subseteq Threads
        /\ recently_committed' \in Seq(Threads)
        /\ cleanup_queue' \in Seq(CleanupInfos)
    BY <2>1, RemovalEffect, LowestStartTimeBounds DEF CollectionsTyped
  <2>3. CountersTyped' /\ CollectionsTyped'
    BY <1>12, <2>2 DEF RollbackTransaction, CountersTyped, CollectionsTyped
  <2>4. LocksTyped' /\ StorageLocksTyped'
    BY <1>12 DEF RollbackTransaction, RemoveTransaction, LocksTyped, StorageLocksTyped
  <2>5. TransactionsTyped' /\ LocalsTyped' /\ DurableTyped'
    BY <1>12 DEF RollbackTransaction, TransactionsTyped, LocalsTyped, DurableTyped, Labels
  <2> QED BY <2>3, <2>4, <2>5
<1>13. ASSUME NEW t \in Threads, CleanupPop(t) PROVE TypeOK'
  <2>1. LocksTyped' /\ StorageLocksTyped'
    BY <1>13 DEF CleanupPop, Threads, LocksTyped, StorageLocksTyped
  <2>2. CountersTyped' /\ CollectionsTyped' /\ TransactionsTyped'
    BY <1>13 DEF CleanupPop, Threads, CountersTyped, CollectionsTyped, TransactionsTyped
  <2>3. Head(cleanup_queue).transactions \subseteq Threads
    <3>1. Head(cleanup_queue) \in CleanupInfos
      BY <1>13 DEF CleanupPop, CollectionsTyped
    <3> QED BY <3>1 DEF CleanupInfos
  <2>4. LocalsTyped' /\ DurableTyped'
    BY <1>13, <2>3 DEF CleanupPop, LocalsTyped, DurableTyped, Labels
  <2> QED BY <2>1, <2>2, <2>4
<1>14. ASSUME NEW t \in Threads, CleanupRun(t) PROVE TypeOK'
  <2>1. LocksTyped' /\ StorageLocksTyped'
    BY <1>14 DEF CleanupRun, Threads, LocksTyped, StorageLocksTyped
  <2>2. CountersTyped' /\ CollectionsTyped' /\ TransactionsTyped'
    BY <1>14 DEF CleanupRun, Threads, CountersTyped, CollectionsTyped, TransactionsTyped
  <2>3. LocalsTyped' /\ DurableTyped'
    BY <1>14 DEF CleanupRun, LocalsTyped, DurableTyped, Labels
  <2> QED BY <2>1, <2>2, <2>3
<1>15. ASSUME NEW t \in Threads, CleanupDone(t) PROVE TypeOK'
  <2>1. LocksTyped' /\ StorageLocksTyped'
    BY <1>15 DEF CleanupDone, Threads, LocksTyped, StorageLocksTyped
  <2>2. CountersTyped' /\ CollectionsTyped' /\ TransactionsTyped'
    BY <1>15 DEF CleanupDone, Threads, CountersTyped, CollectionsTyped, TransactionsTyped
  <2>3. LocalsTyped' /\ DurableTyped'
    BY <1>15 DEF CleanupDone, LocalsTyped, DurableTyped, Labels
  <2> QED BY <2>1, <2>2, <2>3
<1>16. ASSUME NEW t \in Checkpointers, Checkpoint(t) PROVE TypeOK'
  <2>1. LocksTyped' /\ StorageLocksTyped'
    BY <1>16 DEF Checkpoint, CheckpointLock!AcquireExclusive, Threads, LocksTyped,
        StorageLocksTyped
  <2>2. CountersTyped' /\ CollectionsTyped' /\ TransactionsTyped'
    BY <1>16 DEF Checkpoint, Threads, CountersTyped, CollectionsTyped, TransactionsTyped
  <2>3. LocalsTyped' /\ DurableTyped'
    BY <1>16 DEF Checkpoint, LocalsTyped, DurableTyped, Labels
  <2> QED BY <2>1, <2>2, <2>3
<1>17. ASSUME NEW t \in Checkpointers, ForceCheckpoint(t) PROVE TypeOK'
  <2>1. LocksTyped' /\ StorageLocksTyped'
    BY <1>17 DEF ForceCheckpoint, Threads, LocksTyped, StorageLocksTyped
  <2>2. CountersTyped' /\ CollectionsTyped' /\ TransactionsTyped'
    BY <1>17 DEF ForceCheckpoint, Threads, CountersTyped, CollectionsTyped,
        TransactionsTyped
  <2>3. LocalsTyped' /\ DurableTyped'
    BY <1>17 DEF ForceCheckpoint, LocalsTyped, DurableTyped, Labels
  <2> QED BY <2>1, <2>2, <2>3
<1>18. ASSUME NEW t \in Threads, ForceObtainsLock(t) PROVE TypeOK'
  <2>1. LocksTyped' /\ StorageLocksTyped'
    BY <1>18 DEF ForceObtainsLock, CheckpointLock!AcquireExclusive, Threads, LocksTyped,
        StorageLocksTyped
  <2>2. CountersTyped' /\ CollectionsTyped' /\ TransactionsTyped'
    BY <1>18 DEF ForceObtainsLock, Threads, CountersTyped, CollectionsTyped,
        TransactionsTyped
  <2>3. LocalsTyped' /\ DurableTyped'
    BY <1>18 DEF ForceObtainsLock, LocalsTyped, DurableTyped, Labels
  <2> QED BY <2>1, <2>2, <2>3
<1>19. ASSUME NEW t \in Checkpointers, ForceInterrupted(t) PROVE TypeOK'
  <2>1. LocksTyped' /\ StorageLocksTyped'
    BY <1>19 DEF ForceInterrupted, Threads, LocksTyped, StorageLocksTyped
  <2>2. CountersTyped' /\ CollectionsTyped' /\ TransactionsTyped'
    BY <1>19 DEF ForceInterrupted, Threads, CountersTyped, CollectionsTyped,
        TransactionsTyped
  <2>3. LocalsTyped' /\ DurableTyped'
    BY <1>19 DEF ForceInterrupted, LocalsTyped, DurableTyped, Labels
  <2> QED BY <2>1, <2>2, <2>3
<1>20. ASSUME NEW t \in Threads, CheckpointLastCommit(t) PROVE TypeOK'
  <2>1. LocksTyped' /\ StorageLocksTyped'
    BY <1>20 DEF CheckpointLastCommit, Threads, LocksTyped, StorageLocksTyped
  <2>2. CountersTyped' /\ CollectionsTyped' /\ TransactionsTyped'
    BY <1>20 DEF CheckpointLastCommit, Threads, CountersTyped, CollectionsTyped,
        TransactionsTyped
  <2>3. LocalsTyped' /\ DurableTyped'
    BY <1>20 DEF CheckpointLastCommit, CountersTyped, LocalsTyped, DurableTyped, Labels
  <2> QED BY <2>1, <2>2, <2>3
<1>21. ASSUME NEW t \in Threads, CheckpointLowestActiveStart(t) PROVE TypeOK'
  <2>1. LocksTyped' /\ StorageLocksTyped'
    BY <1>21 DEF CheckpointLowestActiveStart, Threads, LocksTyped, StorageLocksTyped
  <2>2. CountersTyped' /\ CollectionsTyped' /\ TransactionsTyped'
    BY <1>21 DEF CheckpointLowestActiveStart, Threads, CountersTyped, CollectionsTyped,
        TransactionsTyped
  <2>3. LocalsTyped' /\ DurableTyped'
    BY <1>21 DEF CheckpointLowestActiveStart, LocalsTyped, DurableTyped, Labels
  <2> QED BY <2>1, <2>2, <2>3
<1>22. ASSUME NEW t \in Threads, CreateCheckpoint(t) PROVE TypeOK'
  <2>1. LocksTyped' /\ StorageLocksTyped'
    BY <1>22 DEF CreateCheckpoint, VacuumLock!AcquireExclusive, Threads, LocksTyped,
        StorageLocksTyped
  <2>2. CountersTyped' /\ CollectionsTyped' /\ TransactionsTyped'
    BY <1>22 DEF CreateCheckpoint, Threads, CountersTyped, CollectionsTyped,
        TransactionsTyped
  <2>3. LocalsTyped' /\ DurableTyped'
    BY <1>22 DEF CreateCheckpoint, LocalsTyped, DurableTyped, Labels
  <2> QED BY <2>1, <2>2, <2>3
<1>23. ASSUME NEW t \in Threads, WALStartCheckpoint(t) PROVE TypeOK'
  <2>1. LocksTyped' /\ StorageLocksTyped'
    BY <1>23 DEF WALStartCheckpoint, Threads, LocksTyped, StorageLocksTyped
  <2>2. CountersTyped' /\ CollectionsTyped' /\ TransactionsTyped'
    BY <1>23 DEF WALStartCheckpoint, Threads, CountersTyped, CollectionsTyped,
        TransactionsTyped
  <2>3. LocalsTyped' /\ DurableTyped'
    BY <1>23 DEF WALStartCheckpoint, CountersTyped, LocalsTyped, DurableTyped, Labels
  <2> QED BY <2>1, <2>2, <2>3
<1>24. ASSUME NEW t \in Threads, SetCheckpointId(t) PROVE TypeOK'
  <2>1. LocksTyped' /\ StorageLocksTyped'
    BY <1>24 DEF SetCheckpointId, Threads, LocksTyped, StorageLocksTyped
  <2>2. CountersTyped' /\ CollectionsTyped' /\ TransactionsTyped'
    BY <1>24 DEF SetCheckpointId, Threads, CountersTyped, CollectionsTyped,
        TransactionsTyped, LocalsTyped
  <2>3. LocalsTyped' /\ DurableTyped'
    BY <1>24 DEF SetCheckpointId, LocalsTyped, DurableTyped, Labels
  <2> QED BY <2>1, <2>2, <2>3
<1>25. ASSUME NEW t \in Threads, CheckpointBind(t) PROVE TypeOK'
  <2>1. LocksTyped' /\ StorageLocksTyped'
    BY <1>25 DEF CheckpointBind, StartTransaction, Threads, LocksTyped, StorageLocksTyped
  <2>2. CountersTyped' /\ CollectionsTyped' /\ TransactionsTyped'
    BY <1>25 DEF CheckpointBind, StartTransaction, Threads, CountersTyped,
        CollectionsTyped, TransactionsTyped
  <2>3. LocalsTyped' /\ DurableTyped'
    BY <1>25 DEF CheckpointBind, StartTransaction, LocalsTyped, DurableTyped, Labels
  <2> QED BY <2>1, <2>2, <2>3
<1>26. ASSUME NEW t \in Threads, WriteTables(t) PROVE TypeOK'
  <2>1. LocksTyped' /\ StorageLocksTyped'
    BY <1>26 DEF WriteTables, TablesWritten, Committed, DeletesCompressed, Threads,
        LocksTyped, StorageLocksTyped
  <2>2. CountersTyped' /\ CollectionsTyped' /\ TransactionsTyped'
    BY <1>26 DEF WriteTables, TablesWritten, Committed, DeletesCompressed, Threads,
        CountersTyped, CollectionsTyped, TransactionsTyped
  <2>3. LocalsTyped' /\ DurableTyped'
    BY <1>26 DEF WriteTables, TablesWritten, Committed, DeletesCompressed, LocalsTyped,
        DurableTyped, Labels
  <2> QED BY <2>1, <2>2, <2>3
<1>27. ASSUME NEW t \in Threads, WALFinishCheckpoint(t) PROVE TypeOK'
  <2>1. LocksTyped' /\ StorageLocksTyped'
    BY <1>27 DEF WALFinishCheckpoint, Threads, LocksTyped, StorageLocksTyped
  <2>2. CountersTyped' /\ CollectionsTyped' /\ TransactionsTyped'
    BY <1>27 DEF WALFinishCheckpoint, Threads, CountersTyped, CollectionsTyped,
        TransactionsTyped
  <2>3. LocalsTyped' /\ DurableTyped'
    BY <1>27 DEF WALFinishCheckpoint, LocalsTyped, DurableTyped, Labels
  <2> QED BY <2>1, <2>2, <2>3
<1>28. ASSUME NEW t \in Threads, ResetCheckpointId(t) PROVE TypeOK'
  <2>1. LocksTyped' /\ StorageLocksTyped'
    BY <1>28 DEF ResetCheckpointId, Threads, LocksTyped, StorageLocksTyped
  <2>2. CountersTyped' /\ CollectionsTyped' /\ TransactionsTyped'
    BY <1>28, TimestampAssumption DEF ResetCheckpointId, Threads, CountersTyped,
        CollectionsTyped, TransactionsTyped
  <2>3. LocalsTyped' /\ DurableTyped'
    BY <1>28 DEF ResetCheckpointId, LocalsTyped, DurableTyped, Labels
  <2> QED BY <2>1, <2>2, <2>3
<1>29. ASSUME NEW t \in Threads, CheckpointReturn(t) PROVE TypeOK'
  <2>1. LocksTyped' /\ StorageLocksTyped'
    BY <1>29 DEF CheckpointReturn, CheckpointLock!ReleaseExclusive,
        VacuumLock!ReleaseExclusive, Threads, LocksTyped, StorageLocksTyped
  <2>2. CountersTyped' /\ CollectionsTyped' /\ TransactionsTyped'
    BY <1>29 DEF CheckpointReturn, Threads, CountersTyped, CollectionsTyped,
        TransactionsTyped
  <2>3. LocalsTyped' /\ DurableTyped'
    BY <1>29 DEF CheckpointReturn, LocalsTyped, DurableTyped, Labels
  <2> QED BY <2>1, <2>2, <2>3
<1>30. ASSUME NEW t \in Txns, NEW m \in Mods, SetModifications(t, m) PROVE TypeOK'
  <2>1. LocksTyped' /\ StorageLocksTyped'
    BY <1>30
    DEF SetModifications, CheckpointLock!AcquireShared, VacuumLock!AcquireShared, Threads,
        LocksTyped, StorageLocksTyped
  <2>2. CountersTyped' /\ CollectionsTyped' /\ TransactionsTyped'
    BY <1>30 DEF SetModifications, CountersTyped, CollectionsTyped, TransactionsTyped
  <2>3. LocalsTyped' /\ DurableTyped'
    BY <1>30 DEF SetModifications, LocalsTyped, DurableTyped
  <2> QED BY <2>1, <2>2, <2>3
<1>31. CASE UNCHANGED vars
  BY <1>31 DEF LocksTyped, StorageLocksTyped, CountersTyped, CollectionsTyped,
      TransactionsTyped, LocalsTyped, DurableTyped
<1> QED
  BY <1>1, <1>2, <1>3, <1>4, <1>5, <1>6, <1>7, <1>8, <1>9, <1>10, <1>11, <1>12, <1>13,
      <1>14, <1>15, <1>16, <1>17, <1>18, <1>19, <1>20, <1>21, <1>22, <1>23, <1>24, <1>25,
      <1>26, <1>27, <1>28, <1>29, <1>30, <1>31 DEF Next, EndTransaction, Step, CommitStep,
      CleanupStep, CheckpointStep, Threads

-----------------------------------------------------------------------------
(***************************************************************************)
(* The invariant.                                                           *)
(***************************************************************************)

\* The initial states satisfy the invariant.
LEMMA InitInv == Init => Inv
<1> SUFFICES ASSUME Init PROVE Inv
  OBVIOUS
<1>1. TypeOK
  BY TimestampAssumption, ThreadsAssumption
  DEF Init, TypeOK, LocksTyped, StorageLocksTyped, CountersTyped, CollectionsTyped,
      TransactionsTyped, LocalsTyped, DurableTyped, Labels, CheckpointLock!Init, VacuumLock!Init
<1>2. AwaitingCleanup = {} /\ Recent = {}
  BY DEF Init, AwaitingCleanup, Recent
<1>3. LocksHeld /\ RunningActive /\ OnlyChangesFail
  BY DEF Init, LocksHeld, RunningActive, OnlyChangesFail, Running, Threads
<1>4. Timestamps /\ RemovedIsLatest /\ CheckpointIdCovers
  BY TimestampAssumption DEF Init, Timestamps, RemovedIsLatest, CheckpointIdCovers, Threads
<1>5. Retired /\ CleanupSafe
  BY <1>2 DEF Retired, CleanupSafe
<1>6. LowestActiveStartSafe /\ RecentlyCommittedOrdered
  BY DEF Init, LowestActiveStartSafe, RecentlyCommittedOrdered
<1> QED
  BY <1>1, <1>3, <1>4, <1>5, <1>6 DEF Inv

\* Thread t moves on to label l without touching a transaction or a collection.
Quiet(t, l) ==
    /\ Goto(t, l)
    /\ l \notin {"none", "remove", "set_checkpoint_id"}
    /\ t \in Txns /\ l \in Running => pc[t] \in Running \ {"remove"}
    /\ UNCHANGED <<current_start_timestamp, last_commit, lowest_active_start, collections,
                   start_time, commit_id, mods, cleaning>>
    /\ active_checkpoint' \in {active_checkpoint, MAX_TRANSACTION_ID}
    /\ \A c \in Threads \ {t} : loaded'[c] = loaded[c]

\* Such a step preserves what the invariant says of transactions and collections.
LEMMA QuietStep ==
    ASSUME Inv, NEW t \in Threads, NEW l, Quiet(t, l)
    PROVE  /\ Retired'
           /\ Timestamps'
           /\ RemovedIsLatest'
           /\ CheckpointIdCovers'
           /\ LowestActiveStartSafe'
           /\ RecentlyCommittedOrdered'
           /\ CleanupSafe'
<1> USE DEF Quiet, Goto, collections
<1>1. AwaitingCleanup' = AwaitingCleanup /\ Recent' = Recent
  BY DEF AwaitingCleanup, Recent
<1>2. pc \in [Threads -> Labels]
  BY DEF Inv, TypeOK, LocalsTyped
<1>3. Retired'
  BY <1>1, <1>2 DEF Inv, Retired
<1>4. Timestamps'
  BY <1>2 DEF Inv, Timestamps, Threads
<1>5. RemovedIsLatest'
  BY <1>2 DEF Inv, RemovedIsLatest
<1>6. CheckpointIdCovers'
  BY <1>2 DEF Inv, CheckpointIdCovers
<1>7. LowestActiveStartSafe' /\ RecentlyCommittedOrdered'
  BY DEF Inv, LowestActiveStartSafe, RecentlyCommittedOrdered
<1>8. CleanupSafe'
  BY <1>1 DEF Inv, CleanupSafe
<1> QED
  BY <1>3, <1>4, <1>5, <1>6, <1>7, <1>8

\* The steps that are quiet preserve the invariant.
LEMMA QuietActions ==
    ASSUME Inv, TypeOK',
           \/ \E t \in Threads :
                 \/ CommitTransaction(t)
                 \/ CommitWAL(t)
                 \/ CommitDecide(t)
                 \/ CommitBackpedal(t)
                 \/ CommitBackpedalled(t)
                 \/ CommitUnlockWAL(t)
                 \/ CleanupDone(t)
                 \/ ForceObtainsLock(t)
                 \/ CheckpointLastCommit(t)
                 \/ CheckpointLowestActiveStart(t)
                 \/ CreateCheckpoint(t)
                 \/ WriteTables(t)
                 \/ WALFinishCheckpoint(t)
                 \/ ResetCheckpointId(t)
                 \/ CheckpointReturn(t)
           \/ \E t \in Checkpointers : Checkpoint(t) \/ ForceCheckpoint(t) \/ ForceInterrupted(t)
    PROVE  Inv'
<1> USE DEF Goto, vars, locks, storage_locks, counters, collections, transactions, locals, durable
<1>0. /\ pc \in [Threads -> Labels] /\ error \in [Threads -> BOOLEAN]
      /\ loaded \in [Threads -> Nat] /\ Checkpointers \subseteq Threads /\ Txns \subseteq Threads
      /\ Txns \cap Checkpointers = {} /\ NoThread \notin Threads
  BY ThreadsAssumption DEF Inv, TypeOK, LocalsTyped, Threads
<1>1. ASSUME NEW t \in Threads, CommitTransaction(t) PROVE Inv'
  <2>1. LocksHeld' /\ RunningActive' /\ OnlyChangesFail'
    BY <1>0, <1>1 DEF CommitTransaction, Inv, LocksHeld, RunningActive, OnlyChangesFail,
        Running, ChangesMade
  <2>2. \E l \in Labels : Quiet(t, l)
    BY <1>0, <1>1, ThreadsAssumption DEF CommitTransaction, Quiet, Running, Labels
  <2> QED BY <1>0, <2>1, <2>2, QuietStep DEF Inv
<1>2. ASSUME NEW t \in Threads, CommitWAL(t) PROVE Inv'
  <2>1. LocksHeld' /\ RunningActive' /\ OnlyChangesFail'
    BY <1>0, <1>2 DEF CommitWAL, WriteToWAL, Inv, LocksHeld, RunningActive,
        OnlyChangesFail, Running, ChangesMade
  <2>2. \E l \in Labels : Quiet(t, l)
    BY <1>0, <1>2, ThreadsAssumption DEF CommitWAL, WriteToWAL, Quiet, Running, Labels
  <2> QED BY <1>0, <2>1, <2>2, QuietStep DEF Inv
<1>3. ASSUME NEW t \in Threads, CommitDecide(t) PROVE Inv'
  <2>1. LocksHeld' /\ RunningActive' /\ OnlyChangesFail'
    BY <1>0, <1>3 DEF CommitDecide, Inv, LocksHeld, RunningActive, OnlyChangesFail,
        Running, ChangesMade
  <2>2. \E l \in Labels : Quiet(t, l)
    BY <1>0, <1>3, ThreadsAssumption DEF CommitDecide, Quiet, Running, Labels
  <2> QED BY <1>0, <2>1, <2>2, QuietStep DEF Inv
<1>4. ASSUME NEW t \in Threads, CommitBackpedal(t) PROVE Inv'
  <2>1. LocksHeld' /\ RunningActive' /\ OnlyChangesFail'
    BY <1>0, <1>4 DEF CommitBackpedal, WriteToWAL, Inv, LocksHeld, RunningActive,
        OnlyChangesFail, Running, ChangesMade
  <2>2. \E l \in Labels : Quiet(t, l)
    BY <1>0, <1>4, ThreadsAssumption DEF CommitBackpedal, WriteToWAL, Quiet, Running,
        Labels
  <2> QED BY <1>0, <2>1, <2>2, QuietStep DEF Inv
<1>5. ASSUME NEW t \in Threads, CommitBackpedalled(t) PROVE Inv'
  <2>1. LocksHeld' /\ RunningActive' /\ OnlyChangesFail'
    BY <1>0, <1>5 DEF CommitBackpedalled, Inv, LocksHeld, RunningActive, OnlyChangesFail,
        Running, ChangesMade
  <2>2. \E l \in Labels : Quiet(t, l)
    BY <1>0, <1>5, ThreadsAssumption DEF CommitBackpedalled, Quiet, Running, Labels
  <2> QED BY <1>0, <2>1, <2>2, QuietStep DEF Inv
<1>6. ASSUME NEW t \in Threads, CommitUnlockWAL(t) PROVE Inv'
  <2>1. LocksHeld' /\ RunningActive' /\ OnlyChangesFail'
    BY <1>0, <1>6 DEF CommitUnlockWAL, Inv, LocksHeld, RunningActive, OnlyChangesFail,
        Running, ChangesMade
  <2>2. \E l \in Labels : Quiet(t, l)
    BY <1>0, <1>6, ThreadsAssumption DEF CommitUnlockWAL, Quiet, Running, Labels
  <2> QED BY <1>0, <2>1, <2>2, QuietStep DEF Inv
<1>7. ASSUME NEW t \in Threads, CleanupDone(t) PROVE Inv'
  <2>1. LocksHeld' /\ RunningActive' /\ OnlyChangesFail'
    BY <1>0, <1>7 DEF CleanupDone, Inv, LocksHeld, RunningActive, OnlyChangesFail,
        Running, ChangesMade
  <2>2. \E l \in Labels : Quiet(t, l)
    BY <1>0, <1>7, ThreadsAssumption DEF CleanupDone, Quiet, Running, Labels
  <2> QED BY <1>0, <2>1, <2>2, QuietStep DEF Inv
<1>8. ASSUME NEW t \in Checkpointers, Checkpoint(t) PROVE Inv'
  <2>1. LocksHeld' /\ RunningActive' /\ OnlyChangesFail'
    BY <1>0, <1>8 DEF Checkpoint, Inv, LocksHeld, RunningActive, OnlyChangesFail, Running,
        ChangesMade
  <2>2. \E l \in Labels : Quiet(t, l)
    BY <1>0, <1>8, ThreadsAssumption DEF Checkpoint, Quiet, Running, Labels
  <2> QED BY <1>0, <2>1, <2>2, QuietStep DEF Inv
<1>9. ASSUME NEW t \in Checkpointers, ForceCheckpoint(t) PROVE Inv'
  <2>1. LocksHeld' /\ RunningActive' /\ OnlyChangesFail'
    BY <1>0, <1>9 DEF ForceCheckpoint, Inv, LocksHeld, RunningActive, OnlyChangesFail,
        Running, ChangesMade
  <2>2. \E l \in Labels : Quiet(t, l)
    BY <1>0, <1>9, ThreadsAssumption DEF ForceCheckpoint, Quiet, Running, Labels
  <2> QED BY <1>0, <2>1, <2>2, QuietStep DEF Inv
<1>10. ASSUME NEW t \in Threads, ForceObtainsLock(t) PROVE Inv'
  <2>1. LocksHeld' /\ RunningActive' /\ OnlyChangesFail'
    BY <1>0, <1>10 DEF ForceObtainsLock, Inv, LocksHeld, RunningActive, OnlyChangesFail,
        Running, ChangesMade
  <2>2. \E l \in Labels : Quiet(t, l)
    BY <1>0, <1>10, ThreadsAssumption DEF ForceObtainsLock, Quiet, Running, Labels
  <2> QED BY <1>0, <2>1, <2>2, QuietStep DEF Inv
<1>11. ASSUME NEW t \in Checkpointers, ForceInterrupted(t) PROVE Inv'
  <2>1. LocksHeld' /\ RunningActive' /\ OnlyChangesFail'
    BY <1>0, <1>11 DEF ForceInterrupted, Inv, LocksHeld, RunningActive, OnlyChangesFail,
        Running, ChangesMade
  <2>2. \E l \in Labels : Quiet(t, l)
    BY <1>0, <1>11, ThreadsAssumption DEF ForceInterrupted, Quiet, Running, Labels
  <2> QED BY <1>0, <2>1, <2>2, QuietStep DEF Inv
<1>12. ASSUME NEW t \in Threads, CheckpointLastCommit(t) PROVE Inv'
  <2>1. LocksHeld' /\ RunningActive' /\ OnlyChangesFail'
    BY <1>0, <1>12 DEF CheckpointLastCommit, Inv, LocksHeld, RunningActive,
        OnlyChangesFail, Running, ChangesMade
  <2>2. \E l \in Labels : Quiet(t, l)
    BY <1>0, <1>12, ThreadsAssumption DEF CheckpointLastCommit, Quiet, Running, Labels
  <2> QED BY <1>0, <2>1, <2>2, QuietStep DEF Inv
<1>13. ASSUME NEW t \in Threads, CheckpointLowestActiveStart(t) PROVE Inv'
  <2>1. LocksHeld' /\ RunningActive' /\ OnlyChangesFail'
    BY <1>0, <1>13 DEF CheckpointLowestActiveStart, Inv, LocksHeld, RunningActive,
        OnlyChangesFail, Running, ChangesMade
  <2>2. \E l \in Labels : Quiet(t, l)
    BY <1>0, <1>13, ThreadsAssumption DEF CheckpointLowestActiveStart, Quiet, Running,
        Labels
  <2> QED BY <1>0, <2>1, <2>2, QuietStep DEF Inv
<1>14. ASSUME NEW t \in Threads, CreateCheckpoint(t) PROVE Inv'
  <2>1. LocksHeld' /\ RunningActive' /\ OnlyChangesFail'
    BY <1>0, <1>14 DEF CreateCheckpoint, Inv, LocksHeld, RunningActive, OnlyChangesFail,
        Running, ChangesMade
  <2>2. \E l \in Labels : Quiet(t, l)
    BY <1>0, <1>14, ThreadsAssumption DEF CreateCheckpoint, Quiet, Running, Labels
  <2> QED BY <1>0, <2>1, <2>2, QuietStep DEF Inv
<1>15. ASSUME NEW t \in Threads, WriteTables(t) PROVE Inv'
  <2>1. LocksHeld' /\ RunningActive' /\ OnlyChangesFail'
    BY <1>0, <1>15 DEF WriteTables, Inv, LocksHeld, RunningActive, OnlyChangesFail,
        Running, ChangesMade
  <2>2. \E l \in Labels : Quiet(t, l)
    BY <1>0, <1>15, ThreadsAssumption DEF WriteTables, Quiet, Running, Labels
  <2> QED BY <1>0, <2>1, <2>2, QuietStep DEF Inv
<1>16. ASSUME NEW t \in Threads, WALFinishCheckpoint(t) PROVE Inv'
  <2>1. LocksHeld' /\ RunningActive' /\ OnlyChangesFail'
    BY <1>0, <1>16 DEF WALFinishCheckpoint, Inv, LocksHeld, RunningActive,
        OnlyChangesFail, Running, ChangesMade
  <2>2. \E l \in Labels : Quiet(t, l)
    BY <1>0, <1>16, ThreadsAssumption DEF WALFinishCheckpoint, Quiet, Running, Labels
  <2> QED BY <1>0, <2>1, <2>2, QuietStep DEF Inv
<1>17. ASSUME NEW t \in Threads, ResetCheckpointId(t) PROVE Inv'
  <2>1. LocksHeld' /\ RunningActive' /\ OnlyChangesFail'
    BY <1>0, <1>17 DEF ResetCheckpointId, Inv, LocksHeld, RunningActive, OnlyChangesFail,
        Running, ChangesMade
  <2>2. \E l \in Labels : Quiet(t, l)
    BY <1>0, <1>17, ThreadsAssumption DEF ResetCheckpointId, Quiet, Running, Labels
  <2> QED BY <1>0, <2>1, <2>2, QuietStep DEF Inv
<1>18. ASSUME NEW t \in Threads, CheckpointReturn(t) PROVE Inv'
  <2>1. LocksHeld' /\ RunningActive' /\ OnlyChangesFail'
    BY <1>0, <1>18 DEF CheckpointReturn, Inv, LocksHeld, RunningActive, OnlyChangesFail,
        Running, ChangesMade
  <2>2. \E l \in Labels : Quiet(t, l)
    BY <1>0, <1>18, ThreadsAssumption DEF CheckpointReturn, Quiet, Running, Labels
  <2> QED BY <1>0, <2>1, <2>2, QuietStep DEF Inv
<1> QED BY <1>1, <1>2, <1>3, <1>4, <1>5, <1>6, <1>7, <1>8, <1>9, <1>10, <1>11, <1>12, <1>13,
           <1>14, <1>15, <1>16, <1>17, <1>18

\* Whatever awaits cleanup or is recently committed is a thread.
LEMMA RetiredThreads ==
    ASSUME TypeOK
    PROVE  AwaitingCleanup \cup Recent \subseteq Threads
BY DEF TypeOK, CollectionsTyped, AwaitingCleanup, Recent

\* The start of a transaction preserves the invariant.
LEMMA StartStep ==
    ASSUME Inv, TypeOK', NEW t \in Threads, NEW ro \in BOOLEAN, NEW l \in {"active", "write_tables"},
           StartTransaction(t, ro, l),
           pc[t] \in {"none", "bind"},
           IF t \in Txns THEN pc[t] = "none" /\ l = "active" ELSE l = "write_tables"
    PROVE  Inv'
<1> USE DEF StartTransaction, Goto, locks, storage_locks, counters, collections, transactions, locals, durable
<1>0. /\ pc \in [Threads -> Labels] /\ error \in [Threads -> BOOLEAN]
      /\ loaded \in [Threads -> Nat] /\ mods \in [Threads -> SUBSET Mods]
      /\ start_time \in [Threads -> Nat] /\ commit_id \in [Threads -> Nat]
      /\ current_start_timestamp \in Nat /\ last_commit \in Nat /\ lowest_active_start \in Nat
      /\ active_checkpoint \in Nat /\ active_transactions \subseteq Threads
      /\ Checkpointers \subseteq Threads /\ Txns \subseteq Threads /\ NoThread \notin Threads
      /\ Txns \cap Checkpointers = {}
  BY ThreadsAssumption
  DEF Inv, TypeOK, LocalsTyped, TransactionsTyped, CountersTyped, CollectionsTyped, Threads
<1>1. AwaitingCleanup' = AwaitingCleanup /\ Recent' = Recent
  BY DEF StartTransaction, AwaitingCleanup, Recent
<1>2. LocksHeld' /\ RunningActive' /\ OnlyChangesFail'
  BY <1>0 DEF Inv, LocksHeld, RunningActive, OnlyChangesFail, Running, ChangesMade
<1>3. t \notin AwaitingCleanup \cup Recent
  BY <1>0 DEF Inv, Retired, RunningActive, Threads
<1>4. Retired'
  BY <1>0, <1>1, <1>3 DEF Inv, Retired
<1>5. Timestamps'
  BY <1>0 DEF Inv, Timestamps, Running, Threads
<1>6. RemovedIsLatest' /\ CheckpointIdCovers' /\ RecentlyCommittedOrdered'
  BY <1>0 DEF Inv, RemovedIsLatest, CheckpointIdCovers, RecentlyCommittedOrdered
<1>7. LowestActiveStartSafe'
  <2>1. \A a \in active_transactions : start_time[a] < current_start_timestamp
    BY <1>0 DEF Inv, Timestamps
  <2>2. lowest_active_start' <= current_start_timestamp
    BY <1>0, <2>1 DEF Inv, LowestActiveStartSafe
  <2>3. \A a \in active_transactions : lowest_active_start' <= start_time[a]
    BY <1>0 DEF Inv, LowestActiveStartSafe
  <2> QED BY <1>0, <2>2, <2>3 DEF LowestActiveStartSafe
<1>8. CleanupSafe'
  <2>1. \A d \in AwaitingCleanup : d \in Threads /\ commit_id[d] < current_start_timestamp
    BY RetiredThreads DEF Inv, Timestamps
  <2> QED BY <1>0, <1>1, <2>1 DEF Inv, CleanupSafe
<1> QED
  BY <1>2, <1>4, <1>5, <1>6, <1>7, <1>8 DEF Inv

\* A modification preserves the invariant.
LEMMA ModifyStep ==
    ASSUME Inv, TypeOK', NEW t \in Txns, NEW m \in Mods, Modify(t, m)
    PROVE  Inv'
<1> USE DEF Modify, Goto, locks, storage_locks, counters, collections, transactions, locals, durable
<1>0. /\ pc \in [Threads -> Labels] /\ error \in [Threads -> BOOLEAN]
      /\ loaded \in [Threads -> Nat] /\ mods \in [Threads -> SUBSET Mods]
      /\ start_time \in [Threads -> Nat] /\ commit_id \in [Threads -> Nat]
      /\ current_start_timestamp \in Nat /\ last_commit \in Nat /\ lowest_active_start \in Nat
      /\ active_checkpoint \in Nat /\ active_transactions \subseteq Threads
      /\ Checkpointers \subseteq Threads /\ Txns \subseteq Threads /\ NoThread \notin Threads
      /\ Txns \cap Checkpointers = {}
  BY ThreadsAssumption
  DEF Inv, TypeOK, LocalsTyped, TransactionsTyped, CountersTyped, CollectionsTyped, Threads
<1>1. AwaitingCleanup' = AwaitingCleanup /\ Recent' = Recent
  BY DEF Modify, AwaitingCleanup, Recent
<1>2. LocksHeld' /\ RunningActive' /\ OnlyChangesFail'
  BY <1>0 DEF Inv, LocksHeld, RunningActive, OnlyChangesFail, Running, ChangesMade
<1>3. t \notin AwaitingCleanup \cup Recent /\ commit_id[t] = 0
  BY <1>0 DEF Inv, Retired, RunningActive, Timestamps, Running
<1>4. Retired'
  BY <1>0, <1>1, <1>3 DEF Inv, Retired
<1>5. Timestamps' /\ RemovedIsLatest' /\ RecentlyCommittedOrdered' /\ LowestActiveStartSafe'
  BY <1>0 DEF Inv, Timestamps, RemovedIsLatest, RecentlyCommittedOrdered, LowestActiveStartSafe
<1>6. CheckpointIdCovers'
  BY <1>0, <1>3 DEF Inv, CheckpointIdCovers
<1>7. CleanupSafe'
  BY <1>0, <1>1, <1>3 DEF Inv, CleanupSafe
<1> QED
  BY <1>2, <1>4, <1>5, <1>6, <1>7 DEF Inv

\* A successful commit preserves the invariant: its commit_id is above all others,
\* and nobody is between the two halves of WALStartCheckpoint.
LEMMA CommitSucceedsStep ==
    ASSUME Inv, TypeOK', NEW t \in Threads, CommitSucceeds(t)
    PROVE  Inv'
<1> USE DEF CommitSucceeds, Goto, locks, storage_locks, counters, collections, transactions, locals, durable
<1>0. /\ pc \in [Threads -> Labels] /\ error \in [Threads -> BOOLEAN]
      /\ loaded \in [Threads -> Nat] /\ mods \in [Threads -> SUBSET Mods]
      /\ start_time \in [Threads -> Nat] /\ commit_id \in [Threads -> Nat]
      /\ current_start_timestamp \in Nat /\ last_commit \in Nat /\ lowest_active_start \in Nat
      /\ active_checkpoint \in Nat /\ active_transactions \subseteq Threads
      /\ Checkpointers \subseteq Threads /\ Txns \subseteq Threads /\ NoThread \notin Threads
      /\ Txns \cap Checkpointers = {}
  BY ThreadsAssumption
  DEF Inv, TypeOK, LocalsTyped, TransactionsTyped, CountersTyped, CollectionsTyped, Threads
<1>1. AwaitingCleanup' = AwaitingCleanup /\ Recent' = Recent
  BY DEF CommitSucceeds, AwaitingCleanup, Recent
<1>2. LocksHeld' /\ RunningActive' /\ OnlyChangesFail'
  BY <1>0 DEF Inv, LocksHeld, RunningActive, OnlyChangesFail, Running, ChangesMade
<1>3. t \notin AwaitingCleanup \cup Recent
  BY <1>0 DEF Inv, Retired, RunningActive, Running
<1>4. AwaitingCleanup \cup Recent \subseteq Threads
  BY RetiredThreads DEF Inv
<1>5. Retired'
  BY <1>0, <1>1, <1>3 DEF Inv, Retired
<1>6. Timestamps'
  BY <1>0 DEF Inv, Timestamps, Running
<1>7. RemovedIsLatest'
  BY <1>0 DEF Inv, RemovedIsLatest, Timestamps, LocksHeld
<1>8. CheckpointIdCovers'
  BY <1>0 DEF Inv, CheckpointIdCovers, LocksHeld
<1>9. LowestActiveStartSafe'
  BY <1>0 DEF Inv, LowestActiveStartSafe
<1>10. RecentlyCommittedOrdered'
  BY <1>0, <1>3, <1>4 DEF Inv, RecentlyCommittedOrdered, Recent
<1>11. CleanupSafe'
  BY <1>0, <1>1, <1>3, <1>4 DEF Inv, CleanupSafe
<1> QED
  BY <1>2, <1>5, <1>6, <1>7, <1>8, <1>9, <1>10, <1>11 DEF Inv

\* A failed commit preserves the invariant.
LEMMA CommitFailsStep ==
    ASSUME Inv, TypeOK', NEW t \in Threads, CommitFails(t)
    PROVE  Inv'
<1> USE DEF CommitFails, Goto, locks, storage_locks, counters, collections, transactions, locals, durable
<1>0. /\ pc \in [Threads -> Labels] /\ error \in [Threads -> BOOLEAN]
      /\ loaded \in [Threads -> Nat] /\ mods \in [Threads -> SUBSET Mods]
      /\ start_time \in [Threads -> Nat] /\ commit_id \in [Threads -> Nat]
      /\ current_start_timestamp \in Nat /\ last_commit \in Nat /\ lowest_active_start \in Nat
      /\ active_checkpoint \in Nat /\ active_transactions \subseteq Threads
      /\ Checkpointers \subseteq Threads /\ Txns \subseteq Threads /\ NoThread \notin Threads
      /\ Txns \cap Checkpointers = {}
  BY ThreadsAssumption
  DEF Inv, TypeOK, LocalsTyped, TransactionsTyped, CountersTyped, CollectionsTyped, Threads
<1>1. AwaitingCleanup' = AwaitingCleanup /\ Recent' = Recent
  BY DEF CommitFails, AwaitingCleanup, Recent
<1>2. LocksHeld' /\ RunningActive' /\ OnlyChangesFail'
  BY <1>0 DEF Inv, LocksHeld, RunningActive, OnlyChangesFail, Running, ChangesMade
<1>3. t \in Txns /\ commit_id[t] = 0
  BY <1>0 DEF Inv, RunningActive, Timestamps, Running, ChangesMade, Threads
<1>4. Retired'
  BY <1>0, <1>1 DEF Inv, Retired
<1>5. Timestamps' /\ RemovedIsLatest'
  BY <1>0, <1>3 DEF Inv, Timestamps, RemovedIsLatest, Running
<1>6. CheckpointIdCovers' /\ LowestActiveStartSafe' /\ RecentlyCommittedOrdered'
  BY <1>0 DEF Inv, CheckpointIdCovers, LowestActiveStartSafe, RecentlyCommittedOrdered
<1>7. CleanupSafe'
  BY <1>0, <1>1 DEF Inv, CleanupSafe
<1> QED
  BY <1>2, <1>4, <1>5, <1>6, <1>7 DEF Inv

\* A removal keeps recently_committed in order: a prefix is dropped, and the
\* transaction that is added has the highest commit_id.
LEMMA RemovalOrdered ==
    ASSUME TypeOK, NEW t \in Threads, NEW store \in BOOLEAN, RemoveTransaction(t, store),
           commit_id' = commit_id, RecentlyCommittedOrdered,
           store /\ commit_id[t] # 0 => \A d \in Recent : commit_id[d] < commit_id[t]
    PROVE  RecentlyCommittedOrdered'
<1> DEFINE keep == store /\ commit_id[t] # 0
           rc == IF keep THEN PushRecentlyCommitted(t) ELSE recently_committed
           n == ReleasedCount(rc, LowestStartTime(t))
<1>1. recently_committed' = SubSeq(rc, n + 1, Len(rc))
  BY DEF RemoveTransaction
<1>2. recently_committed \in Seq(Threads) /\ DOMAIN recently_committed = 1 .. Len(recently_committed)
  BY DEF TypeOK, CollectionsTyped
<1>3. /\ rc \in Seq(Threads)
      /\ \A i, j \in 1 .. Len(rc) : i < j => commit_id[rc[i]] < commit_id[rc[j]]
  <2>1. CASE keep
    <3>1. rc = Append(recently_committed, t)
      BY <2>1 DEF PushRecentlyCommitted
    <3>2. \A i \in 1 .. Len(recently_committed) : commit_id[recently_committed[i]] < commit_id[t]
      BY <1>2, <2>1 DEF Recent
    <3> HIDE DEF rc, keep
    <3> QED BY <1>2, <3>1, <3>2 DEF RecentlyCommittedOrdered
  <2>2. CASE ~keep
    <3>1. rc = recently_committed
      BY <2>2
    <3> HIDE DEF rc, keep
    <3> QED BY <1>2, <3>1 DEF RecentlyCommittedOrdered
  <2> QED BY <2>1, <2>2
<1>4. n \in 0 .. Len(rc)
  <2> HIDE DEF rc
  <2> QED BY <1>3, LowestStartTimeBounds, ReleasedCountBounds DEF n
<1> HIDE DEF rc, n, keep
<1>5. /\ DOMAIN recently_committed' = 1 .. Len(rc) - n
      /\ \A i \in 1 .. Len(rc) - n : recently_committed'[i] = rc[i + n]
  BY <1>1, <1>3, <1>4
<1>6. ASSUME NEW i \in DOMAIN recently_committed', NEW j \in DOMAIN recently_committed', i < j
      PROVE  commit_id[recently_committed'[i]] < commit_id[recently_committed'[j]]
  <2>1. /\ i + n \in 1 .. Len(rc) /\ j + n \in 1 .. Len(rc) /\ i + n < j + n
        /\ recently_committed'[i] = rc[i + n] /\ recently_committed'[j] = rc[j + n]
    BY <1>3, <1>4, <1>5, <1>6
  <2> QED BY <1>3, <2>1
<1> QED
  BY <1>6 DEF RecentlyCommittedOrdered

\* A removal preserves what the invariant says of transactions and collections.
LEMMA RemovalStep ==
    ASSUME Inv, NEW t \in Threads, NEW store \in BOOLEAN, RemoveTransaction(t, store),
           NEW l \in {"unlock_wal", "cleanup"}, Goto(t, l),
           t \in active_transactions, pc[t] # "none",
           store => mods[t] # {},
           store /\ commit_id[t] # 0 => pc[t] = "remove",
           ~store /\ commit_id[t] # 0 => mods[t] \cap Stored = {},
           UNCHANGED <<current_start_timestamp, last_commit, active_checkpoint, transactions,
                       loaded, cleaning>>
    PROVE  /\ Retired'
           /\ Timestamps'
           /\ RemovedIsLatest'
           /\ CheckpointIdCovers'
           /\ LowestActiveStartSafe'
           /\ RecentlyCommittedOrdered'
           /\ CleanupSafe'
<1> USE DEF Goto, transactions
<1>0. /\ pc \in [Threads -> Labels] /\ error \in [Threads -> BOOLEAN]
      /\ loaded \in [Threads -> Nat] /\ mods \in [Threads -> SUBSET Mods]
      /\ start_time \in [Threads -> Nat] /\ commit_id \in [Threads -> Nat]
      /\ current_start_timestamp \in Nat /\ last_commit \in Nat /\ lowest_active_start \in Nat
      /\ active_checkpoint \in Nat /\ active_transactions \subseteq Threads
      /\ Checkpointers \subseteq Threads /\ Txns \subseteq Threads /\ NoThread \notin Threads
      /\ Txns \cap Checkpointers = {}
  BY ThreadsAssumption
  DEF Inv, TypeOK, LocalsTyped, TransactionsTyped, CountersTyped, CollectionsTyped, Threads
<1>1. AwaitingCleanup \cup Recent \subseteq Threads /\ t \notin AwaitingCleanup \cup Recent
  BY RetiredThreads DEF Inv, Retired
<1> DEFINE lowest == LowestStartTime(t)
           keep == store /\ commit_id[t] # 0
<1>2. /\ lowest \in Nat
      /\ \A a \in active_transactions \ {t} : lowest <= start_time[a]
      /\ active_checkpoint # MAX_TRANSACTION_ID => lowest <= active_checkpoint
  BY LowestStartTimeBounds DEF Inv
<1> HIDE DEF lowest
<1>3. /\ active_transactions' = active_transactions \ {t}
      /\ lowest_active_start' = lowest
  BY RemovalEffect DEF Inv, lowest
<1>4. ASSUME NEW d \in Recent' PROVE d \in Recent \/ (d = t /\ keep)
  BY RemovalEffect DEF Inv, Recent
<1>5. ASSUME NEW d \in AwaitingCleanup'
      PROVE  \/ d \in AwaitingCleanup
             \/ d = t /\ mods[t] # {} /\ ~keep
             \/ (d \in Recent \/ (d = t /\ keep)) /\ commit_id[d] < lowest
  BY RemovalEffect DEF Inv, AwaitingCleanup, lowest
<1>6. Retired'
  BY <1>0, <1>1, <1>3, <1>4, <1>5 DEF Inv, Retired
<1>7. Timestamps' /\ RemovedIsLatest' /\ CheckpointIdCovers'
  BY <1>0 DEF Inv, Timestamps, RemovedIsLatest, CheckpointIdCovers, Running
<1>8. LowestActiveStartSafe'
  BY <1>2, <1>3 DEF LowestActiveStartSafe
<1>9. RecentlyCommittedOrdered'
  <2>1. keep => \A d \in Recent : commit_id[d] < commit_id[t]
    BY <1>1 DEF Inv, RemovedIsLatest
  <2> QED BY <2>1, RemovalOrdered DEF Inv
<1>10. CleanupSafe'
  <2> SUFFICES ASSUME NEW d \in AwaitingCleanup', commit_id[d] # 0, mods[d] \cap Stored # {}
               PROVE  /\ \A a \in active_transactions \ {t} : commit_id[d] < start_time[a]
                      /\ active_checkpoint # MAX_TRANSACTION_ID => commit_id[d] <= active_checkpoint
    BY <1>3 DEF CleanupSafe
  <2>1. CASE d \in AwaitingCleanup
    BY <2>1 DEF Inv, CleanupSafe
  <2>2. CASE commit_id[d] < lowest
    <3>1. d \in Threads
      BY DEF AwaitingCleanup
    <3> QED BY <1>0, <1>2, <2>2, <3>1
  <2>3. ~(d = t /\ ~keep)
    OBVIOUS
  <2> QED BY <1>5, <2>1, <2>2, <2>3
<1> QED
  BY <1>6, <1>7, <1>8, <1>9, <1>10

\* The end of a commit preserves the invariant.
LEMMA CommitRemoveStep ==
    ASSUME Inv, TypeOK', NEW t \in Threads, CommitRemove(t)
    PROVE  Inv'
<1> USE DEF CommitRemove, Goto, locks, storage_locks, counters, collections, transactions, locals, durable
<1>0. /\ pc \in [Threads -> Labels] /\ error \in [Threads -> BOOLEAN]
      /\ loaded \in [Threads -> Nat] /\ mods \in [Threads -> SUBSET Mods]
      /\ start_time \in [Threads -> Nat] /\ commit_id \in [Threads -> Nat]
      /\ current_start_timestamp \in Nat /\ last_commit \in Nat /\ lowest_active_start \in Nat
      /\ active_checkpoint \in Nat /\ active_transactions \subseteq Threads
      /\ Checkpointers \subseteq Threads /\ Txns \subseteq Threads /\ NoThread \notin Threads
      /\ Txns \cap Checkpointers = {}
  BY ThreadsAssumption
  DEF Inv, TypeOK, LocalsTyped, TransactionsTyped, CountersTyped, CollectionsTyped, Threads
<1> DEFINE store == mods[t] \cap Stored # {} \/ error[t]
<1>1. store \in BOOLEAN /\ RemoveTransaction(t, store)
  BY <1>0
<1>2. t \in active_transactions /\ active_transactions' = active_transactions \ {t}
  BY <1>0, <1>1, RemovalEffect DEF Inv, RunningActive, Running
<1>3. LocksHeld' /\ RunningActive' /\ OnlyChangesFail'
  BY <1>0, <1>2 DEF Inv, LocksHeld, RunningActive, OnlyChangesFail, Running, ChangesMade
<1>4. store => mods[t] # {}
  BY DEF Inv, OnlyChangesFail
<1>5. /\ Retired' /\ Timestamps' /\ RemovedIsLatest' /\ CheckpointIdCovers'
      /\ LowestActiveStartSafe' /\ RecentlyCommittedOrdered' /\ CleanupSafe'
  BY <1>0, <1>1, <1>2, <1>4, RemovalStep
<1> QED
  BY <1>3, <1>5 DEF Inv

\* A rollback preserves the invariant.
LEMMA RollbackStep ==
    ASSUME Inv, TypeOK', NEW t \in Threads, RollbackTransaction(t)
    PROVE  Inv'
<1> USE DEF RollbackTransaction, Goto, locks, storage_locks, counters, collections, transactions, locals, durable
<1>0. /\ pc \in [Threads -> Labels] /\ error \in [Threads -> BOOLEAN]
      /\ loaded \in [Threads -> Nat] /\ mods \in [Threads -> SUBSET Mods]
      /\ start_time \in [Threads -> Nat] /\ commit_id \in [Threads -> Nat]
      /\ current_start_timestamp \in Nat /\ last_commit \in Nat /\ lowest_active_start \in Nat
      /\ active_checkpoint \in Nat /\ active_transactions \subseteq Threads
      /\ Checkpointers \subseteq Threads /\ Txns \subseteq Threads /\ NoThread \notin Threads
      /\ Txns \cap Checkpointers = {}
  BY ThreadsAssumption
  DEF Inv, TypeOK, LocalsTyped, TransactionsTyped, CountersTyped, CollectionsTyped, Threads
<1> DEFINE store == ChangesMade(t)
<1>1. store \in BOOLEAN /\ RemoveTransaction(t, store)
  BY DEF ChangesMade
<1>2. t \in active_transactions /\ active_transactions' = active_transactions \ {t}
  BY <1>0, <1>1, RemovalEffect DEF Inv, RunningActive, Running
<1>3. LocksHeld' /\ RunningActive' /\ OnlyChangesFail'
  BY <1>0, <1>2 DEF Inv, LocksHeld, RunningActive, OnlyChangesFail, Running, ChangesMade
<1>4. (store => mods[t] # {}) /\ commit_id[t] = 0
  BY <1>0 DEF Inv, ChangesMade, Timestamps, Running
<1>5. /\ Retired' /\ Timestamps' /\ RemovedIsLatest' /\ CheckpointIdCovers'
      /\ LowestActiveStartSafe' /\ RecentlyCommittedOrdered' /\ CleanupSafe'
  BY <1>0, <1>1, <1>2, <1>4, RemovalStep
<1> QED
  BY <1>3, <1>5 DEF Inv

\* Taking a batch from the cleanup queue preserves the invariant.
LEMMA CleanupPopStep ==
    ASSUME Inv, TypeOK', NEW t \in Threads, CleanupPop(t)
    PROVE  Inv'
<1> USE DEF CleanupPop, Goto, locks, storage_locks, counters, collections, transactions, locals, durable
<1>0. /\ pc \in [Threads -> Labels] /\ error \in [Threads -> BOOLEAN]
      /\ loaded \in [Threads -> Nat] /\ mods \in [Threads -> SUBSET Mods]
      /\ start_time \in [Threads -> Nat] /\ commit_id \in [Threads -> Nat]
      /\ current_start_timestamp \in Nat /\ last_commit \in Nat /\ lowest_active_start \in Nat
      /\ active_checkpoint \in Nat /\ active_transactions \subseteq Threads
      /\ Checkpointers \subseteq Threads /\ Txns \subseteq Threads /\ NoThread \notin Threads
      /\ Txns \cap Checkpointers = {}
  BY ThreadsAssumption
  DEF Inv, TypeOK, LocalsTyped, TransactionsTyped, CountersTyped, CollectionsTyped, Threads
<1>1. AwaitingCleanup' \subseteq AwaitingCleanup /\ Recent' = Recent
  <2>1. Recent' = Recent
    BY DEF Recent
  <2>2. cleaning \in [Threads -> SUBSET Threads] /\ cleanup_queue \in Seq(CleanupInfos)
    BY DEF Inv, TypeOK, LocalsTyped, CollectionsTyped
  <2>3. /\ Head(cleanup_queue) = cleanup_queue[1] /\ 1 \in DOMAIN cleanup_queue
        /\ \A i \in DOMAIN cleanup_queue' : /\ i + 1 \in DOMAIN cleanup_queue
                                            /\ cleanup_queue'[i] = cleanup_queue[i + 1]
    BY <2>2
  <2> QED BY <2>1, <2>2, <2>3 DEF AwaitingCleanup
<1>2. LocksHeld' /\ RunningActive' /\ OnlyChangesFail'
  BY <1>0 DEF Inv, LocksHeld, RunningActive, OnlyChangesFail, Running, ChangesMade
<1>3. Retired'
  BY <1>0, <1>1 DEF Inv, Retired
<1>4. Timestamps' /\ RemovedIsLatest' /\ CheckpointIdCovers'
  BY <1>0 DEF Inv, Timestamps, RemovedIsLatest, CheckpointIdCovers, Running
<1>5. LowestActiveStartSafe' /\ RecentlyCommittedOrdered'
  BY DEF Inv, LowestActiveStartSafe, RecentlyCommittedOrdered
<1>6. CleanupSafe'
  BY <1>1 DEF Inv, CleanupSafe
<1> QED
  BY <1>2, <1>3, <1>4, <1>5, <1>6 DEF Inv

\* Cleaning up a batch preserves the invariant.
LEMMA CleanupRunStep ==
    ASSUME Inv, TypeOK', NEW t \in Threads, CleanupRun(t)
    PROVE  Inv'
<1> USE DEF CleanupRun, Goto, locks, storage_locks, counters, collections, transactions, locals, durable
<1>0. /\ pc \in [Threads -> Labels] /\ error \in [Threads -> BOOLEAN]
      /\ loaded \in [Threads -> Nat] /\ mods \in [Threads -> SUBSET Mods]
      /\ start_time \in [Threads -> Nat] /\ commit_id \in [Threads -> Nat]
      /\ current_start_timestamp \in Nat /\ last_commit \in Nat /\ lowest_active_start \in Nat
      /\ active_checkpoint \in Nat /\ active_transactions \subseteq Threads
      /\ Checkpointers \subseteq Threads /\ Txns \subseteq Threads /\ NoThread \notin Threads
      /\ Txns \cap Checkpointers = {}
  BY ThreadsAssumption
  DEF Inv, TypeOK, LocalsTyped, TransactionsTyped, CountersTyped, CollectionsTyped, Threads
<1>1. AwaitingCleanup' \subseteq AwaitingCleanup /\ Recent' = Recent
  <2>1. cleaning \in [Threads -> SUBSET Threads]
    BY DEF Inv, TypeOK, LocalsTyped
  <2> QED BY <2>1 DEF AwaitingCleanup, Recent
<1>2. LocksHeld' /\ RunningActive' /\ OnlyChangesFail'
  BY <1>0 DEF Inv, LocksHeld, RunningActive, OnlyChangesFail, Running, ChangesMade
<1>3. Retired'
  BY <1>0, <1>1 DEF Inv, Retired
<1>4. Timestamps' /\ RemovedIsLatest' /\ CheckpointIdCovers'
  BY <1>0 DEF Inv, Timestamps, RemovedIsLatest, CheckpointIdCovers, Running
<1>5. LowestActiveStartSafe' /\ RecentlyCommittedOrdered'
  BY DEF Inv, LowestActiveStartSafe, RecentlyCommittedOrdered
<1>6. CleanupSafe'
  BY <1>1 DEF Inv, CleanupSafe
<1> QED
  BY <1>2, <1>3, <1>4, <1>5, <1>6 DEF Inv

\* Reading last_commit under the WAL lock preserves the invariant: it covers every commit.
LEMMA WALStartCheckpointStep ==
    ASSUME Inv, TypeOK', NEW t \in Threads, WALStartCheckpoint(t)
    PROVE  Inv'
<1> USE DEF WALStartCheckpoint, Goto, locks, storage_locks, counters, collections, transactions, locals, durable
<1>0. /\ pc \in [Threads -> Labels] /\ error \in [Threads -> BOOLEAN]
      /\ loaded \in [Threads -> Nat] /\ mods \in [Threads -> SUBSET Mods]
      /\ start_time \in [Threads -> Nat] /\ commit_id \in [Threads -> Nat]
      /\ current_start_timestamp \in Nat /\ last_commit \in Nat /\ lowest_active_start \in Nat
      /\ active_checkpoint \in Nat /\ active_transactions \subseteq Threads
      /\ Checkpointers \subseteq Threads /\ Txns \subseteq Threads /\ NoThread \notin Threads
      /\ Txns \cap Checkpointers = {}
  BY ThreadsAssumption
  DEF Inv, TypeOK, LocalsTyped, TransactionsTyped, CountersTyped, CollectionsTyped, Threads
<1>1. AwaitingCleanup' = AwaitingCleanup /\ Recent' = Recent
  BY DEF WALStartCheckpoint, AwaitingCleanup, Recent
<1>2. LocksHeld' /\ RunningActive' /\ OnlyChangesFail'
  BY <1>0 DEF Inv, LocksHeld, RunningActive, OnlyChangesFail, Running, ChangesMade
<1>3. Retired'
  BY <1>0, <1>1 DEF Inv, Retired
<1>4. Timestamps' /\ RemovedIsLatest'
  BY <1>0 DEF Inv, Timestamps, RemovedIsLatest, Running
<1>5. CheckpointIdCovers'
  BY <1>0 DEF Inv, CheckpointIdCovers, Timestamps
<1>6. LowestActiveStartSafe' /\ RecentlyCommittedOrdered'
  BY DEF Inv, LowestActiveStartSafe, RecentlyCommittedOrdered
<1>7. CleanupSafe'
  BY <1>1 DEF Inv, CleanupSafe
<1> QED
  BY <1>2, <1>3, <1>4, <1>5, <1>6, <1>7 DEF Inv

\* Publishing the checkpoint id preserves the invariant.
LEMMA SetCheckpointIdStep ==
    ASSUME Inv, TypeOK', NEW t \in Threads, SetCheckpointId(t)
    PROVE  Inv'
<1> USE DEF SetCheckpointId, Goto, locks, storage_locks, counters, collections, transactions, locals, durable
<1>0. /\ pc \in [Threads -> Labels] /\ error \in [Threads -> BOOLEAN]
      /\ loaded \in [Threads -> Nat] /\ mods \in [Threads -> SUBSET Mods]
      /\ start_time \in [Threads -> Nat] /\ commit_id \in [Threads -> Nat]
      /\ current_start_timestamp \in Nat /\ last_commit \in Nat /\ lowest_active_start \in Nat
      /\ active_checkpoint \in Nat /\ active_transactions \subseteq Threads
      /\ Checkpointers \subseteq Threads /\ Txns \subseteq Threads /\ NoThread \notin Threads
      /\ Txns \cap Checkpointers = {}
  BY ThreadsAssumption
  DEF Inv, TypeOK, LocalsTyped, TransactionsTyped, CountersTyped, CollectionsTyped, Threads
<1>1. AwaitingCleanup' = AwaitingCleanup /\ Recent' = Recent
  BY DEF SetCheckpointId, AwaitingCleanup, Recent
<1>2. LocksHeld' /\ RunningActive' /\ OnlyChangesFail'
  BY <1>0 DEF Inv, LocksHeld, RunningActive, OnlyChangesFail, Running, ChangesMade
<1>3. Retired'
  BY <1>0, <1>1 DEF Inv, Retired
<1>4. Timestamps' /\ RemovedIsLatest'
  BY <1>0 DEF Inv, Timestamps, RemovedIsLatest, Running
<1>5. CheckpointIdCovers'
  BY <1>0 DEF Inv, CheckpointIdCovers, Timestamps
<1>6. LowestActiveStartSafe' /\ RecentlyCommittedOrdered'
  BY DEF Inv, LowestActiveStartSafe, RecentlyCommittedOrdered
<1>7. CleanupSafe'
  <2>1. \A d \in AwaitingCleanup : d \in Threads /\ mods[d] # {}
    BY DEF Inv, Retired, AwaitingCleanup
  <2>2. \A d \in AwaitingCleanup : commit_id[d] <= loaded[t]
    BY <2>1 DEF Inv, CheckpointIdCovers
  <2> QED BY <1>1, <2>2 DEF Inv, CleanupSafe
<1> QED
  BY <1>2, <1>3, <1>4, <1>5, <1>6, <1>7 DEF Inv

\* Every step preserves the invariant.
LEMMA StepInv == Inv /\ [Next]_vars => Inv'
<1> SUFFICES ASSUME Inv, [Next]_vars PROVE Inv'
  OBVIOUS
<1>1. TypeOK'
  BY TypeStep DEF Inv
<1>2. ASSUME NEW t \in Txns, Begin(t) PROVE Inv'
  <2>1. PICK ro \in BOOLEAN : StartTransaction(t, ro, "active")
    BY <1>2 DEF Begin
  <2> QED BY <1>1, <1>2, <2>1, StartStep DEF Begin, Threads
<1>3. ASSUME NEW t \in Threads, CheckpointBind(t) PROVE Inv'
  <2>1. t \notin Txns
    BY <1>3 DEF CheckpointBind, Inv, RunningActive
  <2> QED BY <1>1, <1>3, <2>1, StartStep DEF CheckpointBind
<1>4. ASSUME NEW t \in Txns, NEW m \in Mods, Modify(t, m) PROVE Inv'
  BY <1>1, <1>4, ModifyStep
<1>5. ASSUME NEW t \in Threads,
             \/ CommitSucceeds(t) \/ CommitFails(t) \/ CommitRemove(t) \/ RollbackTransaction(t)
             \/ CleanupPop(t) \/ CleanupRun(t) \/ WALStartCheckpoint(t) \/ SetCheckpointId(t)
      PROVE  Inv'
  BY <1>1, <1>5, CommitSucceedsStep, CommitFailsStep, CommitRemoveStep, RollbackStep,
     CleanupPopStep, CleanupRunStep, WALStartCheckpointStep, SetCheckpointIdStep
<1>6. CASE UNCHANGED <<locks, counters, collections, transactions, locals>>
  <2> USE <1>6 DEF locks, counters, collections, transactions, locals
  <2>1. AwaitingCleanup' = AwaitingCleanup /\ Recent' = Recent
    BY DEF AwaitingCleanup, Recent
  <2>2. LocksHeld' /\ RunningActive' /\ OnlyChangesFail'
    BY DEF Inv, LocksHeld, RunningActive, OnlyChangesFail
  <2>3. Retired' /\ CleanupSafe'
    BY <2>1 DEF Inv, Retired, CleanupSafe
  <2>4. Timestamps' /\ RemovedIsLatest' /\ CheckpointIdCovers'
    BY DEF Inv, Timestamps, RemovedIsLatest, CheckpointIdCovers
  <2>5. LowestActiveStartSafe' /\ RecentlyCommittedOrdered'
    BY DEF Inv, LowestActiveStartSafe, RecentlyCommittedOrdered
  <2> QED BY <1>1, <2>2, <2>3, <2>4, <2>5 DEF Inv
<1>7. ASSUME NEW t \in Txns, NEW m \in Mods, SetModifications(t, m) PROVE Inv'
  BY <1>6, <1>7 DEF SetModifications
<1>8. CASE UNCHANGED vars
  BY <1>6, <1>8 DEF vars
<1> QED
  BY <1>1, <1>2, <1>3, <1>4, <1>5, <1>7, <1>8, QuietActions
  DEF Next, EndTransaction, Step, CommitStep, CleanupStep, CheckpointStep

-----------------------------------------------------------------------------
(***************************************************************************)
(* The theorems.                                                            *)
(***************************************************************************)

\* Every reachable state satisfies the inductive invariant.
THEOREM Invariance == Spec => []Inv
BY InitInv, StepInv, PTL DEF Spec

\* The variables of the transaction manager, its transactions and its threads keep
\* their types; in particular no timestamp or checkpoint id underflows.
THEOREM TypeCorrect == Spec => []TypeOK
<1>1. Inv => TypeOK
  BY DEF Inv
<1> QED BY <1>1, Invariance, PTL

\* RemoveTransaction and StartTransaction keep lowest_active_start at or below the
\* start of every active transaction, whatever the transactions and checkpoints.
THEOREM LowestActiveStartIsSafe == Spec => []LowestActiveStartSafe
<1>1. Inv => LowestActiveStartSafe
  BY DEF Inv
<1> QED BY <1>1, Invariance, PTL

\* recently_committed_transactions is always ordered on commit_id, so the early
\* break of RemoveTransaction leaves nothing behind that could be released.
THEOREM RecentlyCommittedIsOrdered == Spec => []RecentlyCommittedOrdered
<1>1. Inv => RecentlyCommittedOrdered
  BY DEF Inv
<1> QED BY <1>1, Invariance, PTL

\* No undo information that an active transaction or the checkpoint under way may
\* read is ever scheduled for cleanup or being cleaned up.
THEOREM CleanupIsSafe == Spec => []CleanupSafe
<1>1. Inv => CleanupSafe
  BY DEF Inv
<1> QED BY <1>1, Invariance, PTL

-----------------------------------------------------------------------------
(***************************************************************************)
(* Checkpoints, the WAL, durability and cleanup.  CheckpointInv, about who *)
(* owns the exclusive checkpoint lock, what is in the WAL and what the     *)
(* checkpoint under way covers, and CleanupInv, about the order of the     *)
(* cleanup batches, are proved on top of Inv.                              *)
(***************************************************************************)

\* Labels inside CreateCheckpoint ...
Writing == {"create_checkpoint", "wal_start", "set_checkpoint_id", "bind", "write_tables",
            "wal_finish", "clear", "return"}

\* ... and those at which a checkpointer ends its bind transaction.
Binding == {"active", "commit", "remove", "unlock_wal", "cleanup", "clean"}

\* Whoever has decided to checkpoint owns the exclusive checkpoint lock, and a WAL
\* write is skipped only for a checkpoint.
CheckpointLockOwned ==
    /\ checkpoint_writer # NoThread => checkpoint_readers \subseteq {checkpoint_writer}
    /\ \A t \in Threads :
          /\ pc[t] \in Writing \/ (t \in Checkpointers /\ pc[t] \in Binding) => decision[t] # "no"
          /\ decision[t] # "no" \/ pc[t] \in {"last_commit", "checkpoint_type"} =>
                 checkpoint_writer = t
          /\ skip_wal[t] => t \in Txns /\ decision[t] # "no"
          /\ pc[t] \in {"backpedal", "backpedalled"} => decision[t] = "no"
    /\ \A t \in Txns : /\ pc[t] \in {"none", "active", "done"} => decision[t] = "no"
                       /\ pc[t] \notin {"force_spin", "last_commit", "checkpoint_type"}

\* Labels between the two updates of active_checkpoint.
Published(c) == \/ pc[c] \in {"bind", "write_tables", "wal_finish", "clear"}
                \/ c \in Checkpointers /\ pc[c] \in Binding

\* A checkpoint id is set only while the owner of the lock is between the two.
IdPublishedByOwner ==
    active_checkpoint # MAX_TRANSACTION_ID =>
        checkpoint_writer \in Threads /\ Published(checkpoint_writer)

\* Who is in the WAL: only its last entry can be uncommitted, and then its owner is
\* between writing it and drawing its commit id.
WALEntries ==
    /\ \A i \in 1 .. Len(wal) :
          /\ wal[i] \in Txns /\ mods[wal[i]] # {} /\ ~skip_wal[wal[i]]
          /\ pc[wal[i]] \notin {"none", "active", "wal", "backpedal"}
          /\ commit_id[wal[i]] = 0 => /\ i = Len(wal)
                                      /\ ~error[wal[i]]
                                      /\ pc[wal[i]] \in {"written", "backpedalled", "commit"}
    /\ \A i, j \in 1 .. Len(wal) : wal[i] = wal[j] => i = j

\* What was in the WAL when the checkpoint started is committed.
WALStartCommitted ==
    /\ wal_start <= Len(wal)
    /\ \A i \in 1 .. wal_start : commit_id[wal[i]] # 0

\* A transaction with changes that is about to commit has written to the WAL, or
\* keeps the WAL lock for its checkpoint.
WrittenOrSkipped ==
    \A t \in Threads :
        /\ pc[t] \in {"written", "backpedalled", "commit"} /\ mods[t] # {} /\ ~skip_wal[t]
           /\ ~error[t] => t \in InWAL
        /\ skip_wal[t] => pc[t] = "wal" \/ wal_lock = t
        /\ pc[t] \in {"none", "active", "wal", "backpedal"} => ~error[t]

\* A committer that goes on to checkpoint has committed changes.
CheckpointerCommitted ==
    \A t \in Txns : decision[t] # "no" =>
        /\ mods[t] # {}
        /\ pc[t] \in {"remove", "unlock_wal", "cleanup", "clean"} \/ pc[t] \in Writing =>
               commit_id[t] # 0

\* In-place changes that the checkpoint must include.
InPlace == {"update", "drop"}

\* What the checkpoint is about to drop from the WAL it writes to the file.
CheckpointCovers ==
    \A c \in Threads :
        /\ pc[c] \in {"bind", "write_tables"} =>
              /\ \A i \in 1 .. wal_start : commit_id[wal[i]] <= loaded[c]
              /\ c \in Txns => commit_id[c] <= loaded[c]
              /\ \A u \in Threads : mods[u] \cap InPlace # {} => commit_id[u] <= loaded[c]
        /\ pc[c] = "wal_finish" => \A i \in 1 .. wal_start : wal[i] \in file
        /\ pc[c] \in {"wal_finish", "clear", "return"} /\ skip_wal[c] => c \in file

\* When a transaction is active.
ActiveIsRunning ==
    /\ \A t \in Threads : pc[t] = "none" => mods[t] = {}
    /\ \A t \in Txns : pc[t] \notin Running => t \notin active_transactions
    /\ \A a \in active_transactions : start_time[a] > 0

\* A transaction with in-place changes keeps its shared checkpoint lock until
\* nobody needs its old versions; a committer that upgraded its lock
\* checkpoints only if it was alone.
InPlaceChangesLocked ==
    /\ \A u \in Threads : mods[u] \cap InPlace # {} /\ u \notin checkpoint_readers =>
          /\ u \notin active_transactions
          /\ \A a \in active_transactions : commit_id[u] < start_time[a]
    /\ \A t \in Txns : mods[t] \cap InPlace # {} /\ decision[t] # "no" =>
          /\ pc[t] = "remove" \/ (pc[t] = "commit" /\ ~error[t]) => active_transactions \subseteq {t}
          /\ pc[t] \in {"unlock_wal", "cleanup", "clean"} \/ pc[t] \in Writing =>
                \A a \in active_transactions : commit_id[t] < start_time[a]

\* The second inductive invariant.
CheckpointInv ==
    /\ CheckpointLockOwned
    /\ IdPublishedByOwner
    /\ WALEntries
    /\ WALStartCommitted
    /\ WALInCommitOrder
    /\ WrittenOrSkipped
    /\ CheckpointerCommitted
    /\ CheckpointCovers
    /\ DurableOrAlone
    /\ ActiveIsRunning
    /\ InPlaceChangesLocked

-----------------------------------------------------------------------------
(***************************************************************************)
(* Lemmas about sequences, types and locks.                                *)
(***************************************************************************)

\* The rest of a sequence after its first n elements.
LEMMA SuffixProperties ==
    ASSUME NEW S, NEW s \in Seq(S), NEW n \in Nat, n <= Len(s)
    PROVE  /\ SubSeq(s, n + 1, Len(s)) \in Seq(S)
           /\ Len(SubSeq(s, n + 1, Len(s))) = Len(s) - n
           /\ \A i \in 1 .. Len(s) - n : SubSeq(s, n + 1, Len(s))[i] = s[i + n]
<1>1. n + 1 \in Int /\ Len(s) \in Int /\ \A i \in n + 1 .. Len(s) : s[i] \in S
  OBVIOUS
<1> QED
  BY <1>1, SubSeqProperties

\* A sequence without its last element.
LEMMA PrefixProperties ==
    ASSUME NEW S, NEW s \in Seq(S), s # <<>>
    PROVE  /\ SubSeq(s, 1, Len(s) - 1) \in Seq(S)
           /\ Len(SubSeq(s, 1, Len(s) - 1)) = Len(s) - 1
           /\ \A i \in 1 .. Len(s) - 1 : SubSeq(s, 1, Len(s) - 1)[i] = s[i]
<1>1. Len(s) \in Nat /\ Len(s) >= 1 /\ \A i \in 1 .. Len(s) - 1 : s[i] \in S
  OBVIOUS
<1> DEFINE n == Len(s) - 1
<1>2. n \in Nat /\ \A i \in 1 .. n : s[i] \in S
  BY <1>1
<1> HIDE DEF n
<1>3. /\ SubSeq(s, 1, n) \in Seq(S)
      /\ Len(SubSeq(s, 1, n)) = n
      /\ \A i \in 1 .. n : SubSeq(s, 1, n)[i] = s[i]
  BY <1>2, SubSeqProperties
<1> QED
  BY <1>3 DEF n

\* The types that the lemmas below need.
LEMMA Typed ==
    ASSUME Inv
    PROVE  /\ pc \in [Threads -> Labels] /\ error \in [Threads -> BOOLEAN]
           /\ skip_wal \in [Threads -> BOOLEAN]
           /\ decision \in [Threads -> {"no", "full", "concurrent"}]
           /\ loaded \in [Threads -> Nat] /\ cleaning \in [Threads -> SUBSET Threads]
           /\ mods \in [Threads -> SUBSET Mods]
           /\ start_time \in [Threads -> Nat] /\ commit_id \in [Threads -> Nat]
           /\ current_start_timestamp \in Nat /\ last_commit \in Nat
           /\ active_transactions \subseteq Threads
           /\ checkpoint_readers \subseteq Txns /\ checkpoint_writer \in Threads \cup {NoThread}
           /\ wal_lock \in Threads \cup {NoThread}
           /\ wal \in Seq(Threads) /\ DOMAIN wal = 1 .. Len(wal) /\ Len(wal) \in Nat
           /\ wal_start \in Nat /\ file \subseteq Threads
           /\ Checkpointers \subseteq Threads /\ Txns \subseteq Threads /\ NoThread \notin Threads
           /\ Txns \cap Checkpointers = {} /\ Threads = Txns \cup Checkpointers
<1>1. wal \in Seq(Threads)
  BY DEF Inv, TypeOK, DurableTyped
<1>2. DOMAIN wal = 1 .. Len(wal) /\ Len(wal) \in Nat
  BY <1>1
<1> QED
  BY <1>1, <1>2, ThreadsAssumption
  DEF Inv, TypeOK, LocksTyped, StorageLocksTyped, CountersTyped, CollectionsTyped,
      TransactionsTyped, LocalsTyped, DurableTyped, Threads

\* What the first invariant says of transactions with changes.
LEMMA Known ==
    ASSUME Inv
    PROVE  /\ \A k \in Checkpointers : mods[k] = {}
           /\ \A t \in Txns : pc[t] # "bind"
           /\ \A t \in Threads :
                 /\ pc[t] \in {"wal", "written", "backpedal", "backpedalled"} \/ error[t] => mods[t] # {}
                 /\ pc[t] \in {"written", "backpedal", "backpedalled", "set_checkpoint_id"} => wal_lock = t
                 /\ pc[t] \in {"commit", "remove"} /\ mods[t] # {} => wal_lock = t
                 /\ pc[t] \in {"commit", "remove"} => transaction_lock = t
                 /\ pc[t] \in Running => t \in active_transactions
                 /\ commit_id[t] < current_start_timestamp
           /\ \A t \in Txns : pc[t] \in {"none", "active", "wal", "written", "backpedal",
                                         "backpedalled", "commit"} => commit_id[t] = 0
BY DEF Inv, LocksHeld, RunningActive, OnlyChangesFail, Timestamps, Running

-----------------------------------------------------------------------------
(***************************************************************************)
(* The exclusive checkpoint lock.                                          *)
(***************************************************************************)

\* Every step keeps the checkpoint lock with the thread that checkpoints.
LEMMA CheckpointLockStep ==
    ASSUME Inv, CheckpointLockOwned, IdPublishedByOwner, [Next]_vars
    PROVE  CheckpointLockOwned' /\ IdPublishedByOwner'
<1> USE DEF Goto, locks, storage_locks, counters, collections, transactions, locals, durable
<1>0. /\ pc \in [Threads -> Labels] /\ error \in [Threads -> BOOLEAN]
      /\ mods \in [Threads -> SUBSET Mods] /\ skip_wal \in [Threads -> BOOLEAN]
      /\ decision \in [Threads -> {"no", "full", "concurrent"}]
      /\ checkpoint_readers \subseteq Txns /\ checkpoint_writer \in Threads \cup {NoThread}
      /\ Checkpointers \subseteq Threads /\ Txns \subseteq Threads /\ NoThread \notin Threads
      /\ Txns \cap Checkpointers = {} /\ Threads = Txns \cup Checkpointers
      /\ \A k \in Checkpointers : mods[k] = {}
      /\ \A t \in Txns : pc[t] # "bind"
      /\ \A t \in Threads : pc[t] \in {"wal", "written", "backpedal", "backpedalled"} => mods[t] # {}
  BY Typed, Known
<1>1. ASSUME NEW t \in Txns, Begin(t) PROVE CheckpointLockOwned' /\ IdPublishedByOwner'
  BY <1>0, <1>1 DEF Begin, StartTransaction, CheckpointLockOwned, IdPublishedByOwner, Published,
      Writing, Binding
<1>2. ASSUME NEW t \in Txns, NEW m \in Mods, SetModifications(t, m) PROVE CheckpointLockOwned' /\ IdPublishedByOwner'
  BY <1>0, <1>2 DEF SetModifications, CheckpointLock!AcquireShared, VacuumLock!AcquireShared,
      CheckpointLockOwned, IdPublishedByOwner, Published, Writing, Binding
<1>3. ASSUME NEW t \in Txns, NEW m \in Mods, Modify(t, m) PROVE CheckpointLockOwned' /\ IdPublishedByOwner'
  BY <1>0, <1>3 DEF Modify, CheckpointLockOwned, IdPublishedByOwner, Published, Writing, Binding
<1>4. ASSUME NEW t \in Threads, CommitTransaction(t) PROVE CheckpointLockOwned' /\ IdPublishedByOwner'
  <2>1. \/ skip_wal' = skip_wal
        \/ /\ t \in Txns /\ decision' = [decision EXCEPT ![t] = "full"]
           /\ \A u \in Threads \ {t} : skip_wal'[u] = skip_wal[u]
    BY <1>0, <1>4 DEF CommitTransaction, ChangesMade
  <2> QED
    BY <1>0, <1>4, <2>1 DEF CommitTransaction, ChangesMade, CheckpointLock!Upgrade,
       CheckpointLock!AcquireExclusive, CheckpointLockOwned, IdPublishedByOwner, Published,
       Writing, Binding
<1>5. ASSUME NEW t \in Threads, RollbackTransaction(t) PROVE CheckpointLockOwned' /\ IdPublishedByOwner'
  BY <1>0, <1>5 DEF RollbackTransaction, RemoveTransaction, ChangesMade, CheckpointLockOwned,
      IdPublishedByOwner, Published, Writing, Binding
<1>6. ASSUME NEW t \in Threads, CommitWAL(t) PROVE CheckpointLockOwned' /\ IdPublishedByOwner'
  BY <1>0, <1>6 DEF CommitWAL, WriteToWAL, CheckpointLockOwned, IdPublishedByOwner, Published,
      Writing, Binding
<1>7. ASSUME NEW t \in Threads, CommitDecide(t) PROVE CheckpointLockOwned' /\ IdPublishedByOwner'
  BY <1>0, <1>7 DEF CommitDecide, CheckpointType, HasOtherTransactions, CheckpointLockOwned,
      IdPublishedByOwner, Published, Writing, Binding
<1>8. ASSUME NEW t \in Threads, CommitBackpedal(t) PROVE CheckpointLockOwned' /\ IdPublishedByOwner'
  BY <1>0, <1>8 DEF CommitBackpedal, WriteToWAL, CheckpointLockOwned, IdPublishedByOwner,
      Published, Writing, Binding
<1>9. ASSUME NEW t \in Threads, CommitBackpedalled(t) PROVE CheckpointLockOwned' /\ IdPublishedByOwner'
  BY <1>0, <1>9 DEF CommitBackpedalled, CheckpointLockOwned, IdPublishedByOwner, Published,
      Writing, Binding
<1>10. ASSUME NEW t \in Threads, CommitSucceeds(t) PROVE CheckpointLockOwned' /\ IdPublishedByOwner'
  BY <1>0, <1>10 DEF CommitSucceeds, DropCheckpointLock, CheckpointLock!ReleaseExclusive,
      CheckpointLockOwned, IdPublishedByOwner, Published, Writing, Binding
<1>11. ASSUME NEW t \in Threads, CommitFails(t) PROVE CheckpointLockOwned' /\ IdPublishedByOwner'
  BY <1>0, <1>11 DEF CommitFails, ChangesMade, DropCheckpointLock,
      CheckpointLock!ReleaseExclusive, CheckpointLockOwned, IdPublishedByOwner, Published,
      Writing, Binding
<1>12. ASSUME NEW t \in Threads, CommitRemove(t) PROVE CheckpointLockOwned' /\ IdPublishedByOwner'
  BY <1>0, <1>12 DEF CommitRemove, RemoveTransaction, ChangesMade, CheckpointLockOwned,
      IdPublishedByOwner, Published, Writing, Binding
<1>13. ASSUME NEW t \in Threads, CommitUnlockWAL(t) PROVE CheckpointLockOwned' /\ IdPublishedByOwner'
  BY <1>0, <1>13 DEF CommitUnlockWAL, CheckpointLockOwned, IdPublishedByOwner, Published,
      Writing, Binding
<1>14. ASSUME NEW t \in Threads, CleanupPop(t) PROVE CheckpointLockOwned' /\ IdPublishedByOwner'
  BY <1>0, <1>14 DEF CleanupPop, CheckpointLockOwned, IdPublishedByOwner, Published, Writing,
      Binding
<1>15. ASSUME NEW t \in Threads, CleanupRun(t) PROVE CheckpointLockOwned' /\ IdPublishedByOwner'
  BY <1>0, <1>15 DEF CleanupRun, CheckpointLockOwned, IdPublishedByOwner, Published, Writing,
      Binding
<1>16. ASSUME NEW t \in Threads, CleanupDone(t) PROVE CheckpointLockOwned' /\ IdPublishedByOwner'
  BY <1>0, <1>16 DEF CleanupDone, CheckpointLockOwned, IdPublishedByOwner, Published, Writing,
      Binding
<1>17. ASSUME NEW t \in Checkpointers, Checkpoint(t) PROVE CheckpointLockOwned' /\ IdPublishedByOwner'
  BY <1>0, <1>17 DEF Checkpoint, CheckpointLock!AcquireExclusive, CheckpointLockOwned,
      IdPublishedByOwner, Published, Writing, Binding
<1>18. ASSUME NEW t \in Checkpointers, ForceCheckpoint(t) PROVE CheckpointLockOwned' /\ IdPublishedByOwner'
  BY <1>0, <1>18 DEF ForceCheckpoint, CheckpointLockOwned, IdPublishedByOwner, Published,
      Writing, Binding
<1>19. ASSUME NEW t \in Checkpointers, ForceInterrupted(t) PROVE CheckpointLockOwned' /\ IdPublishedByOwner'
  BY <1>0, <1>19 DEF ForceInterrupted, CheckpointLockOwned, IdPublishedByOwner, Published,
      Writing, Binding
<1>20. ASSUME NEW t \in Threads, ForceObtainsLock(t) PROVE CheckpointLockOwned' /\ IdPublishedByOwner'
  BY <1>0, <1>20 DEF ForceObtainsLock, CheckpointLock!AcquireExclusive, CheckpointLockOwned,
      IdPublishedByOwner, Published, Writing, Binding
<1>21. ASSUME NEW t \in Threads, CheckpointLastCommit(t) PROVE CheckpointLockOwned' /\ IdPublishedByOwner'
  BY <1>0, <1>21 DEF CheckpointLastCommit, CheckpointLockOwned, IdPublishedByOwner, Published,
      Writing, Binding
<1>22. ASSUME NEW t \in Threads, CheckpointLowestActiveStart(t) PROVE CheckpointLockOwned' /\ IdPublishedByOwner'
  BY <1>0, <1>22 DEF CheckpointLowestActiveStart, CheckpointLockOwned, IdPublishedByOwner,
      Published, Writing, Binding
<1>23. ASSUME NEW t \in Threads, CreateCheckpoint(t) PROVE CheckpointLockOwned' /\ IdPublishedByOwner'
  BY <1>0, <1>23 DEF CreateCheckpoint, VacuumLock!AcquireExclusive, CheckpointLockOwned,
      IdPublishedByOwner, Published, Writing, Binding
<1>24. ASSUME NEW t \in Threads, WALStartCheckpoint(t) PROVE CheckpointLockOwned' /\ IdPublishedByOwner'
  BY <1>0, <1>24 DEF WALStartCheckpoint, CheckpointLockOwned, IdPublishedByOwner, Published,
      Writing, Binding
<1>25. ASSUME NEW t \in Threads, SetCheckpointId(t) PROVE CheckpointLockOwned' /\ IdPublishedByOwner'
  BY <1>0, <1>25 DEF SetCheckpointId, CheckpointLockOwned, IdPublishedByOwner, Published,
      Writing, Binding
<1>26. ASSUME NEW t \in Threads, CheckpointBind(t) PROVE CheckpointLockOwned' /\ IdPublishedByOwner'
  BY <1>0, <1>26 DEF CheckpointBind, StartTransaction, CheckpointLockOwned, IdPublishedByOwner,
      Published, Writing, Binding
<1>27. ASSUME NEW t \in Threads, WriteTables(t) PROVE CheckpointLockOwned' /\ IdPublishedByOwner'
  BY <1>0, <1>27 DEF WriteTables, CheckpointLockOwned, IdPublishedByOwner, Published, Writing,
      Binding
<1>28. ASSUME NEW t \in Threads, WALFinishCheckpoint(t) PROVE CheckpointLockOwned' /\ IdPublishedByOwner'
  BY <1>0, <1>28 DEF WALFinishCheckpoint, CheckpointLockOwned, IdPublishedByOwner, Published,
      Writing, Binding
<1>29. ASSUME NEW t \in Threads, ResetCheckpointId(t) PROVE CheckpointLockOwned' /\ IdPublishedByOwner'
  BY <1>0, <1>29 DEF ResetCheckpointId, CheckpointLockOwned, IdPublishedByOwner, Published,
      Writing, Binding
<1>30. ASSUME NEW t \in Threads, CheckpointReturn(t) PROVE CheckpointLockOwned' /\ IdPublishedByOwner'
  BY <1>0, <1>30 DEF CheckpointReturn, CheckpointLock!ReleaseExclusive,
      VacuumLock!ReleaseExclusive, CheckpointLockOwned, IdPublishedByOwner, Published, Writing,
      Binding
<1>31. CASE UNCHANGED vars
  BY <1>31 DEF vars, CheckpointLockOwned, IdPublishedByOwner, Published, Writing, Binding
<1> QED
  BY <1>1, <1>2, <1>3, <1>4, <1>5, <1>6, <1>7, <1>8, <1>9, <1>10, <1>11, <1>12, <1>13, <1>14,
      <1>15, <1>16, <1>17, <1>18, <1>19, <1>20, <1>21, <1>22, <1>23, <1>24, <1>25, <1>26, <1>27,
      <1>28, <1>29, <1>30, <1>31 DEF Next, EndTransaction, Step, CommitStep, CleanupStep,
      CheckpointStep

-----------------------------------------------------------------------------
(***************************************************************************)
(* The WAL.                                                                *)
(***************************************************************************)

\* Whoever has an uncommitted entry holds the WAL lock.
LEMMA UncommittedEntry ==
    ASSUME Inv, WALEntries
    PROVE  \A i \in 1 .. Len(wal) : /\ wal[i] \in Txns
                                    /\ commit_id[wal[i]] = 0 => i = Len(wal) /\ wal_lock = wal[i]
BY Typed, Known DEF WALEntries

\* Whoever may write to the WAL has no entry, and the entries are all committed.
LEMMA BeforeWrite ==
    ASSUME Inv, WALEntries, NEW t \in Threads, pc[t] \in {"wal", "backpedal"},
           wal_lock \in {NoThread, t}
    PROVE  /\ t \in Txns /\ mods[t] # {} /\ commit_id[t] = 0
           /\ \A i \in 1 .. Len(wal) : wal[i] # t /\ commit_id[wal[i]] # 0
<1>1. /\ commit_id \in [Threads -> Nat] /\ Threads = Txns \cup Checkpointers
      /\ NoThread \notin Threads
  BY Typed
<1>2. t \in Txns /\ mods[t] # {} /\ commit_id[t] = 0
  BY <1>1, Known
<1>3. \A i \in 1 .. Len(wal) : wal[i] # t
  BY DEF WALEntries
<1> QED
  BY <1>1, <1>2, <1>3, UncommittedEntry

\* A failed commit takes its own entry off the WAL and leaves no uncommitted one.
LEMMA CommitFailsWAL ==
    ASSUME Inv, WALEntries, NEW t \in Threads, CommitFails(t)
    PROVE  /\ wal' \in Seq(Threads) /\ Len(wal') <= Len(wal)
           /\ \A i \in 1 .. Len(wal') : wal'[i] = wal[i] /\ wal[i] # t /\ commit_id[wal[i]] # 0
           /\ \A i \in 1 .. Len(wal) : wal[i] # t => i \in 1 .. Len(wal')
           /\ t \in Txns /\ commit_id[t] = 0
<1>0. /\ wal \in Seq(Threads) /\ DOMAIN wal = 1 .. Len(wal) /\ Len(wal) \in Nat
      /\ commit_id \in [Threads -> Nat] /\ Threads = Txns \cup Checkpointers
  BY Typed
<1>00. Len(wal) \in Nat
  BY <1>0
<1>1. t \in Txns /\ commit_id[t] = 0 /\ wal_lock = t
  BY <1>0, Known DEF CommitFails, ChangesMade
<1>2. \A i \in 1 .. Len(wal) : commit_id[wal[i]] = 0 => wal[i] = t /\ i = Len(wal)
  BY <1>1, UncommittedEntry
<1>3. CASE wal # <<>> /\ wal[Len(wal)] = t
  <2>1. wal' = SubSeq(wal, 1, Len(wal) - 1)
    BY <1>3 DEF CommitFails, WALWithout
  <2>2. /\ wal' \in Seq(Threads) /\ Len(wal') = Len(wal) - 1
        /\ \A i \in 1 .. Len(wal) - 1 : wal'[i] = wal[i]
    BY <1>0, <1>3, <2>1, PrefixProperties
  <2>3. \A i \in 1 .. Len(wal) - 1 : i \in 1 .. Len(wal) /\ i # Len(wal)
    BY <1>00
  <2>4. \A i \in 1 .. Len(wal) - 1 : commit_id[wal[i]] # 0
    BY <1>2, <2>3
  <2>5. \A i \in 1 .. Len(wal) - 1 : wal[i] # t
    BY <1>1, <2>4
  <2>6. \A i \in 1 .. Len(wal) : wal[i] # t => i \in 1 .. Len(wal) - 1
    BY <1>3, <1>00
  <2>7. Len(wal') <= Len(wal)
    BY <1>00, <2>2
  <2> QED BY <1>1, <2>2, <2>4, <2>5, <2>6, <2>7
<1>4. CASE ~(wal # <<>> /\ wal[Len(wal)] = t)
  <2>1. wal' = wal
    BY <1>4 DEF CommitFails, WALWithout
  <2>2. ASSUME NEW i \in 1 .. Len(wal), commit_id[wal[i]] = 0 PROVE FALSE
    <3>1. i = Len(wal) /\ wal[Len(wal)] = t
      BY <1>2, <2>2
    <3>2. wal # <<>>
      BY <1>00, <3>1
    <3> QED BY <1>4, <3>1, <3>2
  <2>3. \A i \in 1 .. Len(wal) : wal[i] # t
    BY <1>1, <2>2
  <2> QED BY <1>0, <1>1, <2>1, <2>2, <2>3
<1> QED
  BY <1>3, <1>4

\* The end of a checkpoint drops the first wal_start entries of the WAL.
LEMMA WALFinishWAL ==
    ASSUME Inv, WALStartCommitted, NEW c \in Threads, WALFinishCheckpoint(c)
    PROVE  /\ wal' \in Seq(Threads) /\ Len(wal') = Len(wal) - wal_start
           /\ \A i \in 1 .. Len(wal) - wal_start :
                 wal'[i] = wal[i + wal_start] /\ i + wal_start \in 1 .. Len(wal)
           /\ wal_start' = 0
<1>0. /\ wal \in Seq(Threads) /\ Len(wal) \in Nat /\ wal_start \in Nat /\ wal_start <= Len(wal)
      /\ wal' = SubSeq(wal, wal_start + 1, Len(wal)) /\ wal_start' = 0
  BY Typed DEF WALStartCommitted, WALFinishCheckpoint
<1>1. /\ Len(wal') = Len(wal) - wal_start /\ wal' \in Seq(Threads)
      /\ \A i \in 1 .. Len(wal) - wal_start : wal'[i] = wal[i + wal_start]
  BY <1>0, SuffixProperties
<1>2. \A i \in 1 .. Len(wal) - wal_start : i + wal_start \in 1 .. Len(wal)
  BY <1>0
<1> QED
  BY <1>0, <1>1, <1>2

\* The steps that change neither the WAL nor a commit id leave the order of the WAL
\* alone; the six others keep it.
LEMMA WALOrderStep ==
    ASSUME Inv, CheckpointLockOwned, WALEntries, WALStartCommitted, WALInCommitOrder, [Next]_vars
    PROVE  WALStartCommitted' /\ WALInCommitOrder'
<1> USE DEF Goto, locks, storage_locks, counters, collections, transactions, locals, durable
<1>0. /\ commit_id \in [Threads -> Nat] /\ current_start_timestamp \in Nat
      /\ wal \in Seq(Threads) /\ wal_start \in Nat
      /\ DOMAIN wal = 1 .. Len(wal) /\ Len(wal) \in Nat
      /\ Txns \subseteq Threads /\ NoThread \notin Threads
  BY Typed
<1>00. Len(wal) \in Nat
  BY <1>0
<1>1. CASE UNCHANGED <<wal, wal_start, commit_id>>
  BY <1>1 DEF WALStartCommitted, WALInCommitOrder
<1>2. ASSUME NEW t \in Threads, pc[t] \in {"wal", "backpedal"}, wal_lock \in {NoThread, t},
             wal' = Append(wal, t), UNCHANGED <<wal_start, commit_id>>
      PROVE  WALStartCommitted' /\ WALInCommitOrder'
  <2>1. commit_id[t] = 0 /\ \A i \in 1 .. Len(wal) : commit_id[wal[i]] # 0
    BY <1>2, BeforeWrite
  <2>2. /\ Len(wal') = Len(wal) + 1 /\ DOMAIN wal' = 1 .. Len(wal) + 1
        /\ \A i \in 1 .. Len(wal) : wal'[i] = wal[i]
        /\ wal'[Len(wal) + 1] = t
    BY <1>0, <1>2
  <2>3. \A i \in 1 .. Len(wal) + 1 : i \in 1 .. Len(wal) \/ i = Len(wal) + 1
    BY <1>0
  <2>4. wal_start' = wal_start /\ commit_id' = commit_id
    BY <1>2
  <2> HIDE <1>2
  <2>5. WALStartCommitted'
    BY <1>0, <2>2, <2>4 DEF WALStartCommitted
  <2>6. WALInCommitOrder'
    BY <1>0, <2>1, <2>2, <2>3, <2>4 DEF WALInCommitOrder
  <2> QED BY <2>5, <2>6
<1>3. ASSUME NEW t \in Threads, CommitWAL(t) PROVE WALStartCommitted' /\ WALInCommitOrder'
  BY <1>1, <1>2, <1>3 DEF CommitWAL, WriteToWAL
<1>4. ASSUME NEW t \in Threads, CommitBackpedal(t) PROVE WALStartCommitted' /\ WALInCommitOrder'
  <2>1. wal_lock = t
    BY <1>4, Known DEF CommitBackpedal
  <2> QED BY <1>1, <1>2, <1>4, <2>1 DEF CommitBackpedal, WriteToWAL
<1>5. ASSUME NEW t \in Threads, CommitSucceeds(t) PROVE WALStartCommitted' /\ WALInCommitOrder'
  <2>1. \A u \in Threads : commit_id[u] < current_start_timestamp
    BY Known
  <2>2. \A i \in 1 .. Len(wal) : wal[i] = t => i = Len(wal) /\ commit_id[t] = 0
    <3>1. t \in Txns => commit_id[t] = 0
      BY <1>5, Known DEF CommitSucceeds
    <3> QED BY <3>1, UncommittedEntry
  <2>3. commit_id' = [commit_id EXCEPT ![t] = current_start_timestamp] /\ UNCHANGED <<wal, wal_start>>
    BY <1>5 DEF CommitSucceeds
  <2>4. \A i \in 1 .. Len(wal) : commit_id[wal[i]] = 0 => i = Len(wal)
    BY UncommittedEntry
  <2>5. \A i \in 1 .. Len(wal) : wal[i] \in Threads
    BY <1>0
  <2>6. \A i \in 1 .. Len(wal) : i # Len(wal) => commit_id'[wal[i]] = commit_id[wal[i]]
    BY <1>0, <2>2, <2>3, <2>5
  <2>7. \A i \in 1 .. Len(wal) : commit_id'[wal[i]] \in {commit_id[wal[i]], current_start_timestamp}
    BY <1>0, <2>3, <2>5
  <2>8. WALStartCommitted'
    BY <1>0, <2>1, <2>3, <2>5, <2>7 DEF WALStartCommitted
  <2>9. ASSUME NEW i \in 1 .. Len(wal), NEW j \in 1 .. Len(wal), i < j, commit_id'[wal[j]] # 0
        PROVE  commit_id'[wal[i]] # 0 /\ commit_id'[wal[i]] < commit_id'[wal[j]]
    <3>0. i # Len(wal)
      BY <1>00, <2>9
    <3>1. commit_id'[wal[i]] = commit_id[wal[i]] /\ commit_id[wal[i]] # 0
      BY <2>4, <2>6, <3>0
    <3>2. CASE commit_id'[wal[j]] = current_start_timestamp
      BY <2>1, <2>5, <3>1, <3>2
    <3>3. CASE commit_id'[wal[j]] = commit_id[wal[j]]
      BY <1>0, <2>9, <3>1, <3>3 DEF WALInCommitOrder
    <3> QED BY <2>7, <3>2, <3>3
  <2>10. WALInCommitOrder'
    BY <1>0, <2>3, <2>9 DEF WALInCommitOrder
  <2> QED BY <2>8, <2>10
<1>6. ASSUME NEW t \in Threads, CommitFails(t) PROVE WALStartCommitted' /\ WALInCommitOrder'
  <2>1. wal_start' = wal_start /\ commit_id' = commit_id
    BY <1>6 DEF CommitFails
  <2>2. /\ wal' \in Seq(Threads) /\ Len(wal') <= Len(wal)
        /\ \A i \in 1 .. Len(wal') : wal'[i] = wal[i] /\ commit_id[wal[i]] # 0
        /\ \A i \in 1 .. Len(wal) : wal[i] # t => i \in 1 .. Len(wal')
        /\ commit_id[t] = 0
    BY <1>6, CommitFailsWAL
  <2>3. DOMAIN wal' = 1 .. Len(wal') /\ Len(wal') \in Nat
    BY <2>2
  <2>4. \A i \in 1 .. wal_start : i \in 1 .. Len(wal')
    BY <1>0, <2>2 DEF WALStartCommitted
  <2>5. wal_start <= Len(wal')
    BY <1>0, <2>3, <2>4
  <2>6. WALStartCommitted'
    BY <2>1, <2>2, <2>4, <2>5 DEF WALStartCommitted
  <2>7. WALInCommitOrder'
    BY <1>0, <2>1, <2>2, <2>3 DEF WALInCommitOrder
  <2> QED BY <2>6, <2>7
<1>7. ASSUME NEW c \in Threads, SetCheckpointId(c) PROVE WALStartCommitted' /\ WALInCommitOrder'
  <2>1. wal_lock = c /\ pc[c] = "set_checkpoint_id"
    BY <1>7, Known DEF SetCheckpointId
  <2>2. \A i \in 1 .. Len(wal) : commit_id[wal[i]] # 0
    BY <2>1, UncommittedEntry DEF WALEntries
  <2> QED BY <1>0, <1>7, <2>2 DEF SetCheckpointId, WALStartCommitted, WALInCommitOrder
<1>8. ASSUME NEW c \in Threads, WALFinishCheckpoint(c) PROVE WALStartCommitted' /\ WALInCommitOrder'
  <2>1. /\ wal' \in Seq(Threads) /\ Len(wal') = Len(wal) - wal_start
        /\ \A i \in 1 .. Len(wal) - wal_start :
              wal'[i] = wal[i + wal_start] /\ i + wal_start \in 1 .. Len(wal)
        /\ wal_start' = 0 /\ commit_id' = commit_id
    BY <1>8, WALFinishWAL DEF WALFinishCheckpoint
  <2>2. DOMAIN wal' = 1 .. Len(wal) - wal_start
    BY <2>1
  <2>3. WALStartCommitted'
    BY <1>0, <2>1 DEF WALStartCommitted
  <2>4. ASSUME NEW i \in 1 .. Len(wal) - wal_start, NEW j \in 1 .. Len(wal) - wal_start, i < j
        PROVE  commit_id[wal'[j]] # 0 => commit_id[wal'[i]] # 0 /\ commit_id[wal'[i]] < commit_id[wal'[j]]
    <3>1. i + wal_start < j + wal_start
      BY <1>0, <2>4
    <3>2. /\ wal'[i] = wal[i + wal_start] /\ i + wal_start \in 1 .. Len(wal)
          /\ wal'[j] = wal[j + wal_start] /\ j + wal_start \in 1 .. Len(wal)
      BY <2>1
    <3> QED BY <1>0, <3>1, <3>2 DEF WALInCommitOrder
  <2>5. WALInCommitOrder'
    BY <2>1, <2>2, <2>4 DEF WALInCommitOrder
  <2> QED BY <2>3, <2>5
<1> QED
  BY <1>1, <1>3, <1>4, <1>5, <1>6, <1>7, <1>8
  DEF Next, EndTransaction, Step, CommitStep, CleanupStep, CheckpointStep, vars, Begin,
      StartTransaction, SetModifications, Modify, CommitTransaction, RollbackTransaction,
      CommitDecide, CommitBackpedalled, CommitRemove, CommitUnlockWAL, CleanupPop, CleanupRun,
      CleanupDone, Checkpoint, ForceCheckpoint, ForceInterrupted, ForceObtainsLock,
      CheckpointLastCommit, CheckpointLowestActiveStart, CreateCheckpoint, WALStartCheckpoint,
      CheckpointBind, WriteTables, ResetCheckpointId, CheckpointReturn

\* Writing to the WAL, or failing to, keeps its entries what they are.
LEMMA WALWriteEntries ==
    ASSUME Inv, WALEntries, WrittenOrSkipped,
           NEW t \in Threads, pc[t] \in {"wal", "backpedal"}, wal_lock \in {NoThread, t},
           ~skip_wal[t], WriteToWAL(t),
           NEW l \in {"written", "backpedalled"}, Goto(t, l),
           UNCHANGED <<mods, commit_id, skip_wal>>
    PROVE  WALEntries'
<1> USE DEF Goto
<1>0. /\ pc \in [Threads -> Labels] /\ error \in [Threads -> BOOLEAN]
      /\ commit_id \in [Threads -> Nat] /\ wal \in Seq(Threads) /\ Len(wal) \in Nat
  BY Typed
<1>1. /\ t \in Txns /\ mods[t] # {} /\ commit_id[t] = 0
      /\ \A i \in 1 .. Len(wal) : wal[i] \in Threads /\ wal[i] # t /\ commit_id[wal[i]] # 0
  BY <1>0, BeforeWrite
<1>2. ~error[t]
  BY DEF WrittenOrSkipped
<1>3. CASE error' = [error EXCEPT ![t] = TRUE] /\ UNCHANGED wal
  <2>1. ASSUME NEW u \in Threads, u # t PROVE error'[u] = error[u] /\ pc'[u] = pc[u]
    BY <1>0, <1>3, <2>1
  <2>2. Len(wal') = Len(wal) /\ \A i \in 1 .. Len(wal) : wal'[i] = wal[i]
    BY <1>3
  <2> QED
    BY <1>1, <2>1, <2>2 DEF WALEntries
<1>4. CASE wal' = Append(wal, t) /\ UNCHANGED error
  <2>1. /\ Len(wal') = Len(wal) + 1
        /\ \A i \in 1 .. Len(wal) : wal'[i] = wal[i]
        /\ wal'[Len(wal) + 1] = t /\ error' = error
    BY <1>0, <1>4
  <2>2. \A i \in 1 .. Len(wal) + 1 : i \in 1 .. Len(wal) \/ i = Len(wal) + 1
    BY <1>0
  <2> HIDE <1>4
  <2>3. ASSUME NEW i \in 1 .. Len(wal)
        PROVE  /\ wal'[i] \in Txns /\ mods[wal'[i]] # {} /\ ~skip_wal[wal'[i]]
               /\ pc'[wal'[i]] \notin {"none", "active", "wal", "backpedal"}
               /\ commit_id[wal'[i]] # 0
    BY <1>0, <1>1, <2>1 DEF WALEntries
  <2>4. /\ t \in Txns /\ mods[t] # {} /\ ~skip_wal[t] /\ ~error'[t]
        /\ pc'[t] = l
    BY <1>0, <1>1, <1>2, <2>1
  <2>5. \A i, j \in 1 .. Len(wal) + 1 : wal'[i] = wal'[j] => i = j
    BY <1>1, <2>1, <2>2 DEF WALEntries
  <2> QED BY <2>1, <2>2, <2>3, <2>4, <2>5 DEF WALEntries
<1> QED
  BY <1>3, <1>4 DEF WriteToWAL

\* Every step keeps the entries of the WAL what they are.
LEMMA WALEntriesStep ==
    ASSUME Inv, CheckpointLockOwned, WALEntries, WALStartCommitted, WrittenOrSkipped, [Next]_vars
    PROVE  WALEntries'
<1> USE DEF Goto, locks, storage_locks, counters, collections, transactions, locals, durable
<1>0. /\ pc \in [Threads -> Labels] /\ error \in [Threads -> BOOLEAN]
      /\ mods \in [Threads -> SUBSET Mods] /\ skip_wal \in [Threads -> BOOLEAN]
      /\ commit_id \in [Threads -> Nat] /\ current_start_timestamp \in Nat
      /\ wal \in Seq(Threads) /\ wal_start \in Nat
      /\ Checkpointers \subseteq Threads /\ Txns \subseteq Threads /\ NoThread \notin Threads
      /\ Txns \cap Checkpointers = {}
  BY Typed
<1>1. ASSUME NEW t \in Txns, Begin(t) PROVE WALEntries'
  BY <1>0, <1>1 DEF Begin, StartTransaction, WALEntries
<1>2. ASSUME NEW t \in Txns, NEW m \in Mods, SetModifications(t, m) PROVE WALEntries'
  BY <1>0, <1>2 DEF SetModifications, CheckpointLock!AcquireShared, VacuumLock!AcquireShared,
      WALEntries
<1>3. ASSUME NEW t \in Txns, NEW m \in Mods, Modify(t, m) PROVE WALEntries'
  BY <1>0, <1>3 DEF Modify, WALEntries
<1>4. ASSUME NEW t \in Threads, CommitTransaction(t) PROVE WALEntries'
  BY <1>0, <1>4 DEF CommitTransaction, ChangesMade, CheckpointLock!Upgrade,
      CheckpointLock!AcquireExclusive, WALEntries
<1>5. ASSUME NEW t \in Threads, RollbackTransaction(t) PROVE WALEntries'
  BY <1>0, <1>5 DEF RollbackTransaction, RemoveTransaction, ChangesMade, WALEntries
<1>6. ASSUME NEW t \in Threads, CommitWAL(t) PROVE WALEntries'
  <2>1. CASE skip_wal[t]
    BY <1>0, <1>6, <2>1 DEF CommitWAL, WALEntries
  <2>2. CASE ~skip_wal[t]
    BY <1>6, <2>2, WALWriteEntries DEF CommitWAL
  <2> QED BY <2>1, <2>2
<1>7. ASSUME NEW t \in Threads, CommitDecide(t) PROVE WALEntries'
  <2>1. CASE skip_wal[t]
    BY <1>0, <1>7, <2>1 DEF CommitDecide, WALEntries
  <2>2. CASE ~skip_wal[t]
    BY <1>0, <1>7, <2>2 DEF CommitDecide, WALEntries
  <2> QED BY <2>1, <2>2
<1>8. ASSUME NEW t \in Threads, CommitBackpedal(t) PROVE WALEntries'
  <2>1. wal_lock = t /\ ~skip_wal[t]
    BY <1>8, Known DEF CommitBackpedal, CheckpointLockOwned
  <2> QED BY <1>8, <2>1, WALWriteEntries DEF CommitBackpedal
<1>9. ASSUME NEW t \in Threads, CommitBackpedalled(t) PROVE WALEntries'
  BY <1>0, <1>9 DEF CommitBackpedalled, WALEntries
<1>10. ASSUME NEW t \in Threads, CommitSucceeds(t) PROVE WALEntries'
  <2>1. commit_id'[t] # 0
    BY <1>0, <1>10, Known DEF CommitSucceeds
  <2> QED
    BY <1>0, <1>10, <2>1 DEF CommitSucceeds, WALEntries
<1>11. ASSUME NEW t \in Threads, CommitFails(t) PROVE WALEntries'
  <2>1. /\ Len(wal') \in Nat /\ Len(wal') <= Len(wal) /\ Len(wal) \in Nat
        /\ \A i \in 1 .. Len(wal') : wal'[i] = wal[i] /\ wal[i] # t /\ commit_id[wal[i]] # 0
    BY <1>0, <1>11, CommitFailsWAL
  <2>2. \A i \in 1 .. Len(wal') : i \in 1 .. Len(wal)
    BY <2>1
  <2>3. /\ mods' = mods /\ commit_id' = commit_id
        /\ \A u \in Threads \ {t} : /\ pc'[u] = pc[u] /\ error'[u] = error[u]
                                    /\ skip_wal'[u] = skip_wal[u]
    BY <1>0, <1>11 DEF CommitFails
  <2>4. ASSUME NEW i \in 1 .. Len(wal')
        PROVE  /\ wal'[i] \in Txns /\ mods[wal'[i]] # {} /\ ~skip_wal'[wal'[i]]
               /\ pc'[wal'[i]] \notin {"none", "active", "wal", "backpedal"}
               /\ commit_id[wal'[i]] # 0
    <3>1. i \in 1 .. Len(wal) /\ wal'[i] = wal[i] /\ wal[i] # t /\ commit_id[wal[i]] # 0
      BY <2>1, <2>2
    <3>2. wal[i] \in Txns /\ wal[i] \in Threads
      BY <1>0, <3>1 DEF WALEntries
    <3> QED BY <2>3, <3>1, <3>2 DEF WALEntries
  <2>5. \A i, j \in 1 .. Len(wal') : wal'[i] = wal'[j] => i = j
    BY <2>1, <2>2 DEF WALEntries
  <2> QED BY <2>3, <2>4, <2>5 DEF WALEntries
<1>12. ASSUME NEW t \in Threads, CommitRemove(t) PROVE WALEntries'
  BY <1>0, <1>12 DEF CommitRemove, RemoveTransaction, ChangesMade, WALEntries
<1>13. ASSUME NEW t \in Threads, CommitUnlockWAL(t) PROVE WALEntries'
  BY <1>0, <1>13 DEF CommitUnlockWAL, WALEntries
<1>14. ASSUME NEW t \in Threads, CleanupPop(t) PROVE WALEntries'
  BY <1>0, <1>14 DEF CleanupPop, WALEntries
<1>15. ASSUME NEW t \in Threads, CleanupRun(t) PROVE WALEntries'
  BY <1>0, <1>15 DEF CleanupRun, WALEntries
<1>16. ASSUME NEW t \in Threads, CleanupDone(t) PROVE WALEntries'
  BY <1>0, <1>16 DEF CleanupDone, WALEntries
<1>17. ASSUME NEW t \in Checkpointers, Checkpoint(t) PROVE WALEntries'
  BY <1>0, <1>17 DEF Checkpoint, CheckpointLock!AcquireExclusive, WALEntries
<1>18. ASSUME NEW t \in Checkpointers, ForceCheckpoint(t) PROVE WALEntries'
  BY <1>0, <1>18 DEF ForceCheckpoint, WALEntries
<1>19. ASSUME NEW t \in Checkpointers, ForceInterrupted(t) PROVE WALEntries'
  BY <1>0, <1>19 DEF ForceInterrupted, WALEntries
<1>20. ASSUME NEW t \in Threads, ForceObtainsLock(t) PROVE WALEntries'
  BY <1>0, <1>20 DEF ForceObtainsLock, CheckpointLock!AcquireExclusive, WALEntries
<1>21. ASSUME NEW t \in Threads, CheckpointLastCommit(t) PROVE WALEntries'
  BY <1>0, <1>21 DEF CheckpointLastCommit, WALEntries
<1>22. ASSUME NEW t \in Threads, CheckpointLowestActiveStart(t) PROVE WALEntries'
  BY <1>0, <1>22 DEF CheckpointLowestActiveStart, WALEntries
<1>23. ASSUME NEW t \in Threads, CreateCheckpoint(t) PROVE WALEntries'
  BY <1>0, <1>23 DEF CreateCheckpoint, VacuumLock!AcquireExclusive, WALEntries
<1>24. ASSUME NEW t \in Threads, WALStartCheckpoint(t) PROVE WALEntries'
  BY <1>0, <1>24 DEF WALStartCheckpoint, WALEntries
<1>25. ASSUME NEW t \in Threads, SetCheckpointId(t) PROVE WALEntries'
  BY <1>0, <1>25 DEF SetCheckpointId, WALEntries
<1>26. ASSUME NEW t \in Threads, CheckpointBind(t) PROVE WALEntries'
  BY <1>0, <1>26 DEF CheckpointBind, StartTransaction, WALEntries
<1>27. ASSUME NEW t \in Threads, WriteTables(t) PROVE WALEntries'
  BY <1>0, <1>27 DEF WriteTables, WALEntries
<1>28. ASSUME NEW t \in Threads, WALFinishCheckpoint(t) PROVE WALEntries'
  <2>1. /\ Len(wal') = Len(wal) - wal_start
        /\ \A i \in 1 .. Len(wal) - wal_start :
              wal'[i] = wal[i + wal_start] /\ i + wal_start \in 1 .. Len(wal)
    BY <1>28, WALFinishWAL
  <2>2. /\ UNCHANGED <<mods, commit_id, skip_wal, error>>
        /\ \A u \in Threads : pc'[u] = pc[u] \/ (u = t /\ pc[u] = "wal_finish" /\ u \notin Txns)
                                             \/ (u = t /\ pc[u] = "wal_finish" /\ pc'[u] = "clear")
    BY <1>0, <1>28 DEF WALFinishCheckpoint
  <2>3. ASSUME NEW i \in 1 .. Len(wal) - wal_start
        PROVE  /\ wal'[i] \in Txns /\ mods[wal'[i]] # {} /\ ~skip_wal[wal'[i]]
               /\ pc'[wal'[i]] \notin {"none", "active", "wal", "backpedal"}
               /\ commit_id[wal'[i]] = 0 => /\ i = Len(wal) - wal_start
                                            /\ ~error[wal'[i]]
                                            /\ pc'[wal'[i]] \in {"written", "backpedalled", "commit"}
    <3> DEFINE j == i + wal_start
    <3>1. wal'[i] = wal[j] /\ j \in 1 .. Len(wal) /\ (j = Len(wal) => i = Len(wal) - wal_start)
      BY <1>0, <2>1
    <3> HIDE DEF j
    <3> QED BY <1>0, <2>2, <3>1 DEF WALEntries
  <2>4. ASSUME NEW i \in 1 .. Len(wal) - wal_start, NEW j \in 1 .. Len(wal) - wal_start,
               wal'[i] = wal'[j]
        PROVE  i = j
    <3>1. i + wal_start = j + wal_start
      BY <2>1, <2>4 DEF WALEntries
    <3> QED BY <1>0, <3>1
  <2> QED
    BY <2>1, <2>2, <2>3, <2>4 DEF WALEntries
<1>29. ASSUME NEW t \in Threads, ResetCheckpointId(t) PROVE WALEntries'
  BY <1>0, <1>29 DEF ResetCheckpointId, WALEntries
<1>30. ASSUME NEW t \in Threads, CheckpointReturn(t) PROVE WALEntries'
  BY <1>0, <1>30 DEF CheckpointReturn, CheckpointLock!ReleaseExclusive,
      VacuumLock!ReleaseExclusive, WALEntries
<1>31. CASE UNCHANGED vars
  BY <1>31 DEF vars, WALEntries
<1> QED
  BY <1>1, <1>2, <1>3, <1>4, <1>5, <1>6, <1>7, <1>8, <1>9, <1>10, <1>11, <1>12, <1>13, <1>14,
      <1>15, <1>16, <1>17, <1>18, <1>19, <1>20, <1>21, <1>22, <1>23, <1>24, <1>25, <1>26, <1>27,
      <1>28, <1>29, <1>30, <1>31 DEF Next, EndTransaction, Step, CommitStep, CleanupStep,
      CheckpointStep

-----------------------------------------------------------------------------
(***************************************************************************)
(* Durability.                                                             *)
(***************************************************************************)

\* Whose entries a step adds to the WAL or takes from it.
LEMMA InWALEffect ==
    ASSUME Inv, WALEntries, WALStartCommitted
    PROVE  /\ wal' = wal => InWAL' = InWAL
           /\ \A t \in Threads : WriteToWAL(t) => /\ InWAL \subseteq InWAL'
                                                  /\ t \in InWAL' \/ error' = [error EXCEPT ![t] = TRUE]
           /\ \A t \in Threads : CommitFails(t) => InWAL \ {t} \subseteq InWAL'
           /\ \A c \in Threads : WALFinishCheckpoint(c) =>
                 \A u \in InWAL : u \in InWAL' \/ \E i \in 1 .. wal_start : u = wal[i]
<1>0. wal \in Seq(Threads) /\ DOMAIN wal = 1 .. Len(wal) /\ Len(wal) \in Nat /\ wal_start \in Nat
  BY Typed
<1>1. wal' = wal => InWAL' = InWAL
  BY DEF InWAL
<1>2. ASSUME NEW t \in Threads, WriteToWAL(t)
      PROVE  InWAL \subseteq InWAL' /\ (t \in InWAL' \/ error' = [error EXCEPT ![t] = TRUE])
  <2>1. CASE wal' = Append(wal, t)
    <3>1. /\ DOMAIN wal' = 1 .. Len(wal) + 1 /\ wal'[Len(wal) + 1] = t
          /\ \A i \in 1 .. Len(wal) : wal'[i] = wal[i]
      BY <1>0, <2>1
    <3>2. Len(wal) + 1 \in 1 .. Len(wal) + 1 /\ \A i \in 1 .. Len(wal) : i \in 1 .. Len(wal) + 1
      BY <1>0
    <3> QED BY <1>0, <3>1, <3>2 DEF InWAL
  <2> QED BY <1>1, <1>2, <2>1 DEF WriteToWAL
<1>3. ASSUME NEW t \in Threads, CommitFails(t) PROVE InWAL \ {t} \subseteq InWAL'
  <2>1. /\ wal' \in Seq(Threads)
        /\ \A i \in 1 .. Len(wal) : wal[i] # t => i \in 1 .. Len(wal')
        /\ \A i \in 1 .. Len(wal') : wal'[i] = wal[i]
    BY <1>3, CommitFailsWAL
  <2>2. DOMAIN wal' = 1 .. Len(wal')
    BY <2>1
  <2> QED BY <1>0, <2>1, <2>2 DEF InWAL
<1>4. ASSUME NEW c \in Threads, WALFinishCheckpoint(c), NEW u \in InWAL
      PROVE  u \in InWAL' \/ \E i \in 1 .. wal_start : u = wal[i]
  <2>1. PICK i \in 1 .. Len(wal) : u = wal[i]
    BY <1>0 DEF InWAL
  <2>2. /\ wal' \in Seq(Threads) /\ Len(wal') = Len(wal) - wal_start
        /\ \A j \in 1 .. Len(wal) - wal_start : wal'[j] = wal[j + wal_start]
    BY <1>4, WALFinishWAL
  <2>3. DOMAIN wal' = 1 .. Len(wal) - wal_start
    BY <2>2
  <2>4. CASE i > wal_start
    <3>1. i - wal_start \in 1 .. Len(wal) - wal_start /\ (i - wal_start) + wal_start = i
      BY <1>0, <2>4
    <3> QED BY <2>1, <2>2, <2>3, <3>1 DEF InWAL
  <2>5. CASE i <= wal_start
    BY <1>0, <2>1, <2>5
  <2> QED BY <1>0, <2>4, <2>5
<1> QED
  BY <1>1, <1>2, <1>3, <1>4

\* Every step keeps a committer's entry in the WAL, or the WAL lock with it.
LEMMA WrittenStep ==
    ASSUME Inv, CheckpointLockOwned, WALEntries, WALStartCommitted, WrittenOrSkipped,
           CheckpointerCommitted, [Next]_vars
    PROVE  WrittenOrSkipped' /\ CheckpointerCommitted'
<1> USE DEF Goto, locks, storage_locks, counters, collections, transactions, locals, durable
<1>0. /\ pc \in [Threads -> Labels] /\ error \in [Threads -> BOOLEAN]
      /\ mods \in [Threads -> SUBSET Mods] /\ skip_wal \in [Threads -> BOOLEAN]
      /\ decision \in [Threads -> {"no", "full", "concurrent"}]
      /\ commit_id \in [Threads -> Nat] /\ current_start_timestamp \in Nat
      /\ Checkpointers \subseteq Threads /\ Txns \subseteq Threads /\ NoThread \notin Threads
      /\ Txns \cap Checkpointers = {} /\ Threads = Txns \cup Checkpointers
  BY Typed
<1>00. /\ \A k \in Checkpointers : mods[k] = {}
       /\ \A t \in Threads :
             /\ pc[t] \in {"wal", "written", "backpedal", "backpedalled"} \/ error[t] => mods[t] # {}
             /\ pc[t] \in {"written", "backpedal", "backpedalled", "set_checkpoint_id"} => wal_lock = t
             /\ pc[t] \in {"commit", "remove"} /\ mods[t] # {} => wal_lock = t
             /\ commit_id[t] < current_start_timestamp
       /\ wal' = wal => InWAL' = InWAL
  BY Known, InWALEffect
<1>1. ASSUME NEW t \in Txns, Begin(t) PROVE WrittenOrSkipped' /\ CheckpointerCommitted'
  BY <1>0, <1>1, <1>00 DEF Begin, StartTransaction, WrittenOrSkipped, CheckpointerCommitted,
      CheckpointLockOwned, Writing
<1>2. ASSUME NEW t \in Txns, NEW m \in Mods, SetModifications(t, m) PROVE WrittenOrSkipped' /\ CheckpointerCommitted'
  BY <1>0, <1>2, <1>00 DEF SetModifications, CheckpointLock!AcquireShared,
      VacuumLock!AcquireShared, WrittenOrSkipped, CheckpointerCommitted, CheckpointLockOwned,
      Writing
<1>3. ASSUME NEW t \in Txns, NEW m \in Mods, Modify(t, m) PROVE WrittenOrSkipped' /\ CheckpointerCommitted'
  BY <1>0, <1>3, <1>00 DEF Modify, WrittenOrSkipped, CheckpointerCommitted, CheckpointLockOwned,
      Writing
<1>4. ASSUME NEW t \in Threads, CommitTransaction(t) PROVE WrittenOrSkipped' /\ CheckpointerCommitted'
  <2>1. /\ pc[t] = "active" /\ \A u \in Threads \ {t} : skip_wal'[u] = skip_wal[u]
        /\ ~skip_wal[t]
        /\ \/ skip_wal' = skip_wal /\ mods[t] = {} /\ Goto(t, "commit")
           \/ Goto(t, "wal")
        /\ decision' = decision \/ mods[t] # {}
        /\ \A u \in Threads \ {t} : decision'[u] = decision[u]
        /\ UNCHANGED <<mods, commit_id, error, durable, wal_lock>>
    BY <1>0, <1>4 DEF CommitTransaction, ChangesMade, CheckpointLockOwned
  <2> QED
    BY <1>0, <1>00, <2>1 DEF WrittenOrSkipped, CheckpointerCommitted, Writing
<1>5. ASSUME NEW t \in Threads, RollbackTransaction(t) PROVE WrittenOrSkipped' /\ CheckpointerCommitted'
  BY <1>0, <1>5, <1>00 DEF RollbackTransaction, RemoveTransaction, ChangesMade,
      WrittenOrSkipped, CheckpointerCommitted, CheckpointLockOwned, Writing
<1>6. ASSUME NEW t \in Threads, CommitWAL(t) PROVE WrittenOrSkipped' /\ CheckpointerCommitted'
  <2>1. CASE skip_wal[t]
    BY <1>0, <1>00, <1>6, <2>1 DEF CommitWAL, WrittenOrSkipped, CheckpointerCommitted, Writing
  <2>2. CASE ~skip_wal[t]
    <3>1. InWAL \subseteq InWAL' /\ (t \in InWAL' \/ error' = [error EXCEPT ![t] = TRUE])
      BY <1>6, <2>2, InWALEffect DEF CommitWAL
    <3>2. error' = error \/ error' = [error EXCEPT ![t] = TRUE]
      BY <1>6, <2>2 DEF CommitWAL, WriteToWAL
    <3> QED
      BY <1>0, <1>00, <1>6, <2>2, <3>1, <3>2 DEF CommitWAL, WrittenOrSkipped, CheckpointerCommitted, Writing
  <2> QED BY <2>1, <2>2
<1>7. ASSUME NEW t \in Threads, CommitDecide(t) PROVE WrittenOrSkipped' /\ CheckpointerCommitted'
  BY <1>0, <1>7, <1>00 DEF CommitDecide, CheckpointType, HasOtherTransactions, WrittenOrSkipped,
      CheckpointerCommitted, CheckpointLockOwned, Writing
<1>8. ASSUME NEW t \in Threads, CommitBackpedal(t) PROVE WrittenOrSkipped' /\ CheckpointerCommitted'
  <2>1. InWAL \subseteq InWAL' /\ (t \in InWAL' \/ error' = [error EXCEPT ![t] = TRUE])
    BY <1>8, InWALEffect DEF CommitBackpedal
  <2>2. error' = error \/ error' = [error EXCEPT ![t] = TRUE]
    BY <1>8 DEF CommitBackpedal, WriteToWAL
  <2> QED
    BY <1>0, <1>00, <1>8, <2>1, <2>2 DEF CommitBackpedal, WrittenOrSkipped, CheckpointerCommitted, Writing
<1>9. ASSUME NEW t \in Threads, CommitBackpedalled(t) PROVE WrittenOrSkipped' /\ CheckpointerCommitted'
  BY <1>0, <1>9, <1>00 DEF CommitBackpedalled, WrittenOrSkipped, CheckpointerCommitted,
      CheckpointLockOwned, Writing
<1>10. ASSUME NEW t \in Threads, CommitSucceeds(t) PROVE WrittenOrSkipped' /\ CheckpointerCommitted'
  BY <1>0, <1>10, <1>00 DEF CommitSucceeds, DropCheckpointLock, CheckpointLock!ReleaseExclusive,
      WrittenOrSkipped, CheckpointerCommitted, CheckpointLockOwned, Writing
<1>11. ASSUME NEW t \in Threads, CommitFails(t) PROVE WrittenOrSkipped' /\ CheckpointerCommitted'
  <2>1. InWAL \ {t} \subseteq InWAL'
    BY <1>11, InWALEffect
  <2> QED
    BY <1>0, <1>00, <1>11, <2>1 DEF CommitFails, WrittenOrSkipped, CheckpointerCommitted, Writing
<1>12. ASSUME NEW t \in Threads, CommitRemove(t) PROVE WrittenOrSkipped' /\ CheckpointerCommitted'
  BY <1>0, <1>12, <1>00 DEF CommitRemove, RemoveTransaction, ChangesMade, WrittenOrSkipped,
      CheckpointerCommitted, CheckpointLockOwned, Writing
<1>13. ASSUME NEW t \in Threads, CommitUnlockWAL(t) PROVE WrittenOrSkipped' /\ CheckpointerCommitted'
  BY <1>0, <1>13, <1>00 DEF CommitUnlockWAL, WrittenOrSkipped, CheckpointerCommitted,
      CheckpointLockOwned, Writing
<1>14. ASSUME NEW t \in Threads, CleanupPop(t) PROVE WrittenOrSkipped' /\ CheckpointerCommitted'
  BY <1>0, <1>14, <1>00 DEF CleanupPop, WrittenOrSkipped, CheckpointerCommitted,
      CheckpointLockOwned, Writing
<1>15. ASSUME NEW t \in Threads, CleanupRun(t) PROVE WrittenOrSkipped' /\ CheckpointerCommitted'
  BY <1>0, <1>15, <1>00 DEF CleanupRun, WrittenOrSkipped, CheckpointerCommitted,
      CheckpointLockOwned, Writing
<1>16. ASSUME NEW t \in Threads, CleanupDone(t) PROVE WrittenOrSkipped' /\ CheckpointerCommitted'
  BY <1>0, <1>16, <1>00 DEF CleanupDone, WrittenOrSkipped, CheckpointerCommitted,
      CheckpointLockOwned, Writing
<1>17. ASSUME NEW t \in Checkpointers, Checkpoint(t) PROVE WrittenOrSkipped' /\ CheckpointerCommitted'
  BY <1>0, <1>17, <1>00 DEF Checkpoint, CheckpointLock!AcquireExclusive, WrittenOrSkipped,
      CheckpointerCommitted, CheckpointLockOwned, Writing
<1>18. ASSUME NEW t \in Checkpointers, ForceCheckpoint(t) PROVE WrittenOrSkipped' /\ CheckpointerCommitted'
  BY <1>0, <1>18, <1>00 DEF ForceCheckpoint, WrittenOrSkipped, CheckpointerCommitted,
      CheckpointLockOwned, Writing
<1>19. ASSUME NEW t \in Checkpointers, ForceInterrupted(t) PROVE WrittenOrSkipped' /\ CheckpointerCommitted'
  BY <1>0, <1>19, <1>00 DEF ForceInterrupted, WrittenOrSkipped, CheckpointerCommitted,
      CheckpointLockOwned, Writing
<1>20. ASSUME NEW t \in Threads, ForceObtainsLock(t) PROVE WrittenOrSkipped' /\ CheckpointerCommitted'
  BY <1>0, <1>20, <1>00 DEF ForceObtainsLock, CheckpointLock!AcquireExclusive, WrittenOrSkipped,
      CheckpointerCommitted, CheckpointLockOwned, Writing
<1>21. ASSUME NEW t \in Threads, CheckpointLastCommit(t) PROVE WrittenOrSkipped' /\ CheckpointerCommitted'
  BY <1>0, <1>21, <1>00 DEF CheckpointLastCommit, WrittenOrSkipped, CheckpointerCommitted,
      CheckpointLockOwned, Writing
<1>22. ASSUME NEW t \in Threads, CheckpointLowestActiveStart(t) PROVE WrittenOrSkipped' /\ CheckpointerCommitted'
  BY <1>0, <1>22, <1>00 DEF CheckpointLowestActiveStart, WrittenOrSkipped,
      CheckpointerCommitted, CheckpointLockOwned, Writing
<1>23. ASSUME NEW t \in Threads, CreateCheckpoint(t) PROVE WrittenOrSkipped' /\ CheckpointerCommitted'
  BY <1>0, <1>23, <1>00 DEF CreateCheckpoint, VacuumLock!AcquireExclusive, WrittenOrSkipped,
      CheckpointerCommitted, CheckpointLockOwned, Writing
<1>24. ASSUME NEW t \in Threads, WALStartCheckpoint(t) PROVE WrittenOrSkipped' /\ CheckpointerCommitted'
  BY <1>0, <1>24, <1>00 DEF WALStartCheckpoint, WrittenOrSkipped, CheckpointerCommitted,
      CheckpointLockOwned, Writing
<1>25. ASSUME NEW t \in Threads, SetCheckpointId(t) PROVE WrittenOrSkipped' /\ CheckpointerCommitted'
  BY <1>0, <1>25, <1>00 DEF SetCheckpointId, WrittenOrSkipped, CheckpointerCommitted,
      CheckpointLockOwned, Writing
<1>26. ASSUME NEW t \in Threads, CheckpointBind(t) PROVE WrittenOrSkipped' /\ CheckpointerCommitted'
  BY <1>0, <1>26, <1>00 DEF CheckpointBind, StartTransaction, WrittenOrSkipped,
      CheckpointerCommitted, CheckpointLockOwned, Writing
<1>27. ASSUME NEW t \in Threads, WriteTables(t) PROVE WrittenOrSkipped' /\ CheckpointerCommitted'
  BY <1>0, <1>27, <1>00 DEF WriteTables, WrittenOrSkipped, CheckpointerCommitted,
      CheckpointLockOwned, Writing
<1>28. ASSUME NEW t \in Threads, WALFinishCheckpoint(t) PROVE WrittenOrSkipped' /\ CheckpointerCommitted'
  <2>1. \A u \in InWAL : commit_id[u] = 0 => u \in InWAL'
    BY <1>28, InWALEffect DEF WALStartCommitted
  <2>2. \A u \in Txns : pc[u] \in {"written", "backpedalled", "commit"} => commit_id[u] = 0
    BY Known
  <2> QED
    BY <1>0, <1>00, <1>28, <2>1, <2>2 DEF WALFinishCheckpoint, WrittenOrSkipped, CheckpointerCommitted, Writing
<1>29. ASSUME NEW t \in Threads, ResetCheckpointId(t) PROVE WrittenOrSkipped' /\ CheckpointerCommitted'
  BY <1>0, <1>29, <1>00 DEF ResetCheckpointId, WrittenOrSkipped, CheckpointerCommitted,
      CheckpointLockOwned, Writing
<1>30. ASSUME NEW t \in Threads, CheckpointReturn(t) PROVE WrittenOrSkipped' /\ CheckpointerCommitted'
  BY <1>0, <1>30, <1>00 DEF CheckpointReturn, CheckpointLock!ReleaseExclusive,
      VacuumLock!ReleaseExclusive, WrittenOrSkipped, CheckpointerCommitted, CheckpointLockOwned,
      Writing
<1>31. CASE UNCHANGED vars
  BY <1>31, <1>00 DEF vars, WrittenOrSkipped, CheckpointerCommitted, CheckpointLockOwned,
      Writing
<1> QED
  BY <1>1, <1>2, <1>3, <1>4, <1>5, <1>6, <1>7, <1>8, <1>9, <1>10, <1>11, <1>12, <1>13, <1>14,
      <1>15, <1>16, <1>17, <1>18, <1>19, <1>20, <1>21, <1>22, <1>23, <1>24, <1>25, <1>26, <1>27,
      <1>28, <1>29, <1>30, <1>31 DEF Next, EndTransaction, Step, CommitStep, CleanupStep,
      CheckpointStep

\* What was in the WAL when the checkpoint started stays where it is.
LEMMA WALPrefixStep ==
    ASSUME Inv, WALEntries, WALStartCommitted, NEW t \in Threads, WriteToWAL(t) \/ CommitFails(t) \/ wal' = wal
    PROVE  \A i \in 1 .. wal_start : wal'[i] = wal[i]
<1>1. wal \in Seq(Threads) /\ Len(wal) \in Nat /\ wal_start \in Nat /\ wal_start <= Len(wal)
  BY Typed DEF WALStartCommitted
<1>2. \A i \in 1 .. wal_start : i \in 1 .. Len(wal)
  BY <1>1
<1>3. CASE WriteToWAL(t)
  <2>1. wal' = wal \/ wal' = Append(wal, t)
    BY <1>3 DEF WriteToWAL
  <2>2. CASE wal' = Append(wal, t)
    <3>1. \A i \in 1 .. Len(wal) : wal'[i] = wal[i]
      BY <1>1, <2>2
    <3> QED BY <1>2, <3>1
  <2> QED BY <2>1, <2>2
<1>4. CASE CommitFails(t)
  <2>1. /\ \A i \in 1 .. Len(wal) : wal[i] # t => i \in 1 .. Len(wal')
        /\ \A i \in 1 .. Len(wal') : wal'[i] = wal[i]
        /\ commit_id[t] = 0
    BY <1>4, CommitFailsWAL
  <2> QED BY <1>2, <2>1 DEF WALStartCommitted
<1> QED
  BY <1>3, <1>4

\* Whoever commits was not in the WAL when the checkpoint started.
LEMMA UncommittedStart ==
    ASSUME Inv, WALEntries, WALStartCommitted, NEW t \in Threads, pc[t] = "commit"
    PROVE  \A i \in 1 .. wal_start : wal[i] # t
<1>1. \A i \in 1 .. wal_start : i \in 1 .. Len(wal)
  BY Typed DEF WALStartCommitted
<1> QED
  BY <1>1, Known DEF WALEntries, WALStartCommitted

\* The checkpoint goes on to cover what it is about to drop.
LEMMA CoversStep ==
    ASSUME Inv, CheckpointInv, [Next]_vars
    PROVE  CheckpointCovers'
<1> USE DEF Goto, locks, storage_locks, counters, collections, transactions, locals, durable
<1>0. /\ pc \in [Threads -> Labels] /\ mods \in [Threads -> SUBSET Mods]
      /\ skip_wal \in [Threads -> BOOLEAN] /\ loaded \in [Threads -> Nat]
      /\ commit_id \in [Threads -> Nat] /\ wal_start \in Nat
      /\ Checkpointers \subseteq Threads /\ Txns \subseteq Threads /\ NoThread \notin Threads
      /\ Txns \cap Checkpointers = {} /\ Threads = Txns \cup Checkpointers
      /\ \A i \in 1 .. wal_start : wal[i] \in Threads
  <2>1. \A i \in 1 .. wal_start : i \in 1 .. Len(wal)
    BY Typed DEF CheckpointInv, WALStartCommitted
  <2>2. \A i \in 1 .. wal_start : wal[i] \in Threads
    BY <2>1, Typed
  <2> QED BY <2>2, Typed
<1>00. /\ CheckpointCovers
       /\ \A t \in Threads : skip_wal[t] => t \in Txns
       /\ \A t \in Txns : pc[t] # "bind"
  BY Known DEF CheckpointInv, CheckpointLockOwned
<1>1. ASSUME NEW t \in Txns, Begin(t) PROVE CheckpointCovers'
  BY <1>0, <1>1, <1>00 DEF Begin, StartTransaction, CheckpointCovers
<1>2. ASSUME NEW t \in Txns, NEW m \in Mods, SetModifications(t, m) PROVE CheckpointCovers'
  BY <1>0, <1>2, <1>00 DEF SetModifications, CheckpointLock!AcquireShared,
      VacuumLock!AcquireShared, CheckpointCovers
<1>3. ASSUME NEW t \in Txns, NEW m \in Mods, Modify(t, m) PROVE CheckpointCovers'
  <2>1. commit_id[t] = 0
    BY <1>3, Known DEF Modify
  <2> QED BY <1>0, <1>00, <1>3, <2>1 DEF Modify, CheckpointCovers
<1>4. ASSUME NEW t \in Threads, CommitTransaction(t) PROVE CheckpointCovers'
  <2>1. /\ pc[t] = "active" /\ \A u \in Threads \ {t} : skip_wal'[u] = skip_wal[u]
        /\ \E l \in {"wal", "commit"} : Goto(t, l)
        /\ UNCHANGED <<mods, commit_id, loaded, durable>>
    BY <1>0, <1>4 DEF CommitTransaction
  <2> QED BY <1>0, <1>00, <2>1 DEF CheckpointCovers
<1>5. ASSUME NEW t \in Threads, RollbackTransaction(t) PROVE CheckpointCovers'
  BY <1>0, <1>5, <1>00 DEF RollbackTransaction, RemoveTransaction, ChangesMade, CheckpointCovers
<1>6. ASSUME NEW t \in Threads, CommitWAL(t) PROVE CheckpointCovers'
  <2>1. \A i \in 1 .. wal_start : wal'[i] = wal[i]
    BY <1>6, WALPrefixStep DEF CommitWAL, CheckpointInv
  <2>2. UNCHANGED <<wal_start, file>>
    BY <1>6 DEF CommitWAL, WriteToWAL
  <2> QED BY <1>0, <1>00, <1>6, <2>1, <2>2 DEF CommitWAL, CheckpointCovers
<1>7. ASSUME NEW t \in Threads, CommitDecide(t) PROVE CheckpointCovers'
  BY <1>0, <1>7, <1>00 DEF CommitDecide, CheckpointType, HasOtherTransactions, CheckpointCovers
<1>8. ASSUME NEW t \in Threads, CommitBackpedal(t) PROVE CheckpointCovers'
  <2>1. \A i \in 1 .. wal_start : wal'[i] = wal[i]
    BY <1>8, WALPrefixStep DEF CommitBackpedal, CheckpointInv
  <2>2. UNCHANGED <<wal_start, file>>
    BY <1>8 DEF CommitBackpedal, WriteToWAL
  <2> QED BY <1>0, <1>00, <1>8, <2>1, <2>2 DEF CommitBackpedal, CheckpointCovers
<1>9. ASSUME NEW t \in Threads, CommitBackpedalled(t) PROVE CheckpointCovers'
  BY <1>0, <1>9, <1>00 DEF CommitBackpedalled, CheckpointCovers
<1>10. ASSUME NEW t \in Threads, CommitSucceeds(t) PROVE CheckpointCovers'
  <2>1. /\ pc[t] = "commit" /\ pc' = [pc EXCEPT ![t] = "remove"]
        /\ commit_id' = [commit_id EXCEPT ![t] = current_start_timestamp]
        /\ UNCHANGED <<mods, loaded, skip_wal, durable>>
    BY <1>10 DEF CommitSucceeds
  <2>2. \A i \in 1 .. wal_start : wal[i] # t
    BY <2>1, UncommittedStart DEF CheckpointInv
  <2>3. ASSUME NEW c \in Threads, pc[c] \in {"bind", "write_tables"} PROVE mods[t] \cap InPlace = {}
    <3>1. checkpoint_writer = c /\ t # c /\ t \in active_transactions
      BY <2>1, <2>3, Known DEF CheckpointInv, CheckpointLockOwned, Writing, Running
    <3>2. t \notin checkpoint_readers
      BY <1>0, <3>1 DEF CheckpointInv, CheckpointLockOwned
    <3> QED BY <3>1, <3>2 DEF CheckpointInv, InPlaceChangesLocked
  <2> QED BY <1>0, <1>00, <2>1, <2>2, <2>3 DEF CheckpointCovers
<1>11. ASSUME NEW t \in Threads, CommitFails(t) PROVE CheckpointCovers'
  <2>1. \A i \in 1 .. wal_start : wal'[i] = wal[i]
    BY <1>11, WALPrefixStep DEF CheckpointInv
  <2> QED BY <1>0, <1>00, <1>11, <2>1 DEF CommitFails, CheckpointCovers
<1>12. ASSUME NEW t \in Threads, CommitRemove(t) PROVE CheckpointCovers'
  BY <1>0, <1>12, <1>00 DEF CommitRemove, RemoveTransaction, ChangesMade, CheckpointCovers
<1>13. ASSUME NEW t \in Threads, CommitUnlockWAL(t) PROVE CheckpointCovers'
  BY <1>0, <1>13, <1>00 DEF CommitUnlockWAL, CheckpointCovers
<1>14. ASSUME NEW t \in Threads, CleanupPop(t) PROVE CheckpointCovers'
  BY <1>0, <1>14, <1>00 DEF CleanupPop, CheckpointCovers
<1>15. ASSUME NEW t \in Threads, CleanupRun(t) PROVE CheckpointCovers'
  BY <1>0, <1>15, <1>00 DEF CleanupRun, CheckpointCovers
<1>16. ASSUME NEW t \in Threads, CleanupDone(t) PROVE CheckpointCovers'
  BY <1>0, <1>16, <1>00 DEF CleanupDone, CheckpointCovers
<1>17. ASSUME NEW t \in Checkpointers, Checkpoint(t) PROVE CheckpointCovers'
  BY <1>0, <1>17, <1>00 DEF Checkpoint, CheckpointLock!AcquireExclusive, CheckpointCovers
<1>18. ASSUME NEW t \in Checkpointers, ForceCheckpoint(t) PROVE CheckpointCovers'
  BY <1>0, <1>18, <1>00 DEF ForceCheckpoint, CheckpointCovers
<1>19. ASSUME NEW t \in Checkpointers, ForceInterrupted(t) PROVE CheckpointCovers'
  BY <1>0, <1>19, <1>00 DEF ForceInterrupted, CheckpointCovers
<1>20. ASSUME NEW t \in Threads, ForceObtainsLock(t) PROVE CheckpointCovers'
  BY <1>0, <1>20, <1>00 DEF ForceObtainsLock, CheckpointLock!AcquireExclusive, CheckpointCovers
<1>21. ASSUME NEW t \in Threads, CheckpointLastCommit(t) PROVE CheckpointCovers'
  BY <1>0, <1>21, <1>00 DEF CheckpointLastCommit, CheckpointCovers
<1>22. ASSUME NEW t \in Threads, CheckpointLowestActiveStart(t) PROVE CheckpointCovers'
  BY <1>0, <1>22, <1>00 DEF CheckpointLowestActiveStart, CheckpointCovers
<1>23. ASSUME NEW t \in Threads, CreateCheckpoint(t) PROVE CheckpointCovers'
  BY <1>0, <1>23, <1>00 DEF CreateCheckpoint, CheckpointCovers
<1>24. ASSUME NEW t \in Threads, WALStartCheckpoint(t) PROVE CheckpointCovers'
  BY <1>0, <1>24, <1>00 DEF WALStartCheckpoint, CheckpointCovers
<1>25. ASSUME NEW t \in Threads, SetCheckpointId(t) PROVE CheckpointCovers'
  <2>1. /\ pc[t] = "set_checkpoint_id" /\ wal_start' = Len(wal)
        /\ pc' = [pc EXCEPT ![t] = IF t \in Checkpointers THEN "bind" ELSE "write_tables"]
        /\ UNCHANGED <<mods, loaded, skip_wal, commit_id, wal, file>>
    BY <1>25 DEF SetCheckpointId
  <2>2. \A c \in Threads : pc[c] \in {"bind", "write_tables", "wal_finish"} => FALSE
    BY <1>0, <2>1 DEF CheckpointInv, CheckpointLockOwned, Writing
  <2>3. \A u \in Threads : mods[u] # {} => commit_id[u] <= loaded[t]
    BY <2>1 DEF Inv, CheckpointIdCovers
  <2>4. t \in Txns => mods[t] # {}
    BY <2>1 DEF CheckpointInv, CheckpointLockOwned, CheckpointerCommitted, Writing
  <2>5. \A i \in 1 .. Len(wal) : wal[i] \in Threads /\ mods[wal[i]] # {}
    BY <1>0 DEF CheckpointInv, WALEntries
  <2> QED BY <1>0, <1>00, <2>1, <2>2, <2>3, <2>4, <2>5 DEF CheckpointCovers
<1>26. ASSUME NEW t \in Threads, CheckpointBind(t) PROVE CheckpointCovers'
  BY <1>0, <1>26, <1>00 DEF CheckpointBind, StartTransaction, CheckpointCovers
<1>27. ASSUME NEW t \in Threads, WriteTables(t) PROVE CheckpointCovers'
  <2>1. /\ pc[t] = "write_tables" /\ pc' = [pc EXCEPT ![t] = "wal_finish"]
        /\ file \cup TablesWritten(t) \subseteq file'
        /\ UNCHANGED <<mods, loaded, skip_wal, commit_id, wal, wal_start>>
    BY <1>27 DEF WriteTables
  <2>2. \A i \in 1 .. wal_start : wal[i] \in TablesWritten(t)
    <3>1. \A i \in 1 .. wal_start : i \in 1 .. Len(wal)
      BY Typed DEF CheckpointInv, WALStartCommitted
    <3>2. \A i \in 1 .. wal_start : mods[wal[i]] # {} /\ commit_id[wal[i]] # 0
      BY <3>1 DEF CheckpointInv, WALEntries, WALStartCommitted
    <3> QED BY <1>0, <1>00, <2>1, <3>2 DEF CheckpointCovers, TablesWritten, Committed, ChangesMade
  <2>3. t \in Txns => t \in TablesWritten(t)
    BY <1>0, <1>00, <2>1 DEF CheckpointCovers, TablesWritten, Committed, ChangesMade, CheckpointInv,
       CheckpointLockOwned, CheckpointerCommitted, Writing
  <2> QED BY <1>0, <1>00, <2>1, <2>2, <2>3 DEF CheckpointCovers
<1>28. ASSUME NEW t \in Threads, WALFinishCheckpoint(t) PROVE CheckpointCovers'
  <2>1. /\ pc[t] = "wal_finish" /\ wal_start' = 0
        /\ pc' = [pc EXCEPT ![t] = IF t \in Checkpointers THEN "active" ELSE "clear"]
        /\ UNCHANGED <<mods, loaded, skip_wal, commit_id, file>>
    BY <1>28 DEF WALFinishCheckpoint
  <2>2. 1 .. 0 = {}
    OBVIOUS
  <2> QED BY <1>0, <1>00, <2>1, <2>2 DEF CheckpointCovers
<1>29. ASSUME NEW t \in Threads, ResetCheckpointId(t) PROVE CheckpointCovers'
  BY <1>0, <1>29, <1>00 DEF ResetCheckpointId, CheckpointCovers
<1>30. ASSUME NEW t \in Threads, CheckpointReturn(t) PROVE CheckpointCovers'
  BY <1>0, <1>30, <1>00 DEF CheckpointReturn, CheckpointLock!ReleaseExclusive,
      VacuumLock!ReleaseExclusive, CheckpointCovers
<1>31. CASE UNCHANGED vars
  BY <1>31, <1>00 DEF vars, CheckpointCovers
<1> QED
  BY <1>1, <1>2, <1>3, <1>4, <1>5, <1>6, <1>7, <1>8, <1>9, <1>10, <1>11, <1>12, <1>13, <1>14,
      <1>15, <1>16, <1>17, <1>18, <1>19, <1>20, <1>21, <1>22, <1>23, <1>24, <1>25, <1>26, <1>27,
      <1>28, <1>29, <1>30, <1>31 DEF Next, EndTransaction, Step, CommitStep, CleanupStep,
      CheckpointStep

\* A commit that is in neither the WAL nor the file is the last one, and its
\* transaction still owns the WAL lock.
LEMMA DurableStep ==
    ASSUME Inv, CheckpointInv, [Next]_vars
    PROVE  DurableOrAlone'
<1> USE DEF Goto, locks, storage_locks, counters, collections, transactions, locals, durable
<1>0. /\ pc \in [Threads -> Labels] /\ mods \in [Threads -> SUBSET Mods]
      /\ skip_wal \in [Threads -> BOOLEAN] /\ error \in [Threads -> BOOLEAN]
      /\ commit_id \in [Threads -> Nat] /\ current_start_timestamp \in Nat
      /\ Checkpointers \subseteq Threads /\ Txns \subseteq Threads /\ NoThread \notin Threads
      /\ Txns \cap Checkpointers = {} /\ Threads = Txns \cup Checkpointers
  BY Typed
<1>00. /\ DurableOrAlone
       /\ wal' = wal => InWAL' = InWAL
       /\ \A t \in Threads : commit_id[t] < current_start_timestamp
       /\ \A t \in Threads : pc[t] \in {"active", "wal", "written", "backpedal", "backpedalled",
                                        "commit"} => mods[t] = {} \/ commit_id[t] = 0
  BY Known, InWALEffect, <1>0 DEF CheckpointInv
<1>1. ASSUME NEW t \in Txns, Begin(t) PROVE DurableOrAlone'
  BY <1>0, <1>1, <1>00 DEF Begin, StartTransaction, DurableOrAlone, Committed, ChangesMade
<1>2. ASSUME NEW t \in Txns, NEW m \in Mods, SetModifications(t, m) PROVE DurableOrAlone'
  BY <1>0, <1>2, <1>00 DEF SetModifications,
      VacuumLock!AcquireShared, DurableOrAlone, Committed, ChangesMade
<1>3. ASSUME NEW t \in Txns, NEW m \in Mods, Modify(t, m) PROVE DurableOrAlone'
  <2>1. commit_id[t] = 0
    BY <1>3, Known DEF Modify
  <2> QED BY <1>0, <1>00, <1>3, <2>1 DEF Modify, DurableOrAlone, Committed, ChangesMade
<1>4. ASSUME NEW t \in Threads, CommitTransaction(t) PROVE DurableOrAlone'
  <2>1. /\ pc[t] = "active" /\ \A u \in Threads \ {t} : skip_wal'[u] = skip_wal[u]
        /\ UNCHANGED <<mods, commit_id, wal_lock, durable>>
    BY <1>0, <1>4 DEF CommitTransaction
  <2> QED BY <1>0, <1>00, <2>1 DEF DurableOrAlone, Committed, ChangesMade
<1>5. ASSUME NEW t \in Threads, RollbackTransaction(t) PROVE DurableOrAlone'
  BY <1>0, <1>5, <1>00 DEF RollbackTransaction, RemoveTransaction, ChangesMade, DurableOrAlone,
      Committed, ChangesMade
<1>6. ASSUME NEW t \in Threads, CommitWAL(t) PROVE DurableOrAlone'
  <2>1. InWAL \subseteq InWAL'
    BY <1>0, <1>00, <1>6, InWALEffect DEF CommitWAL, CheckpointInv
  <2>2. /\ wal_lock = NoThread /\ UNCHANGED <<mods, commit_id, file>>
    BY <1>6 DEF CommitWAL, WriteToWAL
  <2> QED BY <1>0, <1>00, <2>1, <2>2 DEF DurableOrAlone, Committed, ChangesMade
<1>7. ASSUME NEW t \in Threads, CommitDecide(t) PROVE DurableOrAlone'
  BY <1>0, <1>7, <1>00 DEF CommitDecide, CheckpointType, HasOtherTransactions, DurableOrAlone,
      Committed, ChangesMade
<1>8. ASSUME NEW t \in Threads, CommitBackpedal(t) PROVE DurableOrAlone'
  <2>1. InWAL \subseteq InWAL'
    BY <1>0, <1>00, <1>8, InWALEffect DEF CommitBackpedal, CheckpointInv
  <2>2. UNCHANGED <<mods, commit_id, file, skip_wal, wal_lock>>
    BY <1>8 DEF CommitBackpedal, WriteToWAL
  <2> QED BY <1>0, <1>00, <2>1, <2>2 DEF DurableOrAlone, Committed, ChangesMade
<1>9. ASSUME NEW t \in Threads, CommitBackpedalled(t) PROVE DurableOrAlone'
  BY <1>0, <1>9, <1>00 DEF CommitBackpedalled, DurableOrAlone, Committed, ChangesMade
<1>10. ASSUME NEW t \in Threads, CommitSucceeds(t) PROVE DurableOrAlone'
  <2>1. /\ pc[t] = "commit" /\ ~error[t]
        /\ commit_id' = [commit_id EXCEPT ![t] = current_start_timestamp]
        /\ UNCHANGED <<mods, skip_wal, wal_lock, durable>>
    BY <1>10 DEF CommitSucceeds
  <2>2. CASE mods[t] = {}
    BY <1>0, <1>00, <2>1, <2>2 DEF DurableOrAlone, Committed, ChangesMade
  <2>3. CASE mods[t] # {}
    <3>1. wal_lock = t
      BY <2>1, <2>3, Known
    <3>2. skip_wal[t] \/ t \in InWAL
      BY <2>1, <2>3 DEF CheckpointInv, WrittenOrSkipped
    <3>3. Committed \subseteq InWAL \cup file
      BY <1>00, <2>1, <3>1 DEF DurableOrAlone, Committed, ChangesMade
    <3> QED BY <1>0, <1>00, <2>1, <3>1, <3>2, <3>3 DEF DurableOrAlone, Committed, ChangesMade
  <2> QED BY <2>2, <2>3
<1>11. ASSUME NEW t \in Threads, CommitFails(t) PROVE DurableOrAlone'
  <2>1. InWAL \ {t} \subseteq InWAL'
    BY <1>11, InWALEffect DEF CheckpointInv
  <2>2. /\ pc[t] = "commit" /\ mods[t] # {} /\ UNCHANGED <<mods, commit_id, wal_lock, file>>
        /\ skip_wal' = [skip_wal EXCEPT ![t] = FALSE]
    BY <1>11 DEF CommitFails, ChangesMade
  <2> QED BY <1>0, <1>00, <2>1, <2>2 DEF DurableOrAlone, Committed, ChangesMade
<1>12. ASSUME NEW t \in Threads, CommitRemove(t) PROVE DurableOrAlone'
  BY <1>0, <1>12, <1>00 DEF CommitRemove, RemoveTransaction, ChangesMade, DurableOrAlone,
      Committed, ChangesMade
<1>13. ASSUME NEW t \in Threads, CommitUnlockWAL(t) PROVE DurableOrAlone'
  BY <1>0, <1>13, <1>00 DEF CommitUnlockWAL, DurableOrAlone, Committed, ChangesMade
<1>14. ASSUME NEW t \in Threads, CleanupPop(t) PROVE DurableOrAlone'
  BY <1>0, <1>14, <1>00 DEF CleanupPop, DurableOrAlone, Committed, ChangesMade
<1>15. ASSUME NEW t \in Threads, CleanupRun(t) PROVE DurableOrAlone'
  BY <1>0, <1>15, <1>00 DEF CleanupRun, DurableOrAlone, Committed, ChangesMade
<1>16. ASSUME NEW t \in Threads, CleanupDone(t) PROVE DurableOrAlone'
  BY <1>0, <1>16, <1>00 DEF CleanupDone, DurableOrAlone, Committed, ChangesMade
<1>17. ASSUME NEW t \in Checkpointers, Checkpoint(t) PROVE DurableOrAlone'
  BY <1>0, <1>17, <1>00 DEF Checkpoint, DurableOrAlone,
      Committed, ChangesMade
<1>18. ASSUME NEW t \in Checkpointers, ForceCheckpoint(t) PROVE DurableOrAlone'
  BY <1>0, <1>18, <1>00 DEF ForceCheckpoint, DurableOrAlone, Committed, ChangesMade
<1>19. ASSUME NEW t \in Checkpointers, ForceInterrupted(t) PROVE DurableOrAlone'
  BY <1>0, <1>19, <1>00 DEF ForceInterrupted, DurableOrAlone, Committed, ChangesMade
<1>20. ASSUME NEW t \in Threads, ForceObtainsLock(t) PROVE DurableOrAlone'
  BY <1>0, <1>20, <1>00 DEF ForceObtainsLock, DurableOrAlone,
      Committed, ChangesMade
<1>21. ASSUME NEW t \in Threads, CheckpointLastCommit(t) PROVE DurableOrAlone'
  BY <1>0, <1>21, <1>00 DEF CheckpointLastCommit, DurableOrAlone, Committed, ChangesMade
<1>22. ASSUME NEW t \in Threads, CheckpointLowestActiveStart(t) PROVE DurableOrAlone'
  BY <1>0, <1>22, <1>00 DEF CheckpointLowestActiveStart, DurableOrAlone, Committed, ChangesMade
<1>23. ASSUME NEW t \in Threads, CreateCheckpoint(t) PROVE DurableOrAlone'
  BY <1>0, <1>23, <1>00 DEF CreateCheckpoint, DurableOrAlone,
      Committed, ChangesMade
<1>24. ASSUME NEW t \in Threads, WALStartCheckpoint(t) PROVE DurableOrAlone'
  BY <1>0, <1>24, <1>00 DEF WALStartCheckpoint, DurableOrAlone, Committed, ChangesMade
<1>25. ASSUME NEW t \in Threads, SetCheckpointId(t) PROVE DurableOrAlone'
  <2>1. wal_lock = t
    BY <1>25, Known DEF SetCheckpointId
  <2> QED BY <1>0, <1>00, <1>25, <2>1 DEF SetCheckpointId, DurableOrAlone, Committed, ChangesMade
<1>26. ASSUME NEW t \in Threads, CheckpointBind(t) PROVE DurableOrAlone'
  BY <1>0, <1>26, <1>00 DEF CheckpointBind, StartTransaction, DurableOrAlone, Committed,
      ChangesMade
<1>27. ASSUME NEW t \in Threads, WriteTables(t) PROVE DurableOrAlone'
  <2>1. file \subseteq file' /\ UNCHANGED <<mods, commit_id, wal_lock, skip_wal, wal>>
    BY <1>27 DEF WriteTables
  <2> QED BY <1>0, <1>00, <2>1 DEF DurableOrAlone, Committed, ChangesMade
<1>28. ASSUME NEW t \in Threads, WALFinishCheckpoint(t) PROVE DurableOrAlone'
  <2>1. \A u \in InWAL : u \in InWAL' \/ u \in file
    BY <1>28, InWALEffect DEF WALFinishCheckpoint, CheckpointInv, CheckpointCovers
  <2>2. UNCHANGED <<mods, commit_id, wal_lock, skip_wal, file>>
    BY <1>28 DEF WALFinishCheckpoint
  <2> QED BY <1>0, <1>00, <2>1, <2>2 DEF DurableOrAlone, Committed, ChangesMade
<1>29. ASSUME NEW t \in Threads, ResetCheckpointId(t) PROVE DurableOrAlone'
  BY <1>0, <1>29, <1>00 DEF ResetCheckpointId, DurableOrAlone, Committed, ChangesMade
<1>30. ASSUME NEW t \in Threads, CheckpointReturn(t) PROVE DurableOrAlone'
  <2>1. skip_wal[t] => t \in file
    BY <1>30 DEF CheckpointReturn, CheckpointInv, CheckpointCovers
  <2>2. /\ UNCHANGED <<mods, commit_id, durable>>
        /\ wal_lock' = wal_lock \/ wal_lock = t
        /\ skip_wal' = [skip_wal EXCEPT ![t] = FALSE]
    BY <1>30 DEF CheckpointReturn
  <2> QED BY <1>0, <1>00, <2>1, <2>2 DEF DurableOrAlone, Committed, ChangesMade
<1>31. CASE UNCHANGED vars
  BY <1>31, <1>00 DEF vars, DurableOrAlone, Committed, ChangesMade
<1> QED
  BY <1>1, <1>2, <1>3, <1>4, <1>5, <1>6, <1>7, <1>8, <1>9, <1>10, <1>11, <1>12, <1>13, <1>14,
      <1>15, <1>16, <1>17, <1>18, <1>19, <1>20, <1>21, <1>22, <1>23, <1>24, <1>25, <1>26, <1>27,
      <1>28, <1>29, <1>30, <1>31 DEF Next, EndTransaction, Step, CommitStep, CleanupStep,
      CheckpointStep

-----------------------------------------------------------------------------
(***************************************************************************)
(* In-place changes.                                                       *)
(***************************************************************************)

\* What a removal does to active_transactions and to the shared checkpoint lock.
LEMMA RemovedEffect ==
    ASSUME Inv, NEW t \in Threads, RollbackTransaction(t) \/ CommitRemove(t)
    PROVE  /\ active_transactions' = active_transactions \ {t}
           /\ mods[t] # {} => checkpoint_readers' = checkpoint_readers
           /\ checkpoint_readers' \subseteq checkpoint_readers
           /\ \A u \in checkpoint_readers \ {t} : u \in checkpoint_readers'
<1>1. ASSUME NEW store \in BOOLEAN, RemoveTransaction(t, store)
      PROVE  /\ active_transactions' = active_transactions \ {t}
             /\ mods[t] # {} => checkpoint_readers' = checkpoint_readers
             /\ checkpoint_readers' \subseteq checkpoint_readers
             /\ \A u \in checkpoint_readers \ {t} : u \in checkpoint_readers'
  BY <1>1 DEF RemoveTransaction, ChangesMade
<1>2. RollbackTransaction(t) => RemoveTransaction(t, ChangesMade(t)) /\ ChangesMade(t) \in BOOLEAN
  BY DEF RollbackTransaction, ChangesMade
<1>3. CommitRemove(t) => /\ RemoveTransaction(t, mods[t] \cap Stored # {} \/ error[t])
                         /\ (mods[t] \cap Stored # {} \/ error[t]) \in BOOLEAN
  BY DEF CommitRemove
<1> QED
  BY <1>1, <1>2, <1>3

\* Every step keeps the shared checkpoint lock with whoever has changes whose old
\* versions may be needed.
LEMMA InPlaceStep ==
    ASSUME Inv, CheckpointInv, [Next]_vars
    PROVE  ActiveIsRunning' /\ InPlaceChangesLocked'
<1> USE DEF Goto, locks, storage_locks, counters, collections, transactions, locals, durable
<1>0. /\ pc \in [Threads -> Labels] /\ mods \in [Threads -> SUBSET Mods]
      /\ error \in [Threads -> BOOLEAN] /\ decision \in [Threads -> {"no", "full", "concurrent"}]
      /\ start_time \in [Threads -> Nat] /\ commit_id \in [Threads -> Nat]
      /\ current_start_timestamp \in Nat /\ active_transactions \subseteq Threads
      /\ Checkpointers \subseteq Threads /\ Txns \subseteq Threads /\ NoThread \notin Threads
      /\ Txns \cap Checkpointers = {} /\ Threads = Txns \cup Checkpointers
  BY Typed
<1>00. /\ ActiveIsRunning /\ InPlaceChangesLocked
       /\ \A k \in Checkpointers : mods[k] = {}
       /\ \A t \in Txns : /\ pc[t] \notin {"bind", "force_spin", "last_commit", "checkpoint_type"}
                          /\ pc[t] \in {"none", "active", "backpedal", "backpedalled", "done"} => decision[t] = "no"
       /\ \A t \in Threads : pc[t] \in {"commit", "remove"} => transaction_lock = t
       /\ \A t \in Threads : commit_id[t] < current_start_timestamp
  BY <1>0, Known DEF CheckpointInv, CheckpointLockOwned
<1>1. ASSUME NEW t \in Txns, Begin(t) PROVE ActiveIsRunning' /\ InPlaceChangesLocked'
  <2>1. /\ transaction_lock = NoThread /\ current_start_timestamp > 0 /\ mods[t] = {}
        /\ start_time' = [start_time EXCEPT ![t] = current_start_timestamp]
        /\ active_transactions' = active_transactions \cup {t}
        /\ UNCHANGED <<checkpoint_readers, commit_id, mods, decision, error>>
    BY <1>0, <1>00, <1>1 DEF Begin, StartTransaction, ActiveIsRunning
  <2>2. \A u \in Threads : pc[u] \notin {"commit", "remove"}
    BY <1>0, <1>00, <2>1
  <2>3. pc[t] = "none" /\ pc' = [pc EXCEPT ![t] = "active"]
    BY <1>0, <1>00, <1>1 DEF Begin, StartTransaction
  <2> QED BY <1>0, <1>00, <2>1, <2>2, <2>3 DEF ActiveIsRunning, InPlaceChangesLocked, Running, Writing
<1>2. ASSUME NEW t \in Txns, NEW m \in Mods, SetModifications(t, m) PROVE ActiveIsRunning' /\ InPlaceChangesLocked'
  <2>1. /\ checkpoint_readers \subseteq checkpoint_readers'
        /\ UNCHANGED <<pc, active_transactions, start_time, commit_id, mods, decision, error>>
    BY <1>2 DEF SetModifications, CheckpointLock!AcquireShared
  <2> QED BY <1>00, <2>1 DEF ActiveIsRunning, InPlaceChangesLocked, Writing
<1>3. ASSUME NEW t \in Txns, NEW m \in Mods, Modify(t, m) PROVE ActiveIsRunning' /\ InPlaceChangesLocked'
  <2>1. /\ pc[t] = "active" /\ (m \in InPlace => t \in checkpoint_readers)
        /\ mods' = [mods EXCEPT ![t] = @ \cup {m}]
        /\ UNCHANGED <<pc, active_transactions, checkpoint_readers, start_time, commit_id, decision,
                       error>>
    BY <1>3 DEF Modify, InPlace, RequiresCheckpointLock
  <2> QED BY <1>0, <1>00, <2>1 DEF ActiveIsRunning, InPlaceChangesLocked, Running, Writing
<1>4. ASSUME NEW t \in Threads, CommitTransaction(t) PROVE ActiveIsRunning' /\ InPlaceChangesLocked'
  <2>1. /\ pc[t] = "active"
        /\ \/ mods[t] = {} /\ pc' = [pc EXCEPT ![t] = "commit"]
           \/ pc' = [pc EXCEPT ![t] = "wal"]
        /\ \A u \in Threads \ {t} : decision'[u] = decision[u]
        /\ UNCHANGED <<active_transactions, checkpoint_readers, start_time, commit_id, mods, error>>
    BY <1>0, <1>4 DEF CommitTransaction, ChangesMade, CheckpointLock!Upgrade,
       CheckpointLock!AcquireExclusive
  <2> QED BY <1>0, <1>00, <2>1 DEF ActiveIsRunning, InPlaceChangesLocked, Running, Writing
<1>5. ASSUME NEW t \in Threads, RollbackTransaction(t) PROVE ActiveIsRunning' /\ InPlaceChangesLocked'
  <2>1. /\ active_transactions' = active_transactions \ {t}
        /\ \A u \in Threads : mods[u] \cap InPlace # {} /\ u \in checkpoint_readers =>
              u \in checkpoint_readers'
    BY <1>5, RemovedEffect
  <2>2. /\ pc[t] = "active" /\ pc' = [pc EXCEPT ![t] = "cleanup"]
        /\ UNCHANGED <<commit_id, start_time, mods, decision, error>>
    BY <1>5 DEF RollbackTransaction
  <2> QED BY <1>0, <1>00, <2>1, <2>2 DEF ActiveIsRunning, InPlaceChangesLocked, Running, Writing
<1>6. ASSUME NEW t \in Threads, CommitWAL(t) PROVE ActiveIsRunning' /\ InPlaceChangesLocked'
  <2>1. /\ pc[t] = "wal" /\ pc' = [pc EXCEPT ![t] = "written"]
        /\ UNCHANGED <<active_transactions, checkpoint_readers, start_time, mods, commit_id, decision>>
        /\ \A u \in Threads \ {t} : error'[u] = error[u]
    BY <1>0, <1>6 DEF CommitWAL, WriteToWAL
  <2> QED BY <1>0, <1>00, <2>1 DEF ActiveIsRunning, InPlaceChangesLocked, Running, Writing
<1>7. ASSUME NEW t \in Threads, CommitDecide(t) PROVE ActiveIsRunning' /\ InPlaceChangesLocked'
  <2>1. /\ pc[t] = "written"
        /\ \/ pc' = [pc EXCEPT ![t] = "backpedal"]
           \/ /\ pc' = [pc EXCEPT ![t] = "commit"]
              /\ \/ error[t]
                 \/ decision'[t] = "no"
                 \/ decision'[t] = CheckpointType(t)
        /\ \A u \in Threads \ {t} : decision'[u] = decision[u]
        /\ UNCHANGED <<active_transactions, checkpoint_readers, start_time, commit_id, mods, error>>
    BY <1>0, <1>7 DEF CommitDecide
  <2>2. mods[t] \cap InPlace # {} /\ CheckpointType(t) # "no" => active_transactions \subseteq {t}
    BY DEF CheckpointType, HasOtherTransactions, InPlace
  <2> QED BY <1>0, <1>00, <2>1, <2>2 DEF ActiveIsRunning, InPlaceChangesLocked, Running, Writing
<1>8. ASSUME NEW t \in Threads, CommitBackpedal(t) PROVE ActiveIsRunning' /\ InPlaceChangesLocked'
  <2>1. /\ pc[t] = "backpedal" /\ pc' = [pc EXCEPT ![t] = "backpedalled"]
        /\ UNCHANGED <<active_transactions, checkpoint_readers, start_time, mods, commit_id, decision>>
        /\ \A u \in Threads \ {t} : error'[u] = error[u]
    BY <1>0, <1>8 DEF CommitBackpedal, WriteToWAL
  <2> QED BY <1>0, <1>00, <2>1 DEF ActiveIsRunning, InPlaceChangesLocked, Running, Writing
<1>9. ASSUME NEW t \in Threads, CommitBackpedalled(t) PROVE ActiveIsRunning' /\ InPlaceChangesLocked'
  BY <1>0, <1>9, <1>00 DEF CommitBackpedalled, ActiveIsRunning, InPlaceChangesLocked, Running,
      Writing
<1>10. ASSUME NEW t \in Threads, CommitSucceeds(t) PROVE ActiveIsRunning' /\ InPlaceChangesLocked'
  <2>1. /\ pc[t] = "commit" /\ ~error[t] /\ pc' = [pc EXCEPT ![t] = "remove"]
        /\ commit_id' = [commit_id EXCEPT ![t] = current_start_timestamp]
        /\ checkpoint_readers' = checkpoint_readers
        /\ UNCHANGED <<active_transactions, start_time, mods, error, decision>>
    BY <1>10 DEF CommitSucceeds, DropCheckpointLock, CheckpointLock!ReleaseExclusive
  <2>2. t \in active_transactions
    BY <2>1, Known DEF Running
  <2> QED BY <1>0, <1>00, <2>1, <2>2 DEF ActiveIsRunning, InPlaceChangesLocked, Running, Writing
<1>11. ASSUME NEW t \in Threads, CommitFails(t) PROVE ActiveIsRunning' /\ InPlaceChangesLocked'
  <2>1. /\ pc[t] = "commit" /\ pc' = [pc EXCEPT ![t] = "remove"]
        /\ decision' = [decision EXCEPT ![t] = "no"] /\ error' = [error EXCEPT ![t] = TRUE]
        /\ checkpoint_readers' = checkpoint_readers
        /\ UNCHANGED <<active_transactions, start_time, mods, commit_id>>
    BY <1>11 DEF CommitFails, DropCheckpointLock, CheckpointLock!ReleaseExclusive
  <2> QED BY <1>0, <1>00, <2>1 DEF ActiveIsRunning, InPlaceChangesLocked, Running, Writing
<1>12. ASSUME NEW t \in Threads, CommitRemove(t) PROVE ActiveIsRunning' /\ InPlaceChangesLocked'
  <2>1. /\ active_transactions' = active_transactions \ {t}
        /\ \A u \in Threads : mods[u] \cap InPlace # {} /\ u \in checkpoint_readers =>
              u \in checkpoint_readers'
    BY <1>12, RemovedEffect
  <2>2. /\ pc[t] = "remove" /\ pc' = [pc EXCEPT ![t] = "unlock_wal"]
        /\ UNCHANGED <<commit_id, start_time, mods, decision, error>>
    BY <1>12 DEF CommitRemove
  <2> QED BY <1>0, <1>00, <2>1, <2>2 DEF ActiveIsRunning, InPlaceChangesLocked, Running, Writing
<1>13. ASSUME NEW t \in Threads, CommitUnlockWAL(t) PROVE ActiveIsRunning' /\ InPlaceChangesLocked'
  BY <1>0, <1>13, <1>00 DEF CommitUnlockWAL, ActiveIsRunning, InPlaceChangesLocked, Running,
      Writing
<1>14. ASSUME NEW t \in Threads, CleanupPop(t) PROVE ActiveIsRunning' /\ InPlaceChangesLocked'
  BY <1>0, <1>14, <1>00 DEF CleanupPop, ActiveIsRunning, InPlaceChangesLocked, Running, Writing
<1>15. ASSUME NEW t \in Threads, CleanupRun(t) PROVE ActiveIsRunning' /\ InPlaceChangesLocked'
  <2>1. /\ pc[t] = "clean" /\ pc' = [pc EXCEPT ![t] = "cleanup"]
        /\ checkpoint_readers' = checkpoint_readers \ cleaning[t]
        /\ UNCHANGED <<active_transactions, start_time, mods, commit_id, error, decision>>
    BY <1>15 DEF CleanupRun
  <2>2. ASSUME NEW u \in cleaning[t], mods[u] \cap InPlace # {}
        PROVE  /\ u \notin active_transactions
               /\ \A a \in active_transactions : commit_id[u] < start_time[a]
    <3>1. u \in AwaitingCleanup
      BY Typed DEF AwaitingCleanup
    <3>2. u \notin active_transactions
      BY <3>1 DEF Inv, Retired
    <3>3. mods[u] \cap Stored # {}
      BY <2>2 DEF InPlace, Stored
    <3>4. commit_id[u] # 0 => \A a \in active_transactions : commit_id[u] < start_time[a]
      BY <3>1, <3>3 DEF Inv, CleanupSafe
    <3> QED BY <1>00, <3>2, <3>4 DEF ActiveIsRunning
  <2> QED BY <1>0, <1>00, <2>1, <2>2 DEF ActiveIsRunning, InPlaceChangesLocked, Running, Writing
<1>16. ASSUME NEW t \in Threads, CleanupDone(t) PROVE ActiveIsRunning' /\ InPlaceChangesLocked'
  BY <1>0, <1>16, <1>00 DEF CleanupDone, ActiveIsRunning, InPlaceChangesLocked, Running, Writing
<1>17. ASSUME NEW t \in Checkpointers, Checkpoint(t) PROVE ActiveIsRunning' /\ InPlaceChangesLocked'
  BY <1>0, <1>17, <1>00 DEF Checkpoint, CheckpointLock!AcquireExclusive, ActiveIsRunning,
      InPlaceChangesLocked, Running, Writing
<1>18. ASSUME NEW t \in Checkpointers, ForceCheckpoint(t) PROVE ActiveIsRunning' /\ InPlaceChangesLocked'
  BY <1>0, <1>18, <1>00 DEF ForceCheckpoint, ActiveIsRunning, InPlaceChangesLocked, Running,
      Writing
<1>19. ASSUME NEW t \in Checkpointers, ForceInterrupted(t) PROVE ActiveIsRunning' /\ InPlaceChangesLocked'
  BY <1>0, <1>19, <1>00 DEF ForceInterrupted, ActiveIsRunning, InPlaceChangesLocked, Running,
      Writing
<1>20. ASSUME NEW t \in Threads, ForceObtainsLock(t) PROVE ActiveIsRunning' /\ InPlaceChangesLocked'
  BY <1>0, <1>20, <1>00 DEF ForceObtainsLock, CheckpointLock!AcquireExclusive, ActiveIsRunning,
      InPlaceChangesLocked, Running, Writing
<1>21. ASSUME NEW t \in Threads, CheckpointLastCommit(t) PROVE ActiveIsRunning' /\ InPlaceChangesLocked'
  BY <1>0, <1>21, <1>00 DEF CheckpointLastCommit, ActiveIsRunning, InPlaceChangesLocked,
      Running, Writing
<1>22. ASSUME NEW t \in Threads, CheckpointLowestActiveStart(t) PROVE ActiveIsRunning' /\ InPlaceChangesLocked'
  BY <1>0, <1>22, <1>00 DEF CheckpointLowestActiveStart, ActiveIsRunning, InPlaceChangesLocked,
      Running, Writing
<1>23. ASSUME NEW t \in Threads, CreateCheckpoint(t) PROVE ActiveIsRunning' /\ InPlaceChangesLocked'
  <2>1. ActiveIsRunning'
    BY <1>0, <1>23, <1>00, SMTT(30) DEF CreateCheckpoint, ActiveIsRunning, Running, Writing
  <2>2. PICK label \in {"return", "wal_start"} : pc' = [pc EXCEPT ![t] = label]
    BY <1>23 DEF CreateCheckpoint
  <2>3. pc[t] = "create_checkpoint" /\ decision[t] # "no"
    BY <1>23 DEF CreateCheckpoint
  <2>4. decision' = decision \/ decision' = [decision EXCEPT ![t] = "concurrent"]
    BY <1>23 DEF CreateCheckpoint
  <2>5. \A u \in Threads : decision'[u] # "no" => decision[u] # "no"
    BY <1>0, <2>3, <2>4
  <2>6. UNCHANGED <<checkpoint_readers, active_transactions, commit_id, start_time, mods, error>>
    BY <1>23 DEF CreateCheckpoint
  <2>7. \A u \in Threads : pc'[u] \notin Writing => pc[u] = pc'[u]
    BY <1>0, <2>2 DEF Writing
  <2>8. \A u \in Threads : pc'[u] \in Writing => pc[u] \in Writing
    BY <1>0, <2>2, <2>3 DEF Writing
  <2>9. \A u \in Threads : pc'[u] \in {"remove", "commit", "unlock_wal", "cleanup", "clean"} => pc[u] = pc'[u]
    BY <2>7 DEF Writing
  <2>10. InPlaceChangesLocked'
    BY <1>0, <1>00, <2>5, <2>6, <2>8, <2>9, SMTT(30) DEF InPlaceChangesLocked
  <2> QED BY <2>1, <2>10
<1>24. ASSUME NEW t \in Threads, WALStartCheckpoint(t) PROVE ActiveIsRunning' /\ InPlaceChangesLocked'
  BY <1>0, <1>24, <1>00 DEF WALStartCheckpoint, ActiveIsRunning, InPlaceChangesLocked, Running,
      Writing
<1>25. ASSUME NEW t \in Threads, SetCheckpointId(t) PROVE ActiveIsRunning' /\ InPlaceChangesLocked'
  BY <1>0, <1>25, <1>00 DEF SetCheckpointId, ActiveIsRunning, InPlaceChangesLocked, Running,
      Writing
<1>26. ASSUME NEW t \in Threads, CheckpointBind(t) PROVE ActiveIsRunning' /\ InPlaceChangesLocked'
  <2>1. /\ transaction_lock = NoThread /\ current_start_timestamp > 0 /\ mods[t] = {}
        /\ start_time' = [start_time EXCEPT ![t] = current_start_timestamp]
        /\ active_transactions' = active_transactions \cup {t}
        /\ UNCHANGED <<checkpoint_readers, commit_id, mods, decision, error>>
    BY <1>0, <1>00, <1>26 DEF CheckpointBind, StartTransaction, ActiveIsRunning
  <2>2. \A u \in Threads : pc[u] \notin {"commit", "remove"}
    BY <1>0, <1>00, <2>1
  <2>3. t \notin Txns /\ pc' = [pc EXCEPT ![t] = "write_tables"]
    BY <1>0, <1>00, <1>26 DEF CheckpointBind, StartTransaction
  <2> QED BY <1>0, <1>00, <2>1, <2>2, <2>3 DEF ActiveIsRunning, InPlaceChangesLocked, Running, Writing
<1>27. ASSUME NEW t \in Threads, WriteTables(t) PROVE ActiveIsRunning' /\ InPlaceChangesLocked'
  BY <1>0, <1>27, <1>00 DEF WriteTables, ActiveIsRunning, InPlaceChangesLocked, Running, Writing
<1>28. ASSUME NEW t \in Threads, WALFinishCheckpoint(t) PROVE ActiveIsRunning' /\ InPlaceChangesLocked'
  BY <1>0, <1>28, <1>00 DEF WALFinishCheckpoint, ActiveIsRunning, InPlaceChangesLocked, Running,
      Writing
<1>29. ASSUME NEW t \in Threads, ResetCheckpointId(t) PROVE ActiveIsRunning' /\ InPlaceChangesLocked'
  BY <1>0, <1>29, <1>00 DEF ResetCheckpointId, ActiveIsRunning, InPlaceChangesLocked, Running,
      Writing
<1>30. ASSUME NEW t \in Threads, CheckpointReturn(t) PROVE ActiveIsRunning' /\ InPlaceChangesLocked'
  BY <1>0, <1>30, <1>00 DEF CheckpointReturn, CheckpointLock!ReleaseExclusive,
      VacuumLock!ReleaseExclusive, ActiveIsRunning, InPlaceChangesLocked, Running, Writing
<1>31. CASE UNCHANGED vars
  BY <1>31, <1>00 DEF vars, ActiveIsRunning, InPlaceChangesLocked, Running, Writing
<1> QED
  BY <1>1, <1>2, <1>3, <1>4, <1>5, <1>6, <1>7, <1>8, <1>9, <1>10, <1>11, <1>12, <1>13, <1>14,
      <1>15, <1>16, <1>17, <1>18, <1>19, <1>20, <1>21, <1>22, <1>23, <1>24, <1>25, <1>26, <1>27,
      <1>28, <1>29, <1>30, <1>31 DEF Next, EndTransaction, Step, CommitStep, CleanupStep,
      CheckpointStep

-----------------------------------------------------------------------------
(***************************************************************************)
(* The theorems.                                                           *)
(***************************************************************************)

\* The second invariant holds before the first transaction.
LEMMA InitCheckpointInv == Init => CheckpointInv
<1> SUFFICES ASSUME Init PROVE CheckpointInv
  OBVIOUS
<1>0. /\ Checkpointers \subseteq Threads /\ Txns \subseteq Threads /\ NoThread \notin Threads
  BY ThreadsAssumption DEF Threads
<1>1. CheckpointLockOwned /\ IdPublishedByOwner
  BY <1>0 DEF Init, CheckpointLock!Init, CheckpointLockOwned, IdPublishedByOwner, Writing, Binding
<1>2. wal = <<>> /\ Len(wal) = 0 /\ DOMAIN wal = {} /\ 1 .. 0 = {} /\ wal_start = 0
  BY DEF Init
<1>3. WALEntries /\ WALStartCommitted /\ WALInCommitOrder
  BY <1>2 DEF WALEntries, WALStartCommitted, WALInCommitOrder
<1>4. WrittenOrSkipped /\ CheckpointerCommitted
  BY <1>0 DEF Init, WrittenOrSkipped, CheckpointerCommitted
<1>5. CheckpointCovers /\ DurableOrAlone
  BY DEF Init, CheckpointCovers, DurableOrAlone, Committed, ChangesMade
<1>6. ActiveIsRunning /\ InPlaceChangesLocked
  BY <1>0 DEF Init, ActiveIsRunning, InPlaceChangesLocked
<1> QED
  BY <1>1, <1>3, <1>4, <1>5, <1>6 DEF CheckpointInv

\* Every step preserves the second invariant, where the first one holds.
LEMMA CheckpointStepInv == Inv /\ CheckpointInv /\ [Next]_vars => CheckpointInv'
BY CheckpointLockStep, WALOrderStep, WALEntriesStep, WrittenStep, CoversStep, DurableStep, InPlaceStep
DEF CheckpointInv

\* Every reachable state satisfies the second inductive invariant.
THEOREM CheckpointInvariance == Spec => []CheckpointInv
BY Invariance, InitCheckpointInv, CheckpointStepInv, PTL DEF Spec

\* GetNewCheckpointId never finds a checkpoint id already set, whatever mix of
\* committers, CHECKPOINT and FORCE CHECKPOINT statements is under way: its
\* D_ASSERT holds.
THEOREM OneCheckpointIsRun == Spec => []OneCheckpointAtATime
<1>1. Inv /\ CheckpointInv => OneCheckpointAtATime
  <2> SUFFICES ASSUME Inv, CheckpointInv, NEW c \in Threads,
                      pc[c] \in {"wal_start", "set_checkpoint_id"}
               PROVE  active_checkpoint = MAX_TRANSACTION_ID
    BY DEF OneCheckpointAtATime
  <2>1. checkpoint_writer = c
    BY DEF CheckpointInv, CheckpointLockOwned, Writing
  <2>2. ~Published(c)
    BY DEF Published, Binding
  <2> QED BY <2>1, <2>2 DEF CheckpointInv, IdPublishedByOwner
<1> QED BY <1>1, Invariance, CheckpointInvariance, PTL

\* The WAL holds the transactions in the order of their commit ids, although
\* WriteToWAL runs before the id is drawn and without the transaction_lock.
THEOREM WALIsInCommitOrder == Spec => []WALInCommitOrder
<1>1. CheckpointInv => WALInCommitOrder
  BY DEF CheckpointInv
<1> QED BY <1>1, CheckpointInvariance, PTL

\* A committed transaction is in the WAL or in the database file, through every
\* switch of the WAL by a checkpoint; the only exception is a committer that
\* skipped its WAL write, and nothing is committed on top of it.
THEOREM DurableOrIsAlone == Spec => []DurableOrAlone
<1>1. CheckpointInv => DurableOrAlone
  BY DEF CheckpointInv
<1> QED BY <1>1, CheckpointInvariance, PTL

\* While a checkpoint writes the tables, no update or drop is in progress, and
\* every active transaction and the checkpoint itself see the committed ones.
THEOREM NoOldVersionsAreNeeded == Spec => []NoOldVersionsNeeded
<1>1. Inv /\ CheckpointInv => NoOldVersionsNeeded
  <2> SUFFICES ASSUME Inv, CheckpointInv, NEW c \in Threads, pc[c] = "write_tables",
                      NEW u \in Threads, mods[u] \cap InPlace # {}
               PROVE  /\ u \notin active_transactions
                      /\ commit_id[u] <= loaded[c]
                      /\ \A a \in active_transactions : commit_id[u] < start_time[a]
    BY DEF NoOldVersionsNeeded, InPlace
  <2>1. decision[c] # "no" /\ checkpoint_readers \subseteq {c}
    BY Typed DEF CheckpointInv, CheckpointLockOwned, Writing
  <2>2. commit_id[u] <= loaded[c]
    BY DEF CheckpointInv, CheckpointCovers
  <2>3. CASE u # c
    BY <2>1, <2>2, <2>3 DEF CheckpointInv, InPlaceChangesLocked
  <2>4. CASE u = c
    <3>1. c \in Txns
      BY <2>4, Known, Typed
    <3> QED BY <2>1, <2>2, <2>4, <3>1
            DEF CheckpointInv, InPlaceChangesLocked, ActiveIsRunning, Running, Writing
  <2> QED BY <2>3, <2>4
<1> QED BY <1>1, Invariance, CheckpointInvariance, PTL

-----------------------------------------------------------------------------
(***************************************************************************)
(* Cleanups happen in the order of the commits: the batches of the cleanup *)
(* queue are ordered among themselves, after the batch being cleaned up    *)
(* and before recently_committed.                                          *)
(***************************************************************************)
\* Committed transactions whose undo information is kept for others.
Pending(d) == mods[d] \cap Stored # {} /\ commit_id[d] # 0

Before(D, E) == \A d \in D, e \in E : Pending(d) /\ Pending(e) => commit_id[d] < commit_id[e]

\* Only the owner of the cleanup lock has a batch.
OneCleaner ==
    \A t \in Threads : /\ cleaning[t] # {} => pc[t] = "clean"
                       /\ pc[t] = "clean" => cleanup_lock = t

BatchesOrdered ==
    /\ \A i, j \in DOMAIN cleanup_queue :
          i < j => Before(cleanup_queue[i].transactions, cleanup_queue[j].transactions)
    /\ \A i \in DOMAIN cleanup_queue :
          /\ Before(cleanup_queue[i].transactions, Recent)
          /\ \A t \in Threads : Before(cleaning[t], cleanup_queue[i].transactions)
    /\ \A t \in Threads : Before(cleaning[t], Recent)

\* The inductive invariant, on top of Inv.
CleanupInv == OneCleaner /\ BatchesOrdered

-----------------------------------------------------------------------------
\* One thread at a time cleans up.
LEMMA OneCleanerStep ==
    ASSUME Inv, OneCleaner, [Next]_vars
    PROVE  OneCleaner'
<1> USE DEF Goto, locks, storage_locks, counters, collections, transactions, locals, durable
<1>0. /\ pc \in [Threads -> Labels] /\ cleaning \in [Threads -> SUBSET Threads]
      /\ Checkpointers \subseteq Threads /\ Txns \subseteq Threads /\ NoThread \notin Threads
  BY ThreadsAssumption DEF Inv, TypeOK, LocalsTyped, Threads
<1>1. ASSUME NEW t \in Txns, Begin(t) PROVE OneCleaner'
  BY <1>0, <1>1 DEF Begin, StartTransaction, OneCleaner
<1>2. ASSUME NEW t \in Txns, NEW m \in Mods, SetModifications(t, m) PROVE OneCleaner'
  BY <1>0, <1>2 DEF SetModifications,
      OneCleaner
<1>3. ASSUME NEW t \in Txns, NEW m \in Mods, Modify(t, m) PROVE OneCleaner'
  BY <1>0, <1>3 DEF Modify, OneCleaner
<1>4. ASSUME NEW t \in Threads, CommitTransaction(t) PROVE OneCleaner'
  BY <1>0, <1>4 DEF CommitTransaction,
      CheckpointLock!AcquireExclusive, OneCleaner
<1>5. ASSUME NEW t \in Threads, RollbackTransaction(t) PROVE OneCleaner'
  BY <1>0, <1>5 DEF RollbackTransaction, OneCleaner
<1>6. ASSUME NEW t \in Threads, CommitWAL(t) PROVE OneCleaner'
  BY <1>0, <1>6 DEF CommitWAL, OneCleaner
<1>7. ASSUME NEW t \in Threads, CommitDecide(t) PROVE OneCleaner'
  BY <1>0, <1>7 DEF CommitDecide, OneCleaner
<1>8. ASSUME NEW t \in Threads, CommitBackpedal(t) PROVE OneCleaner'
  BY <1>0, <1>8 DEF CommitBackpedal, OneCleaner
<1>9. ASSUME NEW t \in Threads, CommitBackpedalled(t) PROVE OneCleaner'
  BY <1>0, <1>9 DEF CommitBackpedalled, OneCleaner
<1>10. ASSUME NEW t \in Threads, CommitSucceeds(t) PROVE OneCleaner'
  BY <1>0, <1>10 DEF CommitSucceeds,
      OneCleaner
<1>11. ASSUME NEW t \in Threads, CommitFails(t) PROVE OneCleaner'
  BY <1>0, <1>11 DEF CommitFails,
      CheckpointLock!ReleaseExclusive, OneCleaner
<1>12. ASSUME NEW t \in Threads, CommitRemove(t) PROVE OneCleaner'
  BY <1>0, <1>12 DEF CommitRemove, OneCleaner
<1>13. ASSUME NEW t \in Threads, CommitUnlockWAL(t) PROVE OneCleaner'
  BY <1>0, <1>13 DEF CommitUnlockWAL, OneCleaner
<1>14. ASSUME NEW t \in Threads, CleanupPop(t) PROVE OneCleaner'
  BY <1>0, <1>14 DEF CleanupPop, OneCleaner
<1>15. ASSUME NEW t \in Threads, CleanupRun(t) PROVE OneCleaner'
  BY <1>0, <1>15 DEF CleanupRun, OneCleaner
<1>16. ASSUME NEW t \in Threads, CleanupDone(t) PROVE OneCleaner'
  BY <1>0, <1>16 DEF CleanupDone, OneCleaner
<1>17. ASSUME NEW t \in Checkpointers, Checkpoint(t) PROVE OneCleaner'
  BY <1>0, <1>17 DEF Checkpoint, OneCleaner
<1>18. ASSUME NEW t \in Checkpointers, ForceCheckpoint(t) PROVE OneCleaner'
  BY <1>0, <1>18 DEF ForceCheckpoint, OneCleaner
<1>19. ASSUME NEW t \in Checkpointers, ForceInterrupted(t) PROVE OneCleaner'
  BY <1>0, <1>19 DEF ForceInterrupted, OneCleaner
<1>20. ASSUME NEW t \in Threads, ForceObtainsLock(t) PROVE OneCleaner'
  BY <1>0, <1>20 DEF ForceObtainsLock, OneCleaner
<1>21. ASSUME NEW t \in Threads, CheckpointLastCommit(t) PROVE OneCleaner'
  BY <1>0, <1>21 DEF CheckpointLastCommit, OneCleaner
<1>22. ASSUME NEW t \in Threads, CheckpointLowestActiveStart(t) PROVE OneCleaner'
  BY <1>0, <1>22 DEF CheckpointLowestActiveStart, OneCleaner
<1>23. ASSUME NEW t \in Threads, CreateCheckpoint(t) PROVE OneCleaner'
  BY <1>0, <1>23 DEF CreateCheckpoint, OneCleaner
<1>24. ASSUME NEW t \in Threads, WALStartCheckpoint(t) PROVE OneCleaner'
  BY <1>0, <1>24 DEF WALStartCheckpoint, OneCleaner
<1>25. ASSUME NEW t \in Threads, SetCheckpointId(t) PROVE OneCleaner'
  BY <1>0, <1>25 DEF SetCheckpointId, OneCleaner
<1>26. ASSUME NEW t \in Threads, CheckpointBind(t) PROVE OneCleaner'
  BY <1>0, <1>26 DEF CheckpointBind, StartTransaction, OneCleaner
<1>27. ASSUME NEW t \in Threads, WriteTables(t) PROVE OneCleaner'
  BY <1>0, <1>27 DEF WriteTables, OneCleaner
<1>28. ASSUME NEW t \in Threads, WALFinishCheckpoint(t) PROVE OneCleaner'
  BY <1>0, <1>28 DEF WALFinishCheckpoint, OneCleaner
<1>29. ASSUME NEW t \in Threads, ResetCheckpointId(t) PROVE OneCleaner'
  BY <1>0, <1>29 DEF ResetCheckpointId, OneCleaner
<1>30. ASSUME NEW t \in Threads, CheckpointReturn(t) PROVE OneCleaner'
  BY <1>0, <1>30 DEF CheckpointReturn,
      VacuumLock!ReleaseExclusive, OneCleaner
<1>31. CASE UNCHANGED vars
  BY <1>31 DEF vars, OneCleaner
<1> QED
  BY <1>1, <1>2, <1>3, <1>4, <1>5, <1>6, <1>7, <1>8, <1>9, <1>10, <1>11, <1>12, <1>13, <1>14,
      <1>15, <1>16, <1>17, <1>18, <1>19, <1>20, <1>21, <1>22, <1>23, <1>24, <1>25, <1>26, <1>27,
      <1>28, <1>29, <1>30, <1>31 DEF Next, EndTransaction, Step, CommitStep, CleanupStep,
      CheckpointStep

\* A step that leaves the batches alone, and the transactions in them, leaves
\* them in order.
LEMMA SameBatches ==
    ASSUME Inv, BatchesOrdered,
           UNCHANGED <<cleanup_queue, recently_committed, cleaning>>,
           \A d \in AwaitingCleanup \cup Recent : mods'[d] = mods[d] /\ commit_id'[d] = commit_id[d]
    PROVE  BatchesOrdered'
<1>1. Recent' = Recent
  BY DEF Recent
<1>2. /\ cleanup_queue \in Seq(CleanupInfos) /\ cleaning \in [Threads -> SUBSET Threads]
  BY DEF Inv, TypeOK, CollectionsTyped, LocalsTyped
<1>3. \A i \in DOMAIN cleanup_queue : cleanup_queue[i].transactions \subseteq AwaitingCleanup
  <2>1. \A i \in DOMAIN cleanup_queue : cleanup_queue[i] \in CleanupInfos
    BY <1>2
  <2> QED BY <2>1 DEF AwaitingCleanup, CleanupInfos
<1>4. \A t \in Threads : cleaning[t] \subseteq AwaitingCleanup
  BY <1>2 DEF AwaitingCleanup
<1>5. \A d \in AwaitingCleanup \cup Recent : Pending(d)' = Pending(d)
  BY DEF Pending
<1> QED
  BY <1>1, <1>3, <1>4, <1>5 DEF BatchesOrdered, Before

\* What a removal schedules committed before what it leaves in recently_committed.
LEMMA RemovalBatch ==
    ASSUME TypeOK, NEW t \in Threads, NEW store \in BOOLEAN, RemoveTransaction(t, store),
           RecentlyCommittedOrdered,
           store /\ commit_id[t] # 0 => \A d \in Recent : commit_id[d] < commit_id[t],
           ~store /\ commit_id[t] # 0 => mods[t] \cap Stored = {}
    PROVE  \E S \in SUBSET Threads :
              /\ \/ cleanup_queue' = cleanup_queue
                 \/ \E info \in CleanupInfos : /\ info.transactions = S
                                               /\ cleanup_queue' = Append(cleanup_queue, info)
              /\ \A d \in S \cup Recent' : Pending(d) => d \in Recent \/ (d = t /\ store)
              /\ Before(S, Recent')
<1> DEFINE lowest == LowestStartTime(t)
           keep == store /\ commit_id[t] # 0
           rc == IF keep THEN PushRecentlyCommitted(t) ELSE recently_committed
           n == ReleasedCount(rc, lowest)
           scheduled == {rc[i] : i \in 1 .. n} \cup (IF ChangesMade(t) /\ ~keep THEN {t} ELSE {})
           info == [lowest_start_time |-> lowest, transactions |-> scheduled]
<1>1. /\ recently_committed' = SubSeq(rc, n + 1, Len(rc))
      /\ cleanup_queue' = cleanup_queue \/ cleanup_queue' = Append(cleanup_queue, info)
  BY DEF RemoveTransaction
<1>2. lowest \in Nat
  BY LowestStartTimeBounds
<1>3. recently_committed \in Seq(Threads) /\ DOMAIN recently_committed = 1 .. Len(recently_committed)
  BY DEF TypeOK, CollectionsTyped
<1>4. /\ rc \in Seq(Threads)
      /\ \A i, j \in 1 .. Len(rc) : i < j => commit_id[rc[i]] < commit_id[rc[j]]
      /\ \A i \in 1 .. Len(rc) : rc[i] \in Recent \/ (rc[i] = t /\ keep)
  <2>1. CASE keep
    <3>1. rc = Append(recently_committed, t)
      BY <2>1 DEF PushRecentlyCommitted
    <3>2. \A i \in 1 .. Len(recently_committed) : /\ recently_committed[i] \in Recent
                                                  /\ commit_id[recently_committed[i]] < commit_id[t]
      BY <1>3, <2>1 DEF Recent
    <3> HIDE DEF rc, keep
    <3> QED BY <1>3, <2>1, <3>1, <3>2 DEF RecentlyCommittedOrdered
  <2>2. CASE ~keep
    <3>1. rc = recently_committed
      BY <2>2
    <3>2. \A i \in 1 .. Len(recently_committed) : recently_committed[i] \in Recent
      BY <1>3 DEF Recent
    <3> HIDE DEF rc, keep
    <3> QED BY <1>3, <3>1, <3>2 DEF RecentlyCommittedOrdered
  <2> QED BY <2>1, <2>2
<1>5. n \in 0 .. Len(rc) /\ n \in Nat /\ Len(rc) \in Nat
  <2> HIDE DEF rc, lowest
  <2> QED BY <1>2, <1>4, ReleasedCountBounds DEF n
<1>6. scheduled \subseteq Threads
  BY <1>4, <1>5
<1>7. info \in CleanupInfos /\ info.transactions = scheduled
  <2> HIDE DEF lowest, scheduled
  <2> QED BY <1>2, <1>6 DEF CleanupInfos
<1>8. ASSUME NEW d \in scheduled, Pending(d)
      PROVE  \E i \in 1 .. n : d = rc[i]
  BY <1>8 DEF Pending, ChangesMade
<1> HIDE DEF rc, n
<1>9. ASSUME NEW d \in Recent' PROVE \E j \in 1 .. Len(rc) : j > n /\ d = rc[j]
  <2>1. /\ DOMAIN recently_committed' = 1 .. Len(rc) - n
        /\ \A i \in 1 .. Len(rc) - n : recently_committed'[i] = rc[i + n]
    BY <1>1, <1>4, <1>5
  <2>2. PICK i \in 1 .. Len(rc) - n : d = rc[i + n]
    BY <1>9, <2>1 DEF Recent
  <2>3. i + n \in 1 .. Len(rc) /\ i + n > n
    BY <1>5
  <2> QED BY <2>2, <2>3
<1> HIDE DEF scheduled, info
<1>10. \A d \in scheduled \cup Recent' : Pending(d) => d \in Recent \/ (d = t /\ store)
  <2>1. \A i \in 1 .. n : i \in 1 .. Len(rc)
    BY <1>5
  <2> QED BY <1>4, <1>8, <1>9, <2>1
<1>11. ASSUME NEW d \in scheduled, NEW e \in Recent', Pending(d), Pending(e)
       PROVE  commit_id[d] < commit_id[e]
  <2>1. PICK i \in 1 .. n : d = rc[i]
    BY <1>8, <1>11
  <2>2. PICK j \in 1 .. Len(rc) : j > n /\ e = rc[j]
    BY <1>9, <1>11
  <2>3. i \in 1 .. Len(rc) /\ i < j
    BY <1>5, <2>2
  <2> QED BY <1>4, <2>1, <2>2, <2>3
<1>12. Before(scheduled, Recent')
  BY <1>11 DEF Before
<1> QED
  BY <1>1, <1>6, <1>7, <1>10, <1>12

\* A removal leaves the batches in order: the new one goes last in the queue.
LEMMA RemovalBatches ==
    ASSUME Inv, BatchesOrdered, NEW t \in Threads, RollbackTransaction(t) \/ CommitRemove(t)
    PROVE  BatchesOrdered'
<1>1. UNCHANGED <<mods, commit_id, cleaning>>
  BY DEF RollbackTransaction, CommitRemove, transactions
<1>2. t \in active_transactions /\ t \in Threads
  BY DEF RollbackTransaction, CommitRemove, Inv, RunningActive, Running
<1>3. AwaitingCleanup \cup Recent \subseteq Threads \ {t}
  BY <1>2, RetiredThreads DEF Inv, Retired
<1>4. \E store \in BOOLEAN : /\ RemoveTransaction(t, store)
                             /\ store /\ commit_id[t] # 0 => pc[t] = "remove"
                             /\ ~store /\ commit_id[t] # 0 => mods[t] \cap Stored = {}
  <2>1. CASE RollbackTransaction(t)
    <3>1. commit_id[t] = 0
      BY <2>1 DEF RollbackTransaction, Inv, Timestamps, Running
    <3>2. RemoveTransaction(t, ChangesMade(t)) /\ ChangesMade(t) \in BOOLEAN
      BY <2>1 DEF RollbackTransaction, ChangesMade
    <3> QED BY <3>1, <3>2
  <2>2. CASE CommitRemove(t)
    <3> DEFINE store == mods[t] \cap Stored # {} \/ error[t]
    <3>1. /\ RemoveTransaction(t, store) /\ pc[t] = "remove" /\ store \in BOOLEAN
          /\ ~store => mods[t] \cap Stored = {}
      BY <2>2 DEF CommitRemove
    <3> QED BY <3>1
  <2> QED BY <2>1, <2>2
<1>5. PICK store \in BOOLEAN : /\ RemoveTransaction(t, store)
                               /\ store /\ commit_id[t] # 0 => pc[t] = "remove"
                               /\ ~store /\ commit_id[t] # 0 => mods[t] \cap Stored = {}
  BY <1>4
<1>6. store /\ commit_id[t] # 0 => \A d \in AwaitingCleanup \cup Recent : commit_id[d] < commit_id[t]
  BY <1>3, <1>5 DEF Inv, RemovedIsLatest
<1>7. PICK S \in SUBSET Threads :
              /\ \/ cleanup_queue' = cleanup_queue
                 \/ \E info \in CleanupInfos : /\ info.transactions = S
                                               /\ cleanup_queue' = Append(cleanup_queue, info)
              /\ \A d \in S \cup Recent' : Pending(d) => d \in Recent \/ (d = t /\ store)
              /\ Before(S, Recent')
  BY <1>5, <1>6, RemovalBatch DEF Inv
<1>8. \A d : Pending(d)' = Pending(d)
  BY <1>1 DEF Pending
<1>9. ASSUME NEW D, D \subseteq AwaitingCleanup, Before(D, Recent)
      PROVE  Before(D, S \cup Recent')
  <2>1. ASSUME NEW d \in D, NEW e \in S \cup Recent', Pending(d), Pending(e)
        PROVE  commit_id[d] < commit_id[e]
    <3>1. CASE e \in Recent
      BY <1>9, <2>1, <3>1 DEF Before
    <3>2. CASE e = t /\ store
      BY <1>6, <1>9, <2>1, <3>2 DEF Pending
    <3> QED BY <1>7, <2>1, <3>1, <3>2
  <2> QED BY <2>1 DEF Before
<1>10. /\ \A i \in DOMAIN cleanup_queue : cleanup_queue[i].transactions \subseteq AwaitingCleanup
       /\ \A u \in Threads : cleaning[u] \subseteq AwaitingCleanup
  <2>1. /\ cleanup_queue \in Seq(CleanupInfos) /\ cleaning \in [Threads -> SUBSET Threads]
    BY DEF Inv, TypeOK, CollectionsTyped, LocalsTyped
  <2>2. \A i \in DOMAIN cleanup_queue : cleanup_queue[i] \in CleanupInfos
    BY <2>1
  <2> QED BY <2>1, <2>2 DEF AwaitingCleanup, CleanupInfos
<1>11. /\ \A i \in DOMAIN cleanup_queue : Before(cleanup_queue[i].transactions, S \cup Recent')
       /\ \A u \in Threads : Before(cleaning[u], S \cup Recent')
  BY <1>9, <1>10 DEF BatchesOrdered
<1>12. /\ \A i \in DOMAIN cleanup_queue' :
             \/ cleanup_queue'[i].transactions = S /\ i \notin DOMAIN cleanup_queue
             \/ i \in DOMAIN cleanup_queue /\ cleanup_queue'[i] = cleanup_queue[i]
       /\ \A i, j \in DOMAIN cleanup_queue' : i < j => i \in DOMAIN cleanup_queue
  <2>1. cleanup_queue \in Seq(CleanupInfos)
    BY DEF Inv, TypeOK, CollectionsTyped
  <2>2. CASE cleanup_queue' = cleanup_queue
    BY <2>1, <2>2
  <2>3. ASSUME NEW info \in CleanupInfos, info.transactions = S,
               cleanup_queue' = Append(cleanup_queue, info)
        PROVE  /\ \A i \in DOMAIN cleanup_queue' :
                     \/ cleanup_queue'[i].transactions = S /\ i \notin DOMAIN cleanup_queue
                     \/ i \in DOMAIN cleanup_queue /\ cleanup_queue'[i] = cleanup_queue[i]
               /\ \A i, j \in DOMAIN cleanup_queue' : i < j => i \in DOMAIN cleanup_queue
    BY <2>1, <2>3
  <2> QED BY <1>7, <2>2, <2>3
<1>13. ASSUME NEW i \in DOMAIN cleanup_queue', NEW j \in DOMAIN cleanup_queue', i < j
       PROVE  Before(cleanup_queue[i].transactions, cleanup_queue[j].transactions)'
  <2>1. i \in DOMAIN cleanup_queue /\ cleanup_queue'[i] = cleanup_queue[i]
    BY <1>12, <1>13
  <2>2. Before(cleanup_queue[i].transactions, cleanup_queue'[j].transactions)
    <3>1. CASE cleanup_queue'[j].transactions = S
      BY <1>11, <2>1, <3>1 DEF Before
    <3>2. CASE j \in DOMAIN cleanup_queue /\ cleanup_queue'[j] = cleanup_queue[j]
      BY <1>13, <2>1, <3>2 DEF BatchesOrdered
    <3> QED BY <1>12, <3>1, <3>2
  <2> QED BY <1>1, <1>8, <2>1, <2>2 DEF Before
<1>14. ASSUME NEW i \in DOMAIN cleanup_queue'
       PROVE  /\ Before(cleanup_queue[i].transactions, Recent)'
              /\ \A u \in Threads : Before(cleaning[u], cleanup_queue[i].transactions)'
  <2>1. CASE cleanup_queue'[i].transactions = S
    <3>1. Before(cleanup_queue'[i].transactions, Recent')
      BY <1>7, <2>1
    <3>2. \A u \in Threads : Before(cleaning[u], cleanup_queue'[i].transactions)
      BY <1>11, <2>1 DEF Before
    <3> QED BY <1>1, <1>8, <3>1, <3>2 DEF Before
  <2>2. CASE i \in DOMAIN cleanup_queue /\ cleanup_queue'[i] = cleanup_queue[i]
    <3>1. Before(cleanup_queue'[i].transactions, Recent')
      BY <1>11, <2>2 DEF Before
    <3>2. \A u \in Threads : Before(cleaning[u], cleanup_queue'[i].transactions)
      BY <2>2 DEF BatchesOrdered
    <3> QED BY <1>1, <1>8, <3>1, <3>2 DEF Before
  <2> QED BY <1>12, <2>1, <2>2
<1>15. \A u \in Threads : Before(cleaning[u], Recent)'
  BY <1>1, <1>8, <1>11 DEF Before
<1> QED
  BY <1>13, <1>14, <1>15 DEF BatchesOrdered

\* Every step leaves the batches in order.
LEMMA BatchesStep ==
    ASSUME Inv, CleanupInv, [Next]_vars
    PROVE  BatchesOrdered'
<1> USE DEF Goto, locks, storage_locks, counters, collections, transactions, locals, durable
<1>0. /\ mods \in [Threads -> SUBSET Mods] /\ commit_id \in [Threads -> Nat]
      /\ cleaning \in [Threads -> SUBSET Threads] /\ cleanup_queue \in Seq(CleanupInfos)
      /\ Txns \subseteq Threads /\ BatchesOrdered
      /\ AwaitingCleanup \cup Recent \subseteq Threads
      /\ \A d \in AwaitingCleanup \cup Recent : d \notin active_transactions
  BY RetiredThreads DEF CleanupInv, Inv, TypeOK, LocalsTyped, TransactionsTyped, CollectionsTyped,
     Threads, Retired
<1>1. CASE UNCHANGED <<cleanup_queue, recently_committed, cleaning, mods, commit_id>>
  BY <1>0, <1>1, SameBatches
<1>2. ASSUME NEW t \in Txns, NEW m \in Mods, Modify(t, m) PROVE BatchesOrdered'
  <2>1. t \in active_transactions
    BY <1>0, <1>2 DEF Modify, Inv, RunningActive, Running
  <2> QED BY <1>0, <1>2, <2>1, SameBatches DEF Modify
<1>3. ASSUME NEW t \in Threads, CommitSucceeds(t) PROVE BatchesOrdered'
  <2>1. t \in active_transactions
    BY <1>3 DEF CommitSucceeds, Inv, RunningActive, Running
  <2> QED BY <1>0, <1>3, <2>1, SameBatches DEF CommitSucceeds
<1>4. ASSUME NEW t \in Threads, RollbackTransaction(t) \/ CommitRemove(t) PROVE BatchesOrdered'
  BY <1>0, <1>4, RemovalBatches
<1>5. ASSUME NEW t \in Threads, CleanupPop(t) PROVE BatchesOrdered'
  <2>1. /\ cleanup_queue # <<>> /\ cleaning' = [cleaning EXCEPT ![t] = Head(cleanup_queue).transactions]
        /\ cleanup_queue' = Tail(cleanup_queue)
        /\ UNCHANGED <<recently_committed, mods, commit_id>>
    BY <1>5 DEF CleanupPop
  <2>2. /\ Head(cleanup_queue) = cleanup_queue[1] /\ 1 \in DOMAIN cleanup_queue
        /\ \A i \in DOMAIN cleanup_queue' : /\ i + 1 \in DOMAIN cleanup_queue /\ 1 < i + 1
                                            /\ cleanup_queue'[i] = cleanup_queue[i + 1]
        /\ \A i, j \in DOMAIN cleanup_queue' : i < j => i + 1 < j + 1
    BY <1>0, <2>1
  <2>3. \A u \in Threads : cleaning'[u] = IF u = t THEN cleanup_queue[1].transactions ELSE cleaning[u]
    BY <1>0, <2>1, <2>2
  <2>4. Recent' = Recent /\ \A d : Pending(d)' = Pending(d)
    BY <2>1 DEF Recent, Pending
  <2>5. ASSUME NEW i \in DOMAIN cleanup_queue', NEW j \in DOMAIN cleanup_queue', i < j
        PROVE  Before(cleanup_queue[i].transactions, cleanup_queue[j].transactions)'
    <3>1. Before(cleanup_queue[i + 1].transactions, cleanup_queue[j + 1].transactions)
      BY <1>0, <2>2, <2>5 DEF BatchesOrdered
    <3> QED BY <2>1, <2>2, <2>4, <3>1 DEF Before
  <2>6. ASSUME NEW i \in DOMAIN cleanup_queue'
        PROVE  /\ Before(cleanup_queue[i].transactions, Recent)'
               /\ \A u \in Threads : Before(cleaning[u], cleanup_queue[i].transactions)'
    <3>1. Before(cleanup_queue[i + 1].transactions, Recent)
      BY <1>0, <2>2 DEF BatchesOrdered
    <3>2. \A u \in Threads : Before(cleaning'[u], cleanup_queue[i + 1].transactions)
      BY <1>0, <2>2, <2>3 DEF BatchesOrdered
    <3> QED BY <2>1, <2>2, <2>4, <3>1, <3>2 DEF Before
  <2>7. \A u \in Threads : Before(cleaning[u], Recent)'
    <3>1. \A u \in Threads : Before(cleaning'[u], Recent)
      BY <1>0, <2>2, <2>3 DEF BatchesOrdered
    <3> QED BY <2>1, <2>4, <3>1 DEF Before
  <2> QED BY <2>5, <2>6, <2>7 DEF BatchesOrdered
<1>6. ASSUME NEW t \in Threads, CleanupRun(t) PROVE BatchesOrdered'
  <2>1. /\ UNCHANGED <<cleanup_queue, recently_committed, mods, commit_id>>
        /\ \A u \in Threads : cleaning'[u] \subseteq cleaning[u]
    BY <1>0, <1>6 DEF CleanupRun
  <2>2. Recent' = Recent /\ \A d : Pending(d)' = Pending(d)
    BY <2>1 DEF Recent, Pending
  <2> QED BY <1>0, <2>1, <2>2 DEF BatchesOrdered, Before
<1>7. ASSUME NEW t \in Txns, Begin(t) \/ \E m \in Mods : SetModifications(t, m) PROVE BatchesOrdered'
  BY <1>1, <1>7 DEF Begin, StartTransaction, SetModifications
<1>8. ASSUME NEW t \in Threads,
             \/ CommitTransaction(t) \/ CommitWAL(t) \/ CommitDecide(t) \/ CommitBackpedal(t)
             \/ CommitBackpedalled(t) \/ CommitFails(t) \/ CommitUnlockWAL(t) \/ CleanupDone(t)
      PROVE  BatchesOrdered'
  BY <1>1, <1>8 DEF CommitTransaction, CommitWAL, CommitDecide, CommitBackpedal, CommitBackpedalled,
     CommitFails, CommitUnlockWAL, CleanupDone
<1>9. ASSUME NEW t \in Threads, CheckpointStep(t) PROVE BatchesOrdered'
  BY <1>1, <1>9 DEF CheckpointStep, ForceObtainsLock, CheckpointLastCommit,
     CheckpointLowestActiveStart, CreateCheckpoint, WALStartCheckpoint, SetCheckpointId,
     CheckpointBind, StartTransaction, WriteTables, WALFinishCheckpoint, ResetCheckpointId,
     CheckpointReturn
<1>10. ASSUME NEW k \in Checkpointers, Checkpoint(k) \/ ForceCheckpoint(k) \/ ForceInterrupted(k)
       PROVE  BatchesOrdered'
  BY <1>1, <1>10 DEF Checkpoint, ForceCheckpoint, ForceInterrupted
<1>11. CASE UNCHANGED vars
  BY <1>1, <1>11 DEF vars
<1> QED
  BY <1>2, <1>3, <1>4, <1>5, <1>6, <1>7, <1>8, <1>9, <1>10, <1>11
  DEF Next, EndTransaction, Step, CommitStep, CleanupStep

-----------------------------------------------------------------------------
\* The batches are ordered before the first transaction.
LEMMA InitCleanupInv == Init => CleanupInv
BY DEF Init, CleanupInv, OneCleaner, BatchesOrdered, Before, Recent

\* Every reachable state has one cleaner at most, and its batches in order.
THEOREM CleanupInvariance == Spec => []CleanupInv
<1>1. Inv /\ CleanupInv /\ [Next]_vars => CleanupInv'
  BY OneCleanerStep, BatchesStep DEF CleanupInv
<1> QED BY <1>1, Invariance, InitCleanupInv, PTL DEF Spec

\* "Cleanups have to happen in-order": CleanupTransactions cleans up a transaction
\* whose undo information was kept only after all such transactions that committed
\* before it, whichever threads removed them and whichever thread cleans up.
THEOREM CleanupIsInOrder == Spec => []CleanupInOrder
<1>1. Inv /\ CleanupInv => CleanupInOrder
  <2> SUFFICES ASSUME Inv, CleanupInv, NEW t \in Threads, NEW d \in cleaning[t], NEW e \in Threads,
                      mods[d] \cap Stored # {}, mods[e] \cap Stored # {},
                      0 < commit_id[e], commit_id[e] < commit_id[d]
               PROVE  /\ \A i \in DOMAIN recently_committed : recently_committed[i] # e
                      /\ \A i \in DOMAIN cleanup_queue : e \notin cleanup_queue[i].transactions
                      /\ \A u \in Threads \ {t} : e \notin cleaning[u]
    BY DEF CleanupInOrder
  <2>1. d \in Threads /\ commit_id[d] \in Nat /\ commit_id[e] \in Nat
    BY DEF Inv, TypeOK, LocalsTyped, TransactionsTyped
  <2>2. Pending(d) /\ Pending(e) /\ ~(commit_id[d] < commit_id[e])
    BY <2>1 DEF Pending
  <2>3. \A E : Before(cleaning[t], E) => e \notin E
    BY <2>2 DEF Before
  <2>4. e \notin Recent /\ \A i \in DOMAIN cleanup_queue : e \notin cleanup_queue[i].transactions
    BY <2>3 DEF CleanupInv, BatchesOrdered
  <2>5. \A u \in Threads \ {t} : e \notin cleaning[u]
    BY DEF CleanupInv, OneCleaner
  <2> QED BY <2>4, <2>5 DEF Recent
<1> QED BY <1>1, Invariance, CleanupInvariance, PTL
=============================================================================
