-------------------------- MODULE StorageLockProofs --------------------------
(***************************************************************************)
(* For any finite set of holders: the read counter is exact, the exclusive *)
(* key is exclusive, and StorageLock implements ReadWriteLock.             *)
(***************************************************************************)
EXTENDS StorageLock, FiniteSetTheorems, TLAPS

\* Whoever is inside a function of the lock, or owns the exclusive key, has
\* locked the mutex; and the keys it owns are those the function was called with.
MutexHeld ==
    \A h \in Holders :
        /\ pc[h] # Idle => exclusive_lock = h
        /\ "EXCLUSIVE" \in keys[h] => exclusive_lock = h
        /\ pc[h] # Idle => "EXCLUSIVE" \notin keys[h]
        /\ pc[h] \in {"GetExclusiveLock", "GetSharedLock"} => keys[h] = {}
        /\ pc[h] = "TryUpgradeCheckpointLock" => "SHARED" \in keys[h]

\* The inductive invariant.
Inv == /\ TypeOK
       /\ MutexHeld
       /\ CounterMatchesKeys
       /\ ExclusiveMeansAlone

\* There are finitely many readers, because there are finitely many holders.
LEMMA OwnersFinite == /\ IsFiniteSet(SharedOwners)
                      /\ Cardinality(SharedOwners) \in Nat
<1>1. IsFiniteSet(SharedOwners)
  BY HoldersAssumption, FS_Subset DEF SharedOwners
<1> QED
  BY <1>1, FS_CardinalityType

\* A holder that gains a shared key is one more reader.
LEMMA AddReader ==
    ASSUME NEW h \in Holders, TypeOK, "SHARED" \notin keys[h],
           keys' = [keys EXCEPT ![h] = @ \cup {"SHARED"}]
    PROVE  /\ SharedOwners' = SharedOwners \cup {h}
           /\ Cardinality(SharedOwners') = Cardinality(SharedOwners) + 1
<1>1. SharedOwners' = SharedOwners \cup {h}
  BY DEF SharedOwners, TypeOK
<1>2. h \notin SharedOwners
  BY DEF SharedOwners
<1> QED
  BY <1>1, <1>2, OwnersFinite, FS_AddElement

\* A holder that gives its shared key back is one reader less.
LEMMA RemoveReader ==
    ASSUME NEW h \in Holders, TypeOK, "SHARED" \in keys[h],
           keys' = [keys EXCEPT ![h] = @ \ {"SHARED"}]
    PROVE  /\ SharedOwners' = SharedOwners \ {h}
           /\ Cardinality(SharedOwners') = Cardinality(SharedOwners) - 1
           /\ Cardinality(SharedOwners) # 0
<1>1. SharedOwners' = SharedOwners \ {h}
  BY DEF SharedOwners, TypeOK
<1>2. h \in SharedOwners
  BY DEF SharedOwners
<1>3. Cardinality(SharedOwners) # 0
  BY <1>2, OwnersFinite, FS_EmptySet
<1> QED
  BY <1>1, <1>2, <1>3, OwnersFinite, FS_RemoveElement

\* Taking or dropping the exclusive key does not change who reads.
LEMMA ReadersSame ==
    ASSUME NEW h \in Holders, TypeOK,
           \/ keys' = [keys EXCEPT ![h] = @ \cup {"EXCLUSIVE"}]
           \/ keys' = [keys EXCEPT ![h] = @ \ {"EXCLUSIVE"}]
           \/ keys' = keys
    PROVE  SharedOwners' = SharedOwners
BY DEF SharedOwners, TypeOK

\* A counter of zero, or of one while h reads, means nobody but h reads.
LEMMA CounterTellsAlone ==
    ASSUME NEW h \in Holders, CounterMatchesKeys,
           \/ read_count = 0
           \/ read_count = 1 /\ "SHARED" \in keys[h]
    PROVE  SharedOwners \subseteq {h}
<1>1. CASE read_count = 0
  BY <1>1, OwnersFinite, FS_EmptySet DEF CounterMatchesKeys
<1>2. CASE read_count = 1 /\ "SHARED" \in keys[h]
  <2>1. \E x : SharedOwners = {x}
    BY <1>2, OwnersFinite, FS_Singleton DEF CounterMatchesKeys
  <2>2. h \in SharedOwners
    BY <1>2 DEF SharedOwners
  <2> QED
    BY <2>1, <2>2
<1> QED
  BY <1>1, <1>2

\* The initial state satisfies the inductive invariant.
LEMMA InitInv == Init => Inv
<1> SUFFICES ASSUME Init PROVE Inv
  OBVIOUS
<1>1. SharedOwners = {}
  BY DEF Init, SharedOwners
<1>2. CounterMatchesKeys
  BY <1>1, FS_EmptySet DEF Init, CounterMatchesKeys
<1>3. TypeOK /\ MutexHeld /\ ExclusiveMeansAlone
  BY NoHolderAssumption
  DEF Init, TypeOK, MutexHeld, ExclusiveMeansAlone, ExclusiveOwners, Idle, Inside
<1> QED
  BY <1>2, <1>3 DEF Inv

\* Every access to the mutex or the counter preserves the inductive invariant.
LEMMA StepInv == Inv /\ [Next]_vars => Inv'
<1> SUFFICES ASSUME Inv, [Next]_vars PROVE Inv'
  OBVIOUS
<1> USE DEF Inv
<1>1. ASSUME NEW h \in Holders, NEW f \in Inside,
             pc[h] = Idle, LockMutex(h, f),
             "EXCLUSIVE" \notin keys[h],
             f \in {"GetExclusiveLock", "GetSharedLock"} => keys[h] = {},
             f = "TryUpgradeCheckpointLock" => keys[h] = {"SHARED"}
      PROVE  Inv'
  <2>1. TypeOK'
    BY <1>1 DEF LockMutex, Goto, TypeOK
  <2>2. MutexHeld'
    BY <1>1, NoHolderAssumption DEF LockMutex, Goto, TypeOK, MutexHeld, Idle
  <2>3. SharedOwners' = SharedOwners /\ ExclusiveOwners' = ExclusiveOwners
    BY <1>1 DEF LockMutex, SharedOwners, ExclusiveOwners
  <2> QED
    BY <1>1, <2>1, <2>2, <2>3 DEF LockMutex, CounterMatchesKeys, ExclusiveMeansAlone
<1>2. ASSUME NEW h \in Holders, pc[h] # Idle, exclusive_lock = h,
             GiveKey(h, "EXCLUSIVE"), Goto(h, Idle),
             SharedOwners \subseteq {h},
             UNCHANGED <<exclusive_lock, read_count>>
      PROVE  Inv'
  <2>1. TypeOK'
    BY <1>2 DEF GiveKey, Goto, TypeOK
  <2>2. MutexHeld'
    BY <1>2, NoHolderAssumption DEF GiveKey, Goto, TypeOK, MutexHeld, Idle
  <2>3. SharedOwners' = SharedOwners
    BY <1>2, ReadersSame DEF GiveKey
  <2>4. ExclusiveOwners' = {h}
    BY <1>2 DEF GiveKey, ExclusiveOwners, TypeOK, MutexHeld
  <2> QED
    BY <1>2, <2>1, <2>2, <2>3, <2>4 DEF CounterMatchesKeys, ExclusiveMeansAlone
<1>3. ASSUME NEW h \in Holders, GetExclusiveLock(h) PROVE Inv'
  BY <1>1, <1>3 DEF GetExclusiveLock, Inside
<1>4. ASSUME NEW h \in Holders, ReadersGone(h) PROVE Inv'
  <2>1. SharedOwners \subseteq {h}
    BY <1>4, CounterTellsAlone DEF ReadersGone
  <2> QED
    BY <1>2, <1>4, <2>1 DEF ReadersGone, MutexHeld, Idle
<1>5. ASSUME NEW h \in Holders, GetSharedLock(h) PROVE Inv'
  BY <1>1, <1>5 DEF GetSharedLock, Inside
<1>6. ASSUME NEW h \in Holders, CountReader(h) PROVE Inv'
  <2>1. /\ SharedOwners' = SharedOwners \cup {h}
        /\ Cardinality(SharedOwners') = Cardinality(SharedOwners) + 1
    BY <1>6, AddReader DEF CountReader, GiveKey, MutexHeld
  <2>2. TypeOK'
    BY <1>6 DEF CountReader, GiveKey, Goto, TypeOK, Inside
  <2>3. MutexHeld'
    BY <1>6, NoHolderAssumption DEF CountReader, GiveKey, Goto, TypeOK, MutexHeld, Idle
  <2>4. ExclusiveOwners' = {} /\ ExclusiveOwners = {}
    BY <1>6 DEF CountReader, GiveKey, ExclusiveOwners, TypeOK, MutexHeld, Idle
  <2> QED
    BY <1>6, <2>1, <2>2, <2>3, <2>4
    DEF CountReader, CounterMatchesKeys, ExclusiveMeansAlone
<1>7. ASSUME NEW h \in Holders, SharedUnlock(h) PROVE Inv'
  <2>1. TypeOK'
    BY <1>7 DEF SharedUnlock, Goto, TypeOK
  <2>2. MutexHeld'
    BY <1>7, NoHolderAssumption DEF SharedUnlock, Goto, TypeOK, MutexHeld, Idle
  <2>3. SharedOwners' = SharedOwners /\ ExclusiveOwners' = ExclusiveOwners
    BY <1>7 DEF SharedUnlock, SharedOwners, ExclusiveOwners
  <2> QED
    BY <1>7, <2>1, <2>2, <2>3 DEF SharedUnlock, CounterMatchesKeys, ExclusiveMeansAlone
<1>8. ASSUME NEW h \in Holders, TryGetExclusiveLock(h) PROVE Inv'
  BY <1>1, <1>8 DEF TryGetExclusiveLock, Inside
<1>9. ASSUME NEW h \in Holders, TryUpgradeCheckpointLock(h) PROVE Inv'
  BY <1>1, <1>9 DEF TryUpgradeCheckpointLock, Inside
<1>10. ASSUME NEW h \in Holders, TryOutcome(h) PROVE Inv'
  <2>1. CASE read_count = ReadersAllowed(h)
    <3>1. SharedOwners \subseteq {h}
      BY <1>10, <2>1, CounterTellsAlone DEF TryOutcome, ReadersAllowed, MutexHeld
    <3> QED
      BY <1>2, <1>10, <2>1, <3>1 DEF TryOutcome, MutexHeld, Idle
  <2>2. CASE read_count # ReadersAllowed(h)
    <3>1. TypeOK'
      BY <1>10, <2>2 DEF TryOutcome, Goto, TypeOK
    <3>2. MutexHeld'
      BY <1>10, <2>2, NoHolderAssumption
      DEF TryOutcome, Goto, TypeOK, MutexHeld, Idle
    <3>3. SharedOwners' = SharedOwners /\ ExclusiveOwners' = ExclusiveOwners
      BY <1>10, <2>2 DEF TryOutcome, SharedOwners, ExclusiveOwners
    <3> QED
      BY <1>10, <3>1, <3>2, <3>3 DEF TryOutcome, CounterMatchesKeys, ExclusiveMeansAlone
  <2> QED
    BY <2>1, <2>2
<1>11. ASSUME NEW h \in Holders, ReleaseExclusiveLock(h) PROVE Inv'
  <2>1. TypeOK'
    BY <1>11 DEF ReleaseExclusiveLock, TypeOK
  <2>2. MutexHeld'
    BY <1>11, NoHolderAssumption DEF ReleaseExclusiveLock, TypeOK, MutexHeld, Idle
  <2>3. SharedOwners' = SharedOwners
    BY <1>11, ReadersSame DEF ReleaseExclusiveLock
  <2>4. ExclusiveOwners' \subseteq ExclusiveOwners
    BY <1>11 DEF ReleaseExclusiveLock, ExclusiveOwners, TypeOK
  <2>5. ExclusiveMeansAlone'
    BY <2>3, <2>4 DEF ExclusiveMeansAlone
  <2> QED
    BY <1>11, <2>1, <2>2, <2>3, <2>5 DEF ReleaseExclusiveLock, CounterMatchesKeys
<1>12. ASSUME NEW h \in Holders, ReleaseSharedLock(h) PROVE Inv'
  <2>1. /\ SharedOwners' = SharedOwners \ {h}
        /\ Cardinality(SharedOwners') = Cardinality(SharedOwners) - 1
        /\ Cardinality(SharedOwners) # 0
    BY <1>12, RemoveReader DEF ReleaseSharedLock
  <2>2. TypeOK'
    BY <1>12, <2>1 DEF ReleaseSharedLock, TypeOK, CounterMatchesKeys
  <2>3. MutexHeld'
    BY <1>12, NoHolderAssumption DEF ReleaseSharedLock, TypeOK, MutexHeld, Idle
  <2>4. ExclusiveOwners' = ExclusiveOwners
    BY <1>12 DEF ReleaseSharedLock, ExclusiveOwners, TypeOK
  <2> QED
    BY <1>12, <2>1, <2>2, <2>3, <2>4
    DEF ReleaseSharedLock, CounterMatchesKeys, ExclusiveMeansAlone
<1>13. ASSUME UNCHANGED vars PROVE Inv'
  BY <1>13 DEF vars, TypeOK, MutexHeld, CounterMatchesKeys, ExclusiveMeansAlone,
               SharedOwners, ExclusiveOwners
<1> QED
  BY <1>3, <1>4, <1>5, <1>6, <1>7, <1>8, <1>9, <1>10, <1>11, <1>12, <1>13
  DEF Next, Continue, Release

\* The inductive invariant holds in every reachable state.
THEOREM Invariance == Spec => []Inv
BY InitInv, StepInv, PTL DEF Spec

\* read_count is the number of shared keys, for any number of holders.
THEOREM CounterExact == Spec => []CounterMatchesKeys
<1>1. Inv => CounterMatchesKeys
  BY DEF Inv
<1> QED
  BY <1>1, Invariance, PTL

\* The owner of the exclusive key is alone, for any number of holders.
THEOREM ExclusiveKeyIsExclusive == Spec => []ExclusiveMeansAlone
<1>1. Inv => ExclusiveMeansAlone
  BY DEF Inv
<1> QED
  BY <1>1, Invariance, PTL

-----------------------------------------------------------------------------
(***************************************************************************)
(* Refinement.  The shared key counts from the increment of read_count and *)
(* the exclusive key from its creation; every other step stutters.         *)
(***************************************************************************)
Writer == IF ExclusiveOwners = {} THEN NoHolder
          ELSE CHOOSE h \in Holders : "EXCLUSIVE" \in keys[h]

\* The writer of the refinement mapping is the one owner of the exclusive key.
LEMMA WriterOf ==
    ASSUME NEW h \in Holders, ExclusiveOwners = {h}
    PROVE  Writer = h
BY DEF Writer, ExclusiveOwners

\* A step that moves no key leaves the writer of the refinement mapping alone.
LEMMA WriterSame == ExclusiveOwners' = ExclusiveOwners /\ keys' = keys => Writer' = Writer
BY DEF Writer

\* Every step of the implementation is a step of ReadWriteLock or a stuttering step.
LEMMA StepRefines == Inv /\ Inv' /\ [Next]_vars => [RWL!Next]_(RWL!vars)
<1> SUFFICES ASSUME Inv, Inv', [Next]_vars
             PROVE  \/ RWL!Next
                    \/ SharedOwners' = SharedOwners /\ Writer' = Writer
  BY DEF RWL!vars, Writer
<1> USE DEF Inv
<1>1. ASSUME keys' = keys
      PROVE  SharedOwners' = SharedOwners /\ Writer' = Writer
  BY <1>1 DEF SharedOwners, Writer, ExclusiveOwners
<1>2. ASSUME NEW h \in Holders, pc[h] # Idle, GiveKey(h, "EXCLUSIVE"), SharedOwners \subseteq {h}
      PROVE  RWL!Next
  <2>1. ExclusiveOwners = {} /\ ExclusiveOwners' = {h}
    BY <1>2 DEF GiveKey, ExclusiveOwners, TypeOK, MutexHeld
  <2>2. Writer = NoHolder /\ Writer' = h
    <3>1. Writer' = h
      BY <2>1 DEF Writer, ExclusiveOwners
    <3> QED
      BY <2>1, <3>1 DEF Writer
  <2>3. SharedOwners' = SharedOwners
    BY <1>2, ReadersSame DEF GiveKey
  <2>4. SharedOwners = {} \/ SharedOwners = {h}
    BY <1>2
  <2>5. RWL!AcquireExclusive(h) \/ RWL!Upgrade(h)
    BY <2>2, <2>3, <2>4 DEF RWL!AcquireExclusive, RWL!Upgrade, Writer
  <2> QED
    BY <2>5 DEF RWL!Next
<1>3. ASSUME NEW h \in Holders, ReadersGone(h) PROVE RWL!Next
  <2>1. SharedOwners \subseteq {h}
    BY <1>3, CounterTellsAlone DEF ReadersGone
  <2> QED
    BY <1>2, <1>3, <2>1 DEF ReadersGone, Idle
<1>4. ASSUME NEW h \in Holders, CountReader(h) PROVE RWL!Next
  <2>1. SharedOwners' = SharedOwners \cup {h}
    BY <1>4, AddReader DEF CountReader, GiveKey, MutexHeld
  <2>2. h \notin SharedOwners
    BY <1>4 DEF CountReader, SharedOwners, MutexHeld
  <2>3. ExclusiveOwners' = {} /\ ExclusiveOwners = {}
    BY <1>4 DEF CountReader, GiveKey, ExclusiveOwners, TypeOK, MutexHeld, Idle
  <2>4. RWL!AcquireShared(h)
    BY <2>1, <2>2, <2>3 DEF RWL!AcquireShared
  <2> QED
    BY <2>4 DEF RWL!Next
<1>5. ASSUME NEW h \in Holders, TryOutcome(h)
      PROVE  \/ RWL!Next
             \/ SharedOwners' = SharedOwners /\ Writer' = Writer
  <2>1. CASE read_count = ReadersAllowed(h)
    <3>1. SharedOwners \subseteq {h}
      BY <1>5, <2>1, CounterTellsAlone DEF TryOutcome, ReadersAllowed, MutexHeld
    <3> QED
      BY <1>2, <1>5, <2>1, <3>1 DEF TryOutcome, Idle
  <2>2. CASE read_count # ReadersAllowed(h)
    BY <1>1, <1>5, <2>2 DEF TryOutcome
  <2> QED
    BY <2>1, <2>2
<1>6. ASSUME NEW h \in Holders, ReleaseExclusiveLock(h) PROVE RWL!Next
  <2>1. SharedOwners' = SharedOwners
    BY <1>6, ReadersSame DEF ReleaseExclusiveLock
  <2>2. ExclusiveOwners = {h} /\ ExclusiveOwners' = {}
    BY <1>6 DEF ReleaseExclusiveLock, ExclusiveOwners, ExclusiveMeansAlone, TypeOK
  <2>3. Writer = h /\ Writer' = NoHolder
    <3>1. Writer = h
      BY <2>2, WriterOf
    <3> QED
      BY <2>2, <3>1 DEF Writer
  <2>4. RWL!ReleaseExclusive(h)
    BY <2>1, <2>3 DEF RWL!ReleaseExclusive, Writer
  <2> QED
    BY <2>4 DEF RWL!Next
<1>7. ASSUME NEW h \in Holders, ReleaseSharedLock(h) PROVE RWL!Next
  <2>1. SharedOwners' = SharedOwners \ {h}
    BY <1>7, RemoveReader DEF ReleaseSharedLock
  <2>2. h \in SharedOwners
    BY <1>7 DEF ReleaseSharedLock, SharedOwners
  <2>3. \A g \in Holders : "EXCLUSIVE" \in keys'[g] <=> "EXCLUSIVE" \in keys[g]
    BY <1>7 DEF ReleaseSharedLock, TypeOK
  <2>4. ExclusiveOwners' = ExclusiveOwners
    BY <2>3 DEF ExclusiveOwners
  <2>5. Writer' = Writer
    <3>1. CASE ExclusiveOwners = {}
      BY <2>4, <3>1 DEF Writer
    <3>2. CASE ExclusiveOwners # {}
      <4>1. PICK g \in Holders : ExclusiveOwners = {g}
        BY <3>2 DEF ExclusiveMeansAlone, ExclusiveOwners
      <4>2. Writer = g
        BY <4>1, WriterOf
      <4>3. Writer' = g
        BY <2>4, <4>1 DEF Writer, ExclusiveOwners
      <4> QED
        BY <4>2, <4>3
    <3> QED
      BY <3>1, <3>2
  <2>6. RWL!ReleaseShared(h)
    BY <2>1, <2>2, <2>5 DEF RWL!ReleaseShared, Writer
  <2> QED
    BY <2>6 DEF RWL!Next
<1>8. ASSUME NEW h \in Holders,
             \/ GetExclusiveLock(h) \/ GetSharedLock(h) \/ SharedUnlock(h)
             \/ TryGetExclusiveLock(h) \/ TryUpgradeCheckpointLock(h)
      PROVE  keys' = keys
  BY <1>8 DEF GetExclusiveLock, GetSharedLock, SharedUnlock, TryGetExclusiveLock,
              TryUpgradeCheckpointLock, LockMutex
<1> QED
  BY <1>1, <1>3, <1>4, <1>5, <1>6, <1>7, <1>8 DEF Next, Continue, Release, vars

\* The counter of the readers, the mutexes and the keys keep their types, for any number of
\* holders: in particular read_count is a natural number, so that SharedUnlock never
\* decrements it below zero.
THEOREM TypeCorrect == Spec => []TypeOK
<1>1. Inv => TypeOK
  BY DEF Inv
<1> QED
  BY <1>1, Invariance, PTL

\* StorageLock implements ReadWriteLock, for any number of holders.
THEOREM Refinement == Spec => ImplementsReadWriteLock
<1>1. Init => RWL!Init
  BY DEF Init, RWL!Init, SharedOwners, ExclusiveOwners
<1>2. Spec => []Inv
  BY Invariance
<1>3. Inv /\ Inv' /\ [Next]_vars => [RWL!Next]_(RWL!vars)
  BY StepRefines
<1> QED
  BY <1>1, <1>2, <1>3, PTL DEF Spec, RWL!Spec, ImplementsReadWriteLock
=============================================================================
