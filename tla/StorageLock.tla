----------------------------- MODULE StorageLock -----------------------------
(***************************************************************************)
(* StorageLockInternals (src/storage/storage_lock.cpp): a reader/writer    *)
(* lock made of one mutex, exclusive_lock, and one atomic counter,         *)
(* read_count.  The owner of the exclusive key keeps the mutex locked; a   *)
(* shared key is one unit of read_count and is given back without the      *)
(* mutex.  GetExclusiveLock locks the mutex first and then spins until the *)
(* counter is zero, so a waiting writer already keeps new readers out.     *)
(*                                                                         *)
(* One action per atomic access of a thread to the mutex or the counter.   *)
(* A failed try_lock and one more round of the spin loop change nothing    *)
(* and are the stuttering steps of the specification.                      *)
(***************************************************************************)
EXTENDS Naturals, FiniteSets

CONSTANTS Holders,     \* the threads or transactions that obtain keys
          NoHolder

ASSUME HoldersAssumption == IsFiniteSet(Holders)
ASSUME NoHolderAssumption == NoHolder \notin Holders

VARIABLES exclusive_lock,   \* who has locked the mutex, or NoHolder
          read_count,
          keys,             \* keys[h]: the StorageLockKeys h owns
          pc                \* pc[h]: where h is inside a function of the lock

vars == <<exclusive_lock, read_count, keys, pc>>

Idle == "idle"
\* A program counter other than idle names the function whose critical
\* section the thread is in.
Inside == {"GetExclusiveLock", "GetSharedLock", "GetSharedLock.unlock",
           "TryGetExclusiveLock", "TryUpgradeCheckpointLock"}

TypeOK == /\ exclusive_lock \in Holders \cup {NoHolder}
          /\ read_count \in Nat
          /\ keys \in [Holders -> SUBSET {"SHARED", "EXCLUSIVE"}]
          /\ pc \in [Holders -> Inside \cup {Idle}]

Init == /\ exclusive_lock = NoHolder
        /\ read_count = 0
        /\ keys = [h \in Holders |-> {}]
        /\ pc = [h \in Holders |-> Idle]

Goto(h, label) == pc' = [pc EXCEPT ![h] = label]

\* exclusive_lock.lock(), or a try_lock() that succeeds, on entry to function f
LockMutex(h, f) == /\ exclusive_lock = NoHolder
                   /\ exclusive_lock' = h
                   /\ Goto(h, f)
                   /\ UNCHANGED <<read_count, keys>>

GiveKey(h, type) == keys' = [keys EXCEPT ![h] = @ \cup {type}]

(***************************************************************************)
(* GetExclusiveLock.  It must not be called by the owner of a shared key:  *)
(* it would wait for itself.                                               *)
(***************************************************************************)
GetExclusiveLock(h) == /\ pc[h] = Idle
                       /\ keys[h] = {}
                       /\ LockMutex(h, "GetExclusiveLock")

ReadersGone(h) == /\ pc[h] = "GetExclusiveLock"
                  /\ read_count = 0
                  /\ GiveKey(h, "EXCLUSIVE")
                  /\ Goto(h, Idle)
                  /\ UNCHANGED <<exclusive_lock, read_count>>

(***************************************************************************)
(* GetSharedLock.                                                          *)
(***************************************************************************)
\* mutant: the reader skips the mutex
GetSharedLock_NoMutex(h) == /\ pc[h] = Idle
                            /\ keys[h] = {}
                            /\ Goto(h, "GetSharedLock")
                            /\ UNCHANGED <<exclusive_lock, read_count, keys>>

GetSharedLock(h) == /\ pc[h] = Idle
                    /\ keys[h] = {}
                    /\ LockMutex(h, "GetSharedLock")

CountReader(h) == /\ pc[h] = "GetSharedLock"
                  /\ read_count' = read_count + 1
                  /\ GiveKey(h, "SHARED")
                  /\ Goto(h, "GetSharedLock.unlock")
                  /\ UNCHANGED exclusive_lock

SharedUnlock(h) == /\ pc[h] = "GetSharedLock.unlock"
                   /\ exclusive_lock' = NoHolder
                   /\ Goto(h, Idle)
                   /\ UNCHANGED <<read_count, keys>>

(***************************************************************************)
(* TryGetExclusiveLock and TryUpgradeCheckpointLock: one look at the       *)
(* counter decides.                                                        *)
(***************************************************************************)
TryGetExclusiveLock(h) == /\ pc[h] = Idle
                          /\ "EXCLUSIVE" \notin keys[h]
                          /\ LockMutex(h, "TryGetExclusiveLock")

TryUpgradeCheckpointLock(h) == /\ pc[h] = Idle
                               /\ keys[h] = {"SHARED"}
                               /\ LockMutex(h, "TryUpgradeCheckpointLock")

\* mutant: both functions tolerate one reader
ReadersAllowed_OneAlways(h) == 1

\* how many readers the function tolerates
ReadersAllowed(h) == IF pc[h] = "TryUpgradeCheckpointLock" THEN 1 ELSE 0

\* mutant: a successful upgrade also gives the shared unit back
TryOutcome_UpgradeConsumes(h) ==
    /\ pc[h] \in {"TryGetExclusiveLock", "TryUpgradeCheckpointLock"}
    /\ \/ /\ read_count = ReadersAllowed(h)
          /\ GiveKey(h, "EXCLUSIVE")
          /\ read_count' = 0
          /\ UNCHANGED exclusive_lock
       \/ /\ read_count # ReadersAllowed(h)
          /\ exclusive_lock' = NoHolder
          /\ UNCHANGED <<keys, read_count>>
    /\ Goto(h, Idle)

TryOutcome(h) == /\ pc[h] \in {"TryGetExclusiveLock", "TryUpgradeCheckpointLock"}
                 /\ \/ /\ read_count = ReadersAllowed(h)
                       /\ GiveKey(h, "EXCLUSIVE")
                       /\ UNCHANGED exclusive_lock
                    \/ /\ read_count # ReadersAllowed(h)
                       /\ exclusive_lock' = NoHolder
                       /\ UNCHANGED keys
                 /\ Goto(h, Idle)
                 /\ UNCHANGED read_count

(***************************************************************************)
(* ~StorageLockKey.  An upgraded holder may drop its keys in either order. *)
(***************************************************************************)
ReleaseExclusiveLock(h) == /\ pc[h] = Idle
                           /\ "EXCLUSIVE" \in keys[h]
                           /\ keys' = [keys EXCEPT ![h] = @ \ {"EXCLUSIVE"}]
                           /\ exclusive_lock' = NoHolder
                           /\ UNCHANGED <<read_count, pc>>

\* mutant: the counter is decremented under the mutex
ReleaseSharedLock_UnderMutex(h) ==
    /\ pc[h] = Idle
    /\ "SHARED" \in keys[h]
    /\ exclusive_lock = NoHolder
    /\ keys' = [keys EXCEPT ![h] = @ \ {"SHARED"}]
    /\ read_count' = read_count - 1
    /\ UNCHANGED <<exclusive_lock, pc>>

ReleaseSharedLock(h) == /\ pc[h] = Idle
                        /\ "SHARED" \in keys[h]
                        /\ keys' = [keys EXCEPT ![h] = @ \ {"SHARED"}]
                        /\ read_count' = read_count - 1
                        /\ UNCHANGED <<exclusive_lock, pc>>

\* The steps of a call that is under way.
Continue(h) == \/ ReadersGone(h)
               \/ CountReader(h)
               \/ SharedUnlock(h)
               \/ TryOutcome(h)

Release(h) == \/ ReleaseExclusiveLock(h)
              \/ ReleaseSharedLock(h)

Next == \E h \in Holders : \/ GetExclusiveLock(h)
                           \/ GetSharedLock(h)
                           \/ TryGetExclusiveLock(h)
                           \/ TryUpgradeCheckpointLock(h)
                           \/ Continue(h)
                           \/ Release(h)

(***************************************************************************)
(* A thread inside a function keeps running, and keys are scoped objects   *)
(* that are destroyed when their owner is done.  Nobody is forced to call. *)
(***************************************************************************)
Fairness == \A h \in Holders : /\ WF_vars(Continue(h))
                               /\ WF_vars(ReleaseExclusiveLock(h))
                               /\ WF_vars(ReleaseSharedLock(h))

Spec == Init /\ [][Next]_vars

FairSpec == Spec /\ Fairness

-----------------------------------------------------------------------------
(***************************************************************************)
(* Properties.                                                             *)
(***************************************************************************)
SharedOwners == {h \in Holders : "SHARED" \in keys[h]}
ExclusiveOwners == {h \in Holders : "EXCLUSIVE" \in keys[h]}

\* read_count, which is incremented under the mutex but decremented outside it,
\* is always the number of shared keys in existence.
CounterMatchesKeys == read_count = Cardinality(SharedOwners)

\* Whoever owns the exclusive key is alone, but for the shared key it upgraded:
\* no reader slips in between the test of read_count and the return of the key,
\* although readers leave without the mutex.
ExclusiveMeansAlone ==
    \A h \in ExclusiveOwners : /\ ExclusiveOwners = {h}
                               /\ SharedOwners \subseteq {h}

\* The mutex-and-counter implementation provides a reader/writer lock.
RWL == INSTANCE ReadWriteLock
         WITH readers <- SharedOwners,
              writer  <- IF ExclusiveOwners = {} THEN NoHolder
                         ELSE CHOOSE h \in Holders : "EXCLUSIVE" \in keys[h]

ImplementsReadWriteLock == RWL!Spec

\* A writer that has locked the mutex obtains its key: the readers it waits for
\* can all leave, and no new one gets in while it spins.
WriterNotStarved ==
    \A h \in Holders : pc[h] = "GetExclusiveLock" ~> "EXCLUSIVE" \in keys[h]
=============================================================================
