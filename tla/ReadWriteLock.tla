---------------------------- MODULE ReadWriteLock ----------------------------
(***************************************************************************)
(* What a StorageLock promises its callers: any number of shared keys, or  *)
(* one exclusive key.  The one exception is the upgrade used by automatic  *)
(* checkpoints (TryUpgradeCheckpointLock): a holder whose shared key is    *)
(* the only one may obtain the exclusive key and then owns both.           *)
(*                                                                         *)
(* The other modules use this abstraction for the locks they take, because *)
(* StorageLock.tla, the code's mutex-and-counter implementation, is shown  *)
(* to implement it.                                                        *)
(***************************************************************************)
CONSTANTS Holders,     \* whoever can own a key: transactions, checkpointing threads
          NoHolder     \* not one of the Holders

VARIABLES readers,     \* the holders that own a shared key
          writer       \* the holder that owns the exclusive key, or NoHolder

vars == <<readers, writer>>

TypeOK == /\ readers \subseteq Holders
          /\ writer \in Holders \cup {NoHolder}

Init == /\ readers = {}
        /\ writer = NoHolder

AcquireShared(h) == /\ writer = NoHolder
                    /\ h \notin readers
                    /\ readers' = readers \cup {h}
                    /\ UNCHANGED writer

ReleaseShared(h) == /\ h \in readers
                    /\ readers' = readers \ {h}
                    /\ UNCHANGED writer

AcquireExclusive(h) == /\ writer = NoHolder
                       /\ readers = {}
                       /\ writer' = h
                       /\ UNCHANGED readers

Upgrade(h) == /\ writer = NoHolder
              /\ readers = {h}
              /\ writer' = h
              /\ UNCHANGED readers

ReleaseExclusive(h) == /\ writer = h
                       /\ writer' = NoHolder
                       /\ UNCHANGED readers

Next == \E h \in Holders : \/ AcquireShared(h)
                           \/ ReleaseShared(h)
                           \/ AcquireExclusive(h)
                           \/ Upgrade(h)
                           \/ ReleaseExclusive(h)

Spec == Init /\ [][Next]_vars

\* The exclusive key excludes every shared key but its owner's own.
Exclusion == writer # NoHolder => readers \subseteq {writer}
=============================================================================
