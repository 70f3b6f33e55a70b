\* Safety.  Two transactions, one checkpointer and one modification of each kind that
\* the manager tells apart (an insert acts like a delete and a drop like an update).
CONSTANTS
    Txns = {t1, t2}
    Checkpointers = {k1}
    NoThread = NoThread
    Mods = {"delete", "index_delete", "update", "create"}
    MaxMods = 2
    AutoCheckpoint = TRUE
    TRANSACTION_ID_START = 100
    MAX_TRANSACTION_ID = 101
    InitialLastCommit = 0
SYMMETRY Symmetry
SPECIFICATION Spec
INVARIANTS
    TypeOK
    CleanupSafe
    CleanupInOrder
    LowestActiveStartSafe
    RecentlyCommittedOrdered
    OneCheckpointAtATime
    WALInCommitOrder
    NoOldVersionsNeeded
CHECK_DEADLOCK FALSE
