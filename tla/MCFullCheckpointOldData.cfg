\* A full CHECKPOINT beside a reader that started before a committed delete.
CONSTANTS
    Txns = {t1, t2}
    Checkpointers = {k1}
    NoThread = NoThread
    Mods = {"delete"}
    MaxMods = 1
    AutoCheckpoint = FALSE
    TRANSACTION_ID_START = 100
    MAX_TRANSACTION_ID = 101
    InitialLastCommit = 0
SPECIFICATION Spec
INVARIANT FullCheckpointNeedsNoOldData
CHECK_DEADLOCK FALSE
