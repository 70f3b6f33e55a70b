\* FORCE CHECKPOINT after an automatic checkpoint of a transaction that created an entry.
CONSTANTS
    Txns = {t1, t2}
    Checkpointers = {k1}
    NoThread = NoThread
    Mods = {"create"}
    MaxMods = 1
    AutoCheckpoint = TRUE
    TRANSACTION_ID_START = 100
    MAX_TRANSACTION_ID = 101
    InitialLastCommit = 0
SPECIFICATION FairSpec
PROPERTY ForceCheckpointEnds
CHECK_DEADLOCK FALSE
