\* Liveness: two transactions that update and two checkpoint statements.
CONSTANTS
    Txns = {t1, t2}
    Checkpointers = {k1, k2}
    NoThread = NoThread
    Mods = {"update"}
    MaxMods = 1
    AutoCheckpoint = TRUE
    TRANSACTION_ID_START = 100
    MAX_TRANSACTION_ID = 101
    InitialLastCommit = 0
SPECIFICATION FairSpec
PROPERTIES CommitsEnd ForceCheckpointEnds
CHECK_DEADLOCK FALSE
