\* Three transactions: one checkpoints, one commits meanwhile, one still reads.
\* last_commit starts with a value above the first timestamps.
CONSTANTS
    Txns = {t1, t2, t3}
    Checkpointers = {}
    NoThread = NoThread
    Mods = {"index_delete"}
    MaxMods = 1
    AutoCheckpoint = TRUE
    TRANSACTION_ID_START = 100
    MAX_TRANSACTION_ID = 101
    InitialLastCommit = 7
SYMMETRY Symmetry
SPECIFICATION Spec
INVARIANT DurableOrAlone
CHECK_DEADLOCK FALSE
