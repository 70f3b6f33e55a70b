\* Ends in a violation: an automatic checkpoint, a transaction that starts while it runs and a reader.
SPECIFICATION Spec
CONSTANTS
    Txns = {t1, t2, t3}
    VectorSize = 2
    InitialCounts = {2}
    TRANSACTION_ID_START = 16
    NoInfo = NoInfo
    MaxDeleteCount = 1
    MaxCheckpoints = 1
    Scenarios = {{"automatic"}}
INVARIANT CheckpointedDeletesWritten
CHECK_DEADLOCK FALSE
