\* Ends in a violation: a delete, a reverted append, a checkpoint and the append once more.
SPECIFICATION Spec
CONSTANTS
    Txns = {t1, t2, t3}
    VectorSize = 2
    InitialCounts = {1}
    TRANSACTION_ID_START = 16
    NoInfo = NoInfo
    MaxDeleteCount = 1
    MaxCheckpoints = 1
    Scenarios = {{"append", "statement", "fail"}}
INVARIANT AppendsNeedNoCheckpoint
SYMMETRY Symmetric
CHECK_DEADLOCK FALSE
