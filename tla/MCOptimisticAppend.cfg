\* Ends in a violation: an append whose row groups were written before the commit.
SPECIFICATION Spec
CONSTANTS
    Txns = {t1, t2}
    VectorSize = 2
    InitialCounts = {0}
    TRANSACTION_ID_START = 16
    NoInfo = NoInfo
    MaxDeleteCount = 1
    MaxCheckpoints = 0
    Scenarios = {{"append", "optimistic"}}
PROPERTY ImplementsSnapshotTable
CHECK_DEADLOCK FALSE
