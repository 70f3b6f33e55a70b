\* Ends in a violation: a transaction that deletes a row twice meets a conflict on another row.
SPECIFICATION Spec
CONSTANTS
    Txns = {t1, t2}
    VectorSize = 2
    InitialCounts = {2}
    TRANSACTION_ID_START = 16
    NoInfo = NoInfo
    MaxDeleteCount = 2
    MaxCheckpoints = 0
    Scenarios = {{"repeat"}}
PROPERTY ImplementsSnapshotTable
CHECK_DEADLOCK FALSE
