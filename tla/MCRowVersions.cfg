\* Three transactions on one vector: two stored rows, all deletes and one CHECKPOINT; or one
\* stored row and room for an append, with a CHECKPOINT or an automatic checkpoint and a
\* restart of the database from what it has written, or with commits that fail.
SPECIFICATION Spec
CONSTANTS
    Txns = {t1, t2, t3}
    VectorSize = 2
    InitialCounts = {1, 2}
    TRANSACTION_ID_START = 16
    NoInfo = NoInfo
    MaxDeleteCount = 2
    MaxCheckpoints = 1
    Scenarios = {{"statement"}, {"append", "statement", "restart"},
                 {"append", "automatic", "restart"}, {"append", "automatic", "fail"}}
INVARIANTS CachedCompressionHolds CheckpointSound SkippedWriteIsCurrent
PROPERTY ImplementsSnapshotTable
SYMMETRY Symmetric
CHECK_DEADLOCK FALSE
