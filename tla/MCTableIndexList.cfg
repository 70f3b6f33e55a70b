\* A unique index under commits, checkpoints and cleanup; deadlock is checked.
SPECIFICATION Spec
CONSTANTS
    Txns = {t1, t2, t3}
    Keys = {k1, k2}
    InitialKeys <- EmptyOrOneRow
    RowGroupSize = 2
    NoTxn = NoTxn
    Infinity = 1000
    MaxRows = 3
    MaxDeletes = 1
    MaxCheckpoints = 2
    Scenarios = {{"statement", "write_fail"}, {"automatic", "flush_fail"}}
INVARIANTS IndexScanComplete IndexEntriesExact CheckpointImageExact UniqueKeys NoIndexError
SYMMETRY Symmetric
