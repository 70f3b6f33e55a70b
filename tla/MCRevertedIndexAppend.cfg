\* Ends in a violation: a duplicate key in a later chunk of a commit during a checkpoint.
SPECIFICATION Spec
CONSTANTS
    Txns = {t1, t2, t3}
    Keys = {k1, k2}
    InitialKeys <- EmptyOrOneRow
    RowGroupSize = 2
    NoTxn = NoTxn
    Infinity = 1000
    MaxRows = 3
    MaxDeletes = 1
    MaxCheckpoints = 2
    Scenarios = {{"automatic", "late_conflict"}}
INVARIANTS IndexEntriesExact
SYMMETRY Symmetric
