\* Ends in a violation: the WAL flush fails for a transaction that replaced a key.
SPECIFICATION Spec
CONSTANTS
    Txns = {t1, t2, t3}
    Keys = {k1, k2}
    InitialKeys <- EmptyOrOneRow
    RowGroupSize = 2
    NoTxn = NoTxn
    Infinity = 1000
    MaxRows = 3
    MaxDeletes = 1
    MaxCheckpoints = 2
    Scenarios = {{"flush_fail", "replace"}}
INVARIANTS NoIndexError
SYMMETRY Symmetric
