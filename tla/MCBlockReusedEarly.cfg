\* Ends in a violation: a block is taken between the writing of the free list and of the
\* header.
SPECIFICATION Spec
CONSTANTS
    Txns = {t1, t2}
    MaxBlocks = 3
    MaxSegments = 4
    MaxCheckpoints = 2
    MaxReads = 1
    MaxCrashes = 0
    Scenarios = {{"write_in_header"}}
INVARIANT RecoverableBlocksIntact
SYMMETRY Symmetric
CHECK_DEADLOCK FALSE
