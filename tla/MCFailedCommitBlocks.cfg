\* Ends in a violation: the checkpoint after a failed commit misses the commit's blocks.
SPECIFICATION Spec
CONSTANTS
    Txns = {t1, t2}
    MaxBlocks = 3
    MaxSegments = 3
    MaxCheckpoints = 1
    MaxReads = 0
    MaxCrashes = 0
    Scenarios = {{"fail"}}
INVARIANT AllBlocksReferenced
SYMMETRY Symmetric
CHECK_DEADLOCK FALSE
