\* Two optimistic writers, a scan, drops and two checkpoints: without crashes, with a crash
\* at any step, and with everything that may happen save blocks taken while the header is
\* written.
SPECIFICATION Spec
CONSTANTS
    Txns = {t1, t2}
    MaxBlocks = 3
    MaxSegments = 3
    MaxCheckpoints = 2
    MaxReads = 1
    MaxCrashes = 1
    Scenarios = {{"share", "overflow", "fail", "commit_in_checkpoint"},
                 {"share", "fail", "commit_in_checkpoint", "crash", "crash_in_checkpoint"},
                 {"share", "overflow", "fail", "commit_in_checkpoint", "crash", "crash_in_checkpoint",
                  "late_unregister"}}
INVARIANTS ScannedBlocksIntact BlocksAccountedFor NoInternalException
           RecoverableBlocksIntact UsedBlocksReserved
SYMMETRY Symmetric
CHECK_DEADLOCK FALSE
