\* Ends in a violation: a crash during a checkpoint, one between the move of the recovery
\* WAL and the removal of the checkpoint WAL, and one behind the marker of the next checkpoint.
SPECIFICATION Spec
CONSTANTS
    Roots = {1, 2}
    NoFile = NoFile
    NoCommit = NoCommit
    MaxCommits = 3
    MaxCheckpoints = 2
    MaxCrashes = 4
    Scenarios = {{"iteration", "crash_before_remove"}}
PROPERTY ImplementsDurableLog
CHECK_DEADLOCK FALSE
