\* Commits, some of which fail, beside checkpoints, and a crash at any three moments, also
\* while the database is opened again: a file with iterations, one without (with
\* checkpoints that see an empty WAL as well), two crashes of which one may come between the
\* move of the recovery WAL and the removal of the checkpoint WAL, and everything that may
\* happen.
SPECIFICATION Spec
CONSTANTS
    Roots = {1, 2}
    NoFile = NoFile
    NoCommit = NoCommit
    MaxCommits = 4
    MaxCheckpoints = 2
    MaxCrashes = 3
    Scenarios = {{"iteration", "torn", "revert"},
                 {"torn", "revert", "skip_wal", "force_checkpoint"},
                 {"iteration", "torn", "revert", "crash_before_remove"},
                 {"iteration", "torn", "torn_header", "revert", "skip_wal", "force_checkpoint",
                  "crash_before_remove"}}
INVARIANTS DatabaseOpens ReadOnlySeesAcknowledged
PROPERTY ImplementsDurableLog
CHECK_DEADLOCK FALSE
