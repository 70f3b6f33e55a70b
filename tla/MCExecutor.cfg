\* A worker, the client and the callbacks of blocked tasks on three plans: tasks that block
\* or throw while events are scheduled, an interrupt at any moment, and a result that is
\* given up while tasks are blocked.
SPECIFICATION FairSpec
CONSTANTS
    Workers = {w1}
    Client = client
    NoTask = NoTask
    Plans <- MCPlans
    Scenarios = {{"block", "fail", "schedule_fail", "dequeue_fail"}, {"interrupt"}, {"block", "close"}}
    BufferSize = 1
    MaxBlocks = 1
    MaxFailures = 1
INVARIANTS EventOrder TaskInOnePlace SignalPerTask BlockedWillBeWoken ResultComplete SafeTeardown
PROPERTY QueryEnds
CHECK_DEADLOCK FALSE
