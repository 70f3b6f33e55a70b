\* Ends in a violation: an error of a worker reaches the client of a stream as an interrupt.
SPECIFICATION Spec
CONSTANTS
    Workers = {w1}
    Client = client
    NoTask = NoTask
    Plans <- MCPlans
    Scenarios = {{"fail"}}
    BufferSize = 1
    MaxBlocks = 1
    MaxFailures = 1
INVARIANT ErrorReported
CHECK_DEADLOCK FALSE
