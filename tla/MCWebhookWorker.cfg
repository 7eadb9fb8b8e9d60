SPECIFICATION FairSpec
CONSTANTS
    Deliveries = {d1, d2}
    Workers = {w1, w2}
    MaxAttempts = 2
    BatchSize = 2
    MaxFaults = 1
INVARIANTS
    WorkerTypeOK
    SucceededMeansAccepted
    PostsAreAttempts
PROPERTIES
    SuccessIsKept
    RetriesAreDurable
CHECK_DEADLOCK FALSE
