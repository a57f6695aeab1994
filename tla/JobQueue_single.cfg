CONSTANTS
    j1 = j1
    j2 = j2
    j3 = j3
    k1 = k1
    None = None
    Workers = {w1}
    Jobs <- MCJobs3
    DedupeKey <- MCKeys
    MaxAttempts <- MCAttempts
    JobLease <- MCLeases
    Priority <- MCPriorities
    NeedsNetwork <- MCNetwork
    BatchSize = 2
    Raised = {"transient", "internal", "ambiguous"}
    Cancellable = {}
    MaxOutages = 1
    Unreadable = {}
    Offline = {}
    QueueLease = 2
    HeartbeatEvery = 1
    PollEvery = 1
    Delays = {0, 2}
    AgeCap = 1
SPECIFICATION Spec
INVARIANTS TypeOK RetriesBounded DelayHonoured
PROPERTIES AmbiguousIsFinal ImplementsContract
