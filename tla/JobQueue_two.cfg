CONSTANTS
    j1 = j1
    j2 = j2
    j3 = j3
    k1 = k1
    None = None
    Workers = {w1, w2}
    Jobs <- MCJobs3
    DedupeKey <- MCKeys
    MaxAttempts <- MCAttempts
    JobLease <- MCLeases
    Priority <- MCPriorities
    NeedsNetwork <- MCNetwork
    BatchSize = 1
    Raised = {"transient"}
    Cancellable = {j1}
    MaxOutages = 1
    Unreadable = {j2}
    Offline = {w2}
    QueueLease = 2
    HeartbeatEvery = 1
    PollEvery = 1
    Delays = {1}
    AgeCap = 0
SPECIFICATION FairSpec
INVARIANTS OneActivePerKey
PROPERTIES EveryJobSettles
