CONSTANTS
    j1 = j1
    j2 = j2
    j3 = j3
    k1 = k1
    None = None
    Workers = {w1, w2}
    Jobs <- MCJobs2
    DedupeKey <- MCNoKeys
    MaxAttempts <- MCAttempts
    JobLease <- MCLeases
    Priority <- MCPriorities
    NeedsNetwork <- MCNetwork
    BatchSize = 1
    Raised = {"transient"}
    Cancellable = {}
    MaxOutages = 0
    Unreadable = {}
    Offline = {}
    QueueLease = 2
    HeartbeatEvery = 1
    PollEvery = 1
    Delays = {1}
    AgeCap = 0
SPECIFICATION Spec
INVARIANTS OneRunner
