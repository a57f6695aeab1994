SPECIFICATION Spec
CONSTANTS
    Writers = {"w1", "w2"}
    Clients = {"s1"}
    MaxAttempts = 2
    MaxExpiries = 1
    MaxLog = 1
    FirstPage = 2
    Page = 1
    Renders = {"r1"}
    Runners = {"w1", "w2"}
    Outputs = {"b1", "b2"}
    MaxJobs = 2
    MaxFaults = 1
    Callers = {"c1", "c2", "c3", "c4"}
    Places = 2
    Tasks = {"t1", "t2", "t3", "t4"}
    None = "none"
    MaxSends = 3
    Projects = {"a", "b"}
    MaxLaunches = 1
    Full = 1
    Conversations = {"a", "b"}
    MaxTurns = 4
    MaxRecordings = 2
INVARIANTS TypeOK JournalIsWhole RendersAreTrue TurnsAreKept AnswersAreMatched
PROPERTIES NothingGoesBack WaitsEnd
CHECK_DEADLOCK FALSE
