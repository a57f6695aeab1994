SPECIFICATION Spec
CONSTANTS
    Conversations = {"c1"}
    Requests = {"q1", "q2"}
    MaxMessages = 3
    MaxPlans = 1
    MaxBriefs = 2
    MaxCuts = 1
    MaxFacts = 3
    Skills = {"s1", "s2"}
    MaxLevel = 2
    MaxItems = 1
    MaxSubjects = 2
    Sounds = {"s1"}
    Senders = {"u1", "u2"}
    MaxAssets = 2
    MaxNotes = 1
    Films = {"f1", "f2"}
    Unfit = {"f2"}
    Uploaders = {"u1", "u2"}
    MaxTries = 3
    Contents = {"c1", "c2"}
    Starters = {"api", "worker"}
    MaxStarts = 4
    Payers = {"p1", "p2"}
    DayLimit = 2
    MonthLimit = 5
    Estimates = {1, 2}
    MaxCost = 1
    MaxCalls = 4
    MaxDays = 1
    MaxPacked = 2
    Budget = 2
    MinFacts = 1
    MaxAge = 1
    MinClip = 2
    AimClip = 3
    MinCue = 2
    LineChars = 4
    CueLines = 2
    DailyLimit = 2
    MonthlyLimit = 3
    TextSize = 3
    MaxClip = 4
    Tenth = 3
    MaxAsks = 2
    Standing = 2
    BatchSize = 2
    Interval = 1
    Silence = 3
    Lease = 4
    LastTime = 10
    MaxDeaths = 1
    DailyMax = 20
    MonthlyMax = 40
    MaxAccounts = 2
    MaxVersions = 2
    MaxFalls = 1
    MaxVideo = 40
    Unsaid = Unsaid
INVARIANTS TypeOK InterviewHolds MemoryIsSound PlanIsSound StoredOnce SpendingIsBounded PublishedAsApproved MontageFits RulesHold HealthIsTrue
PROPERTIES NothingIsUndone
CHECK_DEADLOCK FALSE
