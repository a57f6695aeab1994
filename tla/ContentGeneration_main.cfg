CONSTANTS
    Targets = {1, 2}
    MaxItems = 2
    MaxJobs = 2
    MaxWork = 2
    MaxEvents = 4
    MaxAttempts = 2
    MaxRegen = 1
    Retries = 1
SPECIFICATION FairSpec
INVARIANTS TypeOK ApprovalHolds LotIsWhole WritingIsBounded CardIsHonest
PROPERTIES ImplementsContract JobEnds
CHECK_DEADLOCK FALSE
