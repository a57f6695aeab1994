CONSTANTS
    a1 = a1
    a2 = a2
    None = None
    Accounts = {a1}
    ApiLevel <- MCLevelA
    Verifiable = {a1}
    Runners = {r1}
    Wire <- MCAllEvents
    Lands <- MCHonestLands
    Throws = {"auth", "capability", "internal"}
    MayHold = TRUE
    LeasesExpire = FALSE
    ByHand = FALSE
    Reconnects = TRUE
    MaxVersions = 2
    MaxOutages = 1
SPECIFICATION Spec
CHECK_DEADLOCK FALSE
INVARIANTS TypeOK NoDuplicate
PROPERTIES AmbiguousWaitsForHuman ImplementsContract
