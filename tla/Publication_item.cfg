CONSTANTS
    a1 = a1
    a2 = a2
    None = None
    Accounts = {a1, a2}
    ApiLevel <- MCLevelAB
    Verifiable = {a1}
    Runners = {r1}
    Wire <- MCAllEvents
    Lands <- MCHonestLands
    Throws = {"auth", "internal"}
    MayHold = FALSE
    LeasesExpire = FALSE
    ByHand = FALSE
    Reconnects = FALSE
    MaxVersions = 1
    MaxOutages = 1
SPECIFICATION Spec
CHECK_DEADLOCK FALSE
INVARIANTS PublishedMeansSettled
