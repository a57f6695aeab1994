CONSTANTS
    a1 = a1
    a2 = a2
    None = None
    Accounts = {a1}
    ApiLevel <- MCLevelA
    Verifiable = {}
    Runners = {r1, r2}
    Wire = {"created", "timeout", "throttled", "conflict"}
    Lands <- MCHonestLands
    Throws = {"internal"}
    MayHold = FALSE
    LeasesExpire = TRUE
    ByHand = FALSE
    Reconnects = FALSE
    MaxVersions = 1
    MaxOutages = 1
SPECIFICATION Spec
CHECK_DEADLOCK FALSE
INVARIANTS DuplicateNeedsRetry
