CONSTANTS
    a1 = a1
    a2 = a2
    None = None
    Accounts = {a1}
    ApiLevel <- MCLevelA
    Verifiable = {a1}
    Runners = {r1, r2}
    Wire = {"created", "timeout", "throttled", "conflict"}
    Lands <- MCHonestLands
    Throws = {"auth", "capability"}
    MayHold = TRUE
    LeasesExpire = FALSE
    ByHand = TRUE
    Reconnects = FALSE
    MaxVersions = 1
    MaxOutages = 2
SPECIFICATION Spec
CHECK_DEADLOCK FALSE
 
PROPERTIES SendingIsResolved
