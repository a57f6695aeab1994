CONSTANTS
    a1 = a1
    a2 = a2
    None = None
    Accounts = {a1}
    ApiLevel <- MCLevelA
    Verifiable = {}
    Runners = {r1}
    Wire = {"created", "unavailable"}
    Lands = {"created", "created_no_id", "unavailable"}
    Throws = {}
    MayHold = FALSE
    LeasesExpire = FALSE
    ByHand = FALSE
    Reconnects = FALSE
    MaxVersions = 1
    MaxOutages = 0
SPECIFICATION Spec
CHECK_DEADLOCK FALSE
INVARIANTS NoDuplicate
