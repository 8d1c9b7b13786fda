SPECIFICATION MCSpec
CONSTANTS
    Caller = {c1, c2}
    Cap = 1
    MaxOut = 2
    MaxFaults = 1
    MaxDamage = 1
    OutCap = 1
INVARIANTS OneLaunch AuditIsTrue ArchivedNeverAhead OuterAuditIsTrue
PROPERTIES PromiseKept OuterPromiseKept EveryTransactionEnds
CHECK_DEADLOCK FALSE
