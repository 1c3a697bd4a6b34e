SPECIFICATION Spec
CONSTANTS
    c1 = c1
    c2 = c2
    c3 = c3
    c4 = c4
    NoOwner = NoOwner
    Callers <- FourCallers
    Beating <- Renewing
    FailAt = {"create", "write", "held", "renew", "truncated"}
    MayExpire = {}
    Unlocks = 0
INVARIANTS
    Exclusive
PROPERTIES
    OthersRecordUntouched
CHECK_DEADLOCK FALSE
