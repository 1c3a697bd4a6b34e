SPECIFICATION FairSpec
CONSTANTS
    c1 = c1
    c2 = c2
    c3 = c3
    Callers = {c1, c2, c3}
    NoOwner = NoOwner
    TTL = 11
    Second = 1
    MaxFails = 1
    Skew <- SkewedClocks
    MaxSkew = 1
    MaxDelay = 1
INVARIANTS
    OneHolder
PROPERTIES
    WaitersServed
