SPECIFICATION FairSpec
CONSTANTS
    p1 = p1
    p2 = p2
    d1 = d1
    home = home
    k1 = k1
    k2 = k2
    None = None
    Ambient = Ambient
    Requests <- AllRequests
    Clients = {home}
    Keys = {k1, k2}
    Op <- OpOf
    Client <- ClientOf
    Carries <- CarriesOf
    Group <- GroupOf
    Configured = {k1}
    Scoped = {k2}
    RateLimitN = 2
    Window = 2
    TTL = 2
INVARIANTS
    OwnCredentials
    CredentialsRestored
    RateBounded
    StaleOnlyByRace
PROPERTIES
    LimitedOnlyAtLimit
    StaleExpires
    RequestsEnd
CHECK_DEADLOCK FALSE
