SPECIFICATION FairSpec
CONSTANTS
    d1 = d1 p1 = p1 p2 = p2 far = far
    Caller = {r1, r2}
    Device = {d1}
    None = None
    Prefix = {p1, p2, far}
    PoolHost = {p1, p2}
    Invalid = Invalid
    Doc <- Docs
    TTL = 1
    HTTPTimeout = 1
    MaxNow = 4
    MaxVer = 1
INVARIANTS
    TypeOK
PROPERTIES
    LookupSpec
    FlapAbsorbed
    ResolveReturns
