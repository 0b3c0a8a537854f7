SPECIFICATION FairSpec
CONSTANTS
    u1 = u1 p1 = p1 p2 = p2 p3 = p3 d1 = d1 d2 = d2
    Req = {r1, r2}
    Opaque = {o1}
    Token = {k1, k2}
    Tunnel = {w1, w2}
    User = {u1}
    Password = {p1, p2, p3}
    Device = {d1, d2}
    None = None
    TTL = 0
    MaxNow = 1
    Cap = 1
    Creds <- OneUser
INVARIANTS
    TypeOK
    TunnelDeviceVerified
    TunnelOwned
PROPERTIES
    PublishAnswered
CHECK_DEADLOCK FALSE
