SPECIFICATION Spec
CONSTANTS
    t1 = t1 t2 = t2 s1 = s1 s2 = s2 a1 = a1 a2 = a2 c1 = c1 c2 = c2 q1 = q1
    Tunnel = {t1, t2}
    Session = {s1}
    Queue = {q1}
    Recv = Recv
    Walker = Walker
    None = None
    Addr = {a1, a2, c1, c2}
    Size = {1400, 1420, 1421}
    HandlerStalls = FALSE
    Native <- TwoNative
    Clat <- TwoClat
    Of <- LegOf
INVARIANTS
    EgressIsolation
    ClatTranslated
CHECK_DEADLOCK FALSE
