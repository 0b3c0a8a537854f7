SPECIFICATION Spec
CONSTANTS
    t1 = t1 t2 = t2 s1 = s1 s2 = s2 a1 = a1 a2 = a2 c1 = c1 c2 = c2 q1 = q1
    Tunnel = {t1, t2}
    Session = {}
    Queue = {}
    Recv = Recv
    Walker = Walker
    None = None
    Addr = {a1, c1}
    Size = {100}
    HandlerStalls = FALSE
    Native <- OneNative
    Clat <- OneClat
    Of <- LegOf
INVARIANTS
    LiveTransportRoutable
CHECK_DEADLOCK FALSE
