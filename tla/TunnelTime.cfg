SPECIFICATION TimedSpec
CONSTANTS
    Writer = {q1}
    Reader = Reader
    Heart = Heart
    Pump = Pump
    Other = Other
    None = None
    Keepalive = 8
    DPDInterval = 12
    Idle = 3
    Refresh = 3
    Floor = 2
    UpsertTimeout = 1
    ChanCap = 1
    InboxCap = 1
    PeerStalls = TRUE
CONSTRAINT WhileOpen
INVARIANTS
    KeepAlive
    BindingFresh
CHECK_DEADLOCK FALSE
