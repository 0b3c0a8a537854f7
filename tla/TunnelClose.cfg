SPECIFICATION FairSpec
CONSTANTS
    Writer = {q1}
    Reader = Reader
    Heart = Heart
    Pump = Pump
    Other = Other
    None = None
    Keepalive = 8
    DPDInterval = 12
    Idle = 0
    Refresh = 0
    Floor = 2
    UpsertTimeout = 0
    ChanCap = 1
    InboxCap = 1
    PeerStalls = TRUE
INVARIANTS
    TypeOK
    CauseReported
PROPERTIES
    CloseEnds
CHECK_DEADLOCK FALSE
