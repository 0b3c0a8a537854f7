SPECIFICATION FairSpec
CONSTANTS
    None = None
    Datagram <- MCDatagram
    Key <- MCKey
    Unmap <- MCUnmap
    IdleTimeout = 1
    MaxSess = 2
    MaxNow = 2
INVARIANTS
    ReplyRoutable
    SweepCoversLive
    CloseEvicts
PROPERTIES
    CloseReturns
    EvictedForCause
