SPECIFICATION FairSpec
CONSTANTS
    None = None
    Conn = {c1, c2}
    Stream <- MCStream
    Cap = 1
INVARIANTS
    ConnOwned
    CloseWaits
PROPERTIES
    ServedOrClosed
    CloseReturns
CHECK_DEADLOCK FALSE
