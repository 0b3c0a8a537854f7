SPECIFICATION FairSpec
CONSTANTS
    None = None
    Conn = {c1, c2}
    Stream <- MCStream
    Cap = 1
PROPERTIES
    CloseEndsTunnels
CHECK_DEADLOCK FALSE
