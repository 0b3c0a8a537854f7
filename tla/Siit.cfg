SPECIFICATION Spec
CONSTANTS
    Ones = 7
    Prefix = 3
    ClatHi = 6
    ClatLo = 4
    Placeholder = 1
    IDSpace = 2
    LinkMTUs = {60, 1280, 1400}
    ClientPackets <- MCClient
    NetPackets <- MCNet
INVARIANTS
    LengthHonest
    ChecksumHolds
    Transparent
    PathMTUSettles
