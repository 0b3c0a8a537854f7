SPECIFICATION Spec
CONSTANTS
    r4 = r4 r6 = r6
    Reader = {p1, p2}
    Kernel = {k1, k2, k3}
    Real = {r4, r6}
    Is4 <- V4
    Elem = {e1, e2, e3}
    None = None
    Datagram <- Datagrams
    MaxFlows = 2
    IdleTimeout = 1
    MaxNow = 4
SYMMETRY Symmetry
INVARIANTS
    TableInv
    AddressOwners
    FlowsBounded
