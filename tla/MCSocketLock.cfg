CONSTANTS
    Servers = {p1, p2, p3}
    Cleaners = {c1, c2}
    Nobody = nobody
    Stale = stale
    Attempts = 6
SPECIFICATION Spec
SYMMETRY Symmetry
INVARIANTS IInv RefusedByServer
PROPERTIES ImplementsSingleServer SocketKept
CHECK_DEADLOCK FALSE
