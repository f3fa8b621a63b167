CONSTANTS
    Servers = {p1, p2}
    Cleaners = {c1}
    Nobody = nobody
    Stale = stale
    Attempts = 4
SPECIFICATION Spec
PROPERTIES HardExitClean
CHECK_DEADLOCK FALSE
