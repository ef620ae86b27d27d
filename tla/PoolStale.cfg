\* A statement sent on a connection that went idle.
SPECIFICATION Spec
CONSTANTS
    p1 = p1
    p2 = p2
    Teleports = {}
    Parallel = {p1, p2}
    Garbled = {}
    MaxConns = 2
    MaxFaults = 0
INVARIANTS
    PoolReconnects
\* Jobs end, and so do sessions.
CHECK_DEADLOCK FALSE
