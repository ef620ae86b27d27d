\* Two migrations that overtake each other.
SPECIFICATION Spec
CONSTANTS
    t1 = t1
    t2 = t2
    Teleports = {t1, t2}
    Parallel = {}
    Garbled = {}
    MaxConns = 2
    MaxFaults = 0
INVARIANTS
    TeleportArrives
\* Jobs end, and so do sessions.
CHECK_DEADLOCK FALSE
