\* Dispatches end whatever fails.
SPECIFICATION FairSpec
CONSTANTS
    t1 = t1
    p1 = p1
    Teleports = {t1}
    Parallel = {p1}
    Garbled = {t1, p1}
    MaxConns = 4
    MaxFaults = 2
PROPERTIES
    DispatchesEnd
\* Jobs end, and so do sessions.
CHECK_DEADLOCK FALSE
