\* Two migrations and a parallel statement to one peer.
SPECIFICATION Spec
CONSTANTS
    t1 = t1
    t2 = t2
    p1 = p1
    Teleports = {t1, t2}
    Parallel = {p1}
    Garbled = {t1, t2}
    MaxConns = 3
    MaxFaults = 1
INVARIANTS
    TypeOK
    ResponsesMatch
    AtMostOnce
    AnswersTell
    ErrMeansNotRun
PROPERTY CallsHold
SYMMETRY Symmetry
\* Jobs end, and so do sessions.
CHECK_DEADLOCK FALSE
