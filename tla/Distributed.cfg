\* Three writers on two nodes over one name.
SPECIFICATION Spec
CONSTANTS
    a = a
    b = b
    w1 = w1
    w2 = w2
    w3 = w3
    v1 = v1
    v2 = v2
    k1 = k1
    NoValue = NoValue
    Nodes = {a, b}
    Names = {k1}
    Values = {v1, v2}
    Writers = {w1, w2, w3}
    Home <- TwoNodes
    MaxClock = 3
INVARIANTS
    TypeOK
    StampsUnique
    EntriesAreWrites
    ClockCovers
    ReplicasConverge
PROPERTIES
    OnlyRacesRegress
SYMMETRY Symmetry
\* The clock bound stops the writers.
CHECK_DEADLOCK FALSE
