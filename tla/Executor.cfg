\* Some hundred programs, up to three tasks on one memory, in a sandbox with little gas.
SPECIFICATION Spec
CONSTANTS
    b0 = b0
    b1 = b1
    b2 = b2
    b3 = b3
    t0 = t0
    t1 = t1
    t2 = t2
    Blocks = {b0, b1, b2, b3}
    NoBlock = NoBlock
    Main = b0
    Programs <- AllPrograms
    Threads = {t0, t1, t2}
    First = t0
    GasLimit = 12
    MaxFrames = 3
    MaxItems = 2
    HasPeers = TRUE
INVARIANTS
    TypeOK
    ScopesMatchGuards
    LocalsStayLocal
    RunsAfterPerform
PROPERTIES
    SandboxEnds
\* A program ends.
CHECK_DEADLOCK FALSE
