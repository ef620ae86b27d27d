\* The REPL and one other task on two globals; three commands on a history of two.
SPECIFICATION Spec
CONSTANTS
    k1 = k1
    k2 = k2
    Keys = {k1, k2}
    Values = {1, 2}
    Undefined = 0
    Repl = repl
    Others = {other}
    Commands <- MCCommands
    Packets <- MCPackets
    Requests <- MCRequests
    Functions <- MCFunctions
    MaxLines = 3
    MaxCommands = 3
    MaxScopes = 2
    MaxAsks = 1
    MaxHistory = 2
INVARIANTS
    TypeOK
    ErrMeansNothingRan
PROPERTIES
    UndoExact
\* The REPL ends with exit, and commands are bounded.
CHECK_DEADLOCK FALSE
