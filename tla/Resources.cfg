\* The TCP table and the tensor store, three tasks on two worker threads.
SPECIFICATION Spec
CONSTANTS
    t1 = t1
    t2 = t2
    t3 = t3
    Tasks = {t1, t2, t3}
    Privileged = {t1, t2}
    Workers = 2
    MaxHandles = 3
    Shards = {0, 1}
    ShardOf <- TwoShards
    MaxDials = 1
    MaxTensors = 5
    Programs <- AllPrograms
INVARIANTS
    TypeOK
    UsedEntriesStay
    TensorsAccounted
    FallbackOnlyAfterCompile
PROPERTIES
    FailedHandleNeverCloses
    ProgramsEnd
\* Programs end, and a task may wait for its own guard.
CHECK_DEADLOCK FALSE
