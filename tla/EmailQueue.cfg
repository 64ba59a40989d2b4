SPECIFICATION FairSpec
CHECK_DEADLOCK FALSE
CONSTANTS
    Keys = {k1}
    Processes = {p1, p2}
    BatchSize = 1
    MaxAttempts = 3
    MaxFaults = 1
    MaxOverruns = 2
INVARIANTS
    RowsExplained
PROPERTIES
    QueueDrains
