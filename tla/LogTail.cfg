SPECIFICATION FairSpec
CONSTANTS
    Stage = {"enhance"}
    TailMax = 2
    KeepLines = 2
    Radix = 3
    Padded = 3
    MaxRuns = 3
    MaxLines = 3
    MaxRestarts = 1
INVARIANTS
    LogIsComplete
    SavedLogIsLatest
PROPERTIES
    LineArrives
CHECK_DEADLOCK FALSE
