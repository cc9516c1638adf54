SPECIFICATION Spec
CONSTANTS
    p1 = p1
    p2 = p2
    p3 = p3
    None = None
    Photo <- MCPhoto
    SortOrder <- MCSortOrder
    Rendered <- MCRendered
    Applied <- MCApplied
    MaxActs = 3
    MaxNet = 1
INVARIANTS
    Settled
    NoneTwice
PROPERTIES
    NothingSkipped
CHECK_DEADLOCK FALSE
