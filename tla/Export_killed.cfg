SPECIFICATION Spec
CONSTANTS
    r = r
    j = j
    Photo <- MCPhoto
    RawPhoto <- MCRaw
    Path <- MCPath
    Dest <- MCDest
    Occupied = {}
    Cluster <- MCPhoto
    Recommended <- MCRaw
    KeepDefault = TRUE
    Request = {c1}
    Overlap = FALSE
    MaxDeaths = 1
INVARIANTS
    PendingCanBeExported
