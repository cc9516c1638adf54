SPECIFICATION RerunSpec
CONSTANTS
    r = r
    j = j
    Photo <- MCPhoto
    RawPhoto <- MCRaw
    Path <- MCPath
    Dest <- MCDest
    Occupied <- MCRaw
    Cluster <- MCPhoto
    Recommended <- MCRaw
    KeepDefault = TRUE
    Request = {c1}
    Overlap = FALSE
    MaxDeaths = 0
INVARIANTS
    UnappliedUntouched
    RetentionAsDecided
PROPERTIES
    RowLocked
    RerunsExport
