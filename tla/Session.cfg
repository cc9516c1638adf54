SPECIFICATION Spec
CONSTANTS
    r1 = r1
    r2 = r2
    s1 = s1
    s2 = s2
    Request <- MCRequest
    Stage <- MCStage
    PoolSize = 2
    Wipers = {"server", "cli"}
    MaxResets = 2
    MaxDeaths = 1
SYMMETRY Symmetry
INVARIANTS
    ServedBySession
    SessionIsWhole
