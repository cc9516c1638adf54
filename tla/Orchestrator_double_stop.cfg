SPECIFICATION Spec
CONSTANTS
    Stage = {"ingest", "enhance"}
    Leg = {1}
    LegStages <- MCLegStages
    Canceller = {c1, c2}
    MaxRuns = 3
INVARIANT OneStageProcess
