SPECIFICATION LoopSpec
CONSTANTS
    Stage = {"ingest", "enhance"}
    Leg = {1}
    LegStages <- MCLegStages
    Canceller = {c1}
    MaxRuns = 2
INVARIANTS
    TypeOK
    OneStageProcess
    OutcomesAreHonest
    ResetExcludesJobs
PROPERTIES
    StopMeansStopped
    LegAdvancesOnDone
    StopFreesSlot
    LegEnds
    SlotIsFreed
    SlotSpec
