--------------------------- MODULE MCOrchestrator ---------------------------
(* Orchestrator with one leg of two stages; both can also be run alone.    *)
EXTENDS Orchestrator

MCLegStages == [l \in {1} |-> <<"ingest", "enhance">>]
=============================================================================
