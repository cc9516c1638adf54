------------------------------- MODULE JobSlot -------------------------------
(***************************************************************************)
(* What the orchestrator promises about its runs, without saying how: one  *)
(* slot, runs numbered in the order they start, at most one of them        *)
(* running, and an outcome that is decided once.  The module docstring of  *)
(* app/orchestrator/runner.py is the source of the promise; Orchestrator   *)
(* implements this specification.                                          *)
(***************************************************************************)
EXTENDS Naturals

CONSTANT Stage      \* names of the pipeline stages

VARIABLES
    jobs,       \* the runs so far, by number: [stage, status]
    current,    \* the latest run, None before the first one and after a reset
    history     \* the latest finished run of every stage

jobVars == <<jobs, current, history>>

None == 0
Outcome == {"done", "failed", "cancelled"}
Idle == \A r \in DOMAIN jobs : jobs[r].status # "running"

JobInit ==
    /\ jobs = [r \in {} |-> None]
    /\ current = None
    /\ history = [s \in Stage |-> None]

(* A run starts only while no run is running, under a number of its own.   *)
Begin(s) ==
    /\ Idle
    /\ \A r \in DOMAIN jobs : current' > r
    /\ jobs' = [r \in DOMAIN jobs \union {current'} |->
                  IF r = current' THEN [stage |-> s, status |-> "running"] ELSE jobs[r]]
    /\ UNCHANGED history

(* Only the current run ends, once, and it becomes its stage's latest.     *)
End(outcome) ==
    /\ current # None
    /\ jobs[current].status = "running"
    /\ jobs' = [jobs EXCEPT ![current].status = outcome]
    /\ history' = [history EXCEPT ![jobs[current].stage] = current]
    /\ UNCHANGED current

(* A reset forgets every run, between two runs.                            *)
Forget ==
    /\ Idle
    /\ current' = None
    /\ history' = [s \in Stage |-> None]
    /\ UNCHANGED jobs

JobNext ==
    \/ \E s \in Stage : Begin(s)
    \/ \E outcome \in Outcome : End(outcome)
    \/ Forget

JobSpec == JobInit /\ [][JobNext]_jobVars
=============================================================================
