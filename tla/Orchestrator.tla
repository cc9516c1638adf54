---------------------------- MODULE Orchestrator ----------------------------
(***************************************************************************)
(* The orchestrator of the web server: JobRunner (runner.py), AutoRun      *)
(* (autorun.py) and the routes of api/routes/pipeline.py that start, stop  *)
(* and reset.  All of them are coroutines of one event loop, so a step is  *)
(* the code a coroutine runs between two of its awaits:                    *)
(*   - start() up to `await create_subprocess_exec`, then its return;      *)
(*   - the log pump, which captures _proc and _current when its task first *)
(*     runs, reads until the pipe is closed and records the outcome;       *)
(*   - cancel(): SIGTERM, wait at most the grace for the exit, SIGKILL,    *)
(*     wait at most the drain timeout for the pump;                        *)
(*   - the task of an auto-run leg and the reset request.                  *)
(* A run is named by its run_seq, which also names its JobRecord, its      *)
(* process and its reader task.  Processes exit, and timers expire, at any *)
(* time; a grandchild may hold the pipe open, so the pump may end long     *)
(* after the process.                                                      *)
(***************************************************************************)
EXTENDS Naturals, Sequences, FiniteSets

CONSTANTS
    Stage,        \* names of the pipeline stages
    Leg,          \* the auto-run legs
    LegStages,    \* the stages of a leg, in order
    Canceller,    \* requests to /cancel that may be in progress at once
    MaxRuns       \* bound on the number of runs

ASSUME StageAssumption == Stage # {}
ASSUME LegAssumption == Leg # {} /\ LegStages \in [Leg -> Seq(Stage) \ {<<>>}]
ASSUME MaxRunsAssumption == MaxRuns \in Nat \ {0}

VARIABLES
    \* JobRecord, of every run ever started
    stageOf, status,
    \* JobRunner
    current, history, procRef, readerRef, runSeq, cancelling,
    \* a run's start() call and process
    spawn, live, exitOk, signal,
    \* a run's log pump: where it is, and the _proc and _current it captured
    pumpPc, pumpProc, pumpRec,
    \* AutoRun: where its task is, its leg, the position of the next stage, the
    \* run it started last, and whether its task has been cancelled
    legPc, leg, legNext, legRun, legStop,
    \* a /cancel request: where it is, the run it was to stop (for the
    \* properties), and the process and the pump it waits for
    reqPc, reqTarget, reqProc, reqReader,
    \* the flag of the routes
    resetting

recordVars == <<stageOf, status>>
runnerVars == <<current, history, procRef, readerRef, runSeq, cancelling>>
procVars == <<spawn, live, exitOk, signal>>
pumpVars == <<pumpPc, pumpProc, pumpRec>>
legVars == <<legPc, leg, legNext, legRun, legStop>>
reqVars == <<reqPc, reqTarget, reqProc, reqReader>>
vars == <<stageOf, status, current, history, procRef, readerRef, runSeq, cancelling,
          spawn, live, exitOk, signal, pumpPc, pumpProc, pumpRec, legPc, leg, legNext,
          legRun, legStop, reqPc, reqTarget, reqProc, reqReader, resetting>>

None == 0
Run == 1..MaxRuns
AnyStage == CHOOSE s \in Stage : TRUE
AnyLeg == CHOOSE l \in Leg : TRUE
Terminal == {"done", "failed", "cancelled"}

TypeOK ==
    /\ stageOf \in [Run -> Stage]
    /\ status \in [Run -> {"none", "running"} \union Terminal]
    /\ current \in Run \union {None}
    /\ history \in [Stage -> Run \union {None}]
    /\ procRef \in Run \union {None}
    /\ readerRef \in Run \union {None}
    /\ runSeq \in 0..MaxRuns
    /\ cancelling \in BOOLEAN
    /\ spawn \in [Run -> {"none", "pending", "done", "failed"}]
    /\ live \subseteq Run
    /\ exitOk \subseteq Run
    /\ signal \in [Run -> {"none", "term", "kill"}]
    /\ pumpPc \in [Run -> {"none", "created", "reading", "crashed", "done"}]
    /\ pumpProc \in [Run -> Run \union {None}]
    /\ pumpRec \in [Run -> Run \union {None}]
    /\ legPc \in {"idle", "ready", "starting", "waiting"}
    /\ leg \in Leg
    /\ legNext \in Nat \ {0}
    /\ legPc = "ready" => legNext = 1
    /\ legRun \in Run \union {None}
    /\ legStop \in BOOLEAN
    /\ reqPc \in [Canceller -> {"idle", "chain", "term", "drain", "replied"}]
    /\ reqTarget \in [Canceller -> Run \union {None}]
    /\ reqProc \in [Canceller -> Run \union {None}]
    /\ reqReader \in [Canceller -> Run \union {None}]
    /\ resetting \in BOOLEAN

Init ==
    /\ stageOf = [r \in Run |-> AnyStage]
    /\ status = [r \in Run |-> "none"]
    /\ current = None
    /\ history = [s \in Stage |-> None]
    /\ procRef = None
    /\ readerRef = None
    /\ runSeq = 0
    /\ cancelling = FALSE
    /\ spawn = [r \in Run |-> "none"]
    /\ live = {}
    /\ exitOk = {}
    /\ signal = [r \in Run |-> "none"]
    /\ pumpPc = [r \in Run |-> "none"]
    /\ pumpProc = [r \in Run |-> None]
    /\ pumpRec = [r \in Run |-> None]
    /\ legPc = "idle"
    /\ leg = AnyLeg
    /\ legNext = 1
    /\ legRun = None
    /\ legStop = FALSE
    /\ reqPc = [c \in Canceller |-> "idle"]
    /\ reqTarget = [c \in Canceller |-> None]
    /\ reqProc = [c \in Canceller |-> None]
    /\ reqReader = [c \in Canceller |-> None]
    /\ resetting = FALSE

(***************************************************************************)
(* Conditions and updates several handlers share                           *)
(***************************************************************************)

(* running_stage is not None                                               *)
Busy == current # None /\ status[current] = "running"

(* active_leg is not None                                                  *)
LegActive == legPc # "idle"

(* _finish(record, outcome)                                                *)
Finish(record, outcome) ==
    IF record # None /\ record = current /\ status[record] = "running"
    THEN /\ status' = [status EXCEPT ![record] = outcome]
         /\ history' = [history EXCEPT ![stageOf[record]] = record]
         /\ procRef' = None
    ELSE UNCHANGED <<status, history, procRef>>

(* Mutant of StartRun: the busy check is missing.                           *)
StartRunBusy(s) ==
    /\ runSeq < MaxRuns
    /\ runSeq' = runSeq + 1
    /\ cancelling' = FALSE
    /\ current' = runSeq + 1
    /\ stageOf' = [stageOf EXCEPT ![runSeq + 1] = s]
    /\ status' = [status EXCEPT ![runSeq + 1] = "running"]
    /\ spawn' = [spawn EXCEPT ![runSeq + 1] = "pending"]
    /\ live' = live \union {runSeq + 1}
    /\ UNCHANGED <<history, procRef, readerRef, exitOk, signal, pumpVars>>

(* start(stage) up to its await: the slot is taken and the process forked  *)
(* before any other coroutine runs.                                        *)
StartRun(s) ==
    /\ ~Busy
    /\ runSeq < MaxRuns
    /\ runSeq' = runSeq + 1
    /\ cancelling' = FALSE
    /\ current' = runSeq + 1
    /\ stageOf' = [stageOf EXCEPT ![runSeq + 1] = s]
    /\ status' = [status EXCEPT ![runSeq + 1] = "running"]
    /\ spawn' = [spawn EXCEPT ![runSeq + 1] = "pending"]
    /\ live' = live \union {runSeq + 1}
    /\ UNCHANGED <<history, procRef, readerRef, exitOk, signal, pumpVars>>

(* The task of the leg is done.                                            *)
LegDone ==
    /\ legPc' = "idle"
    /\ legRun' = None
    /\ legStop' = FALSE
    /\ UNCHANGED <<leg, legNext>>

(***************************************************************************)
(* The routes /run and /auto, and the chain                                *)
(***************************************************************************)

(* Mutant of RunStage: the reset flag is not looked at.                    *)
RunStageDuringReset(s) ==
    /\ ~LegActive
    /\ StartRun(s)
    /\ UNCHANGED <<legVars, reqVars, resetting>>

RunStage(s) ==
    /\ ~resetting
    /\ ~LegActive
    /\ StartRun(s)
    /\ UNCHANGED <<legVars, reqVars, resetting>>

(* The bound leaves room for the whole leg, so that a leg never stops at   *)
(* the bound of the model.                                                 *)
RunAuto(l) ==
    /\ ~resetting
    /\ ~LegActive
    /\ ~Busy
    /\ runSeq + Len(LegStages[l]) <= MaxRuns
    /\ legPc' = "ready"
    /\ leg' = l
    /\ legNext' = 1
    /\ UNCHANGED <<legRun, legStop, recordVars, runnerVars, procVars, pumpVars, reqVars,
                   resetting>>

(* _run: the next stage; a refused start is an exception, which ends _run. *)
LegStart ==
    IF Busy
    THEN /\ LegDone
         /\ UNCHANGED <<recordVars, runnerVars, procVars, pumpVars>>
    ELSE /\ StartRun(LegStages[leg][legNext])
         /\ legPc' = "starting"
         /\ legNext' = legNext + 1
         /\ legRun' = runSeq + 1
         /\ UNCHANGED <<leg, legStop>>

LegBegin ==
    /\ legPc = "ready"
    /\ LegStart
    /\ UNCHANGED <<reqVars, resetting>>

(* Mutant of LegAdvance: the leg goes on whatever the outcome of its run.  *)
LegAdvanceAlways ==
    /\ legPc = "waiting"
    /\ pumpPc[legRun] = "done"
    /\ IF legNext <= Len(LegStages[leg])
       THEN LegStart
       ELSE /\ LegDone
            /\ UNCHANGED <<recordVars, runnerVars, procVars, pumpVars>>
    /\ UNCHANGED <<reqVars, resetting>>

(* Mutant of LegAdvance: a run that is not done leaves the leg as it is.    *)
LegAdvanceStuck ==
    /\ legPc = "waiting"
    /\ pumpPc[legRun] = "done"
    /\ current # None
    /\ status[current] = "done"
    /\ IF legNext <= Len(LegStages[leg])
       THEN LegStart
       ELSE /\ LegDone
            /\ UNCHANGED <<recordVars, runnerVars, procVars, pumpVars>>
    /\ UNCHANGED <<reqVars, resetting>>

(* _run after `await self._runner.wait()`: wait() returns the _current of  *)
(* the moment it wakes up.                                                 *)
LegAdvance ==
    /\ legPc = "waiting"
    /\ pumpPc[legRun] = "done"
    /\ IF /\ current # None
          /\ status[current] = "done"
          /\ legNext <= Len(LegStages[leg])
       THEN LegStart
       ELSE /\ LegDone
            /\ UNCHANGED <<recordVars, runnerVars, procVars, pumpVars>>
    /\ UNCHANGED <<reqVars, resetting>>

(***************************************************************************)
(* start() after its await                                                 *)
(***************************************************************************)

InLeg(r) == legPc = "starting" /\ legRun = r

(* The subprocess is connected: _proc and _reader are set.  A leg goes     *)
(* straight on into wait(), which returns at once if _current is terminal. *)
SpawnOk(r) ==
    /\ spawn[r] = "pending"
    /\ ~(InLeg(r) /\ legStop)
    /\ spawn' = [spawn EXCEPT ![r] = "done"]
    /\ procRef' = r
    /\ readerRef' = r
    /\ pumpPc' = [pumpPc EXCEPT ![r] = "created"]
    /\ IF ~InLeg(r) THEN UNCHANGED legVars
       ELSE IF current # None /\ status[current] # "running" THEN LegDone
       ELSE legPc' = "waiting" /\ UNCHANGED <<leg, legNext, legRun, legStop>>
    /\ UNCHANGED <<recordVars, current, history, runSeq, cancelling, live, exitOk,
                   signal, pumpProc, pumpRec, reqVars, resetting>>

(* Mutant of SpawnFail: the record gets a state that JobStatus lacks.      *)
SpawnFailUnknown(r) ==
    /\ spawn[r] = "pending"
    /\ ~(InLeg(r) /\ legStop)
    /\ spawn' = [spawn EXCEPT ![r] = "failed"]
    /\ live' = live \ {r}
    /\ Finish(current, "error")
    /\ IF InLeg(r) THEN LegDone ELSE UNCHANGED legVars
    /\ UNCHANGED <<stageOf, current, readerRef, runSeq, cancelling, exitOk, signal,
                   pumpVars, reqVars, resetting>>

(* OSError: /run answers 500, a leg ends.                                  *)
SpawnFail(r) ==
    /\ spawn[r] = "pending"
    /\ ~(InLeg(r) /\ legStop)
    /\ spawn' = [spawn EXCEPT ![r] = "failed"]
    /\ live' = live \ {r}
    /\ Finish(current, "failed")
    /\ IF InLeg(r) THEN LegDone ELSE UNCHANGED legVars
    /\ UNCHANGED <<stageOf, current, readerRef, runSeq, cancelling, exitOk, signal,
                   pumpVars, reqVars, resetting>>

(* Mutant of SpawnCancelled: start() does not catch CancelledError.        *)
SpawnCancelledWedged(r) ==
    /\ spawn[r] = "pending"
    /\ InLeg(r) /\ legStop
    /\ spawn' = [spawn EXCEPT ![r] = "failed"]
    /\ live' = live \ {r}
    /\ LegDone
    /\ reqPc' = [c \in Canceller |-> IF reqPc[c] = "chain" THEN "replied" ELSE reqPc[c]]
    /\ UNCHANGED <<recordVars, runnerVars, exitOk, signal, pumpVars, reqTarget, reqProc,
                   reqReader, resetting>>

(* The leg's task was cancelled while it spawned: asyncio kills the child  *)
(* and reaps it, start() records the outcome, the leg ends and the requests*)
(* that awaited it go on into JobRunner.cancel(), which finds no process.  *)
SpawnCancelled(r) ==
    /\ spawn[r] = "pending"
    /\ InLeg(r) /\ legStop
    /\ spawn' = [spawn EXCEPT ![r] = "failed"]
    /\ live' = live \ {r}
    /\ Finish(current, "cancelled")
    /\ LegDone
    /\ reqPc' = [c \in Canceller |-> IF reqPc[c] = "chain" THEN "replied" ELSE reqPc[c]]
    /\ UNCHANGED <<stageOf, current, readerRef, runSeq, cancelling, exitOk, signal,
                   pumpVars, reqTarget, reqProc, reqReader, resetting>>

(***************************************************************************)
(* The process and the log pump                                            *)
(***************************************************************************)

(* cancel() of these requests once their wait for the process is over      *)
ThenDrain(requests) ==
    /\ reqPc' = [c \in Canceller |->
                    IF c \notin requests THEN reqPc[c]
                    ELSE IF readerRef = None THEN "replied" ELSE "drain"]
    /\ reqReader' = [c \in Canceller |->
                        IF c \in requests THEN readerRef ELSE reqReader[c]]

(* The loop learns that the process has exited and wakes, in one turn,     *)
(* every cancel() that waits for it.                                       *)
ProcExit(r, ok) ==
    /\ r \in live
    /\ live' = live \ {r}
    /\ exitOk' = IF ok THEN exitOk \union {r} ELSE exitOk
    /\ ThenDrain({c \in Canceller : reqPc[c] = "term" /\ reqProc[c] = r})
    /\ UNCHANGED <<recordVars, runnerVars, spawn, signal, pumpVars, legVars, reqTarget,
                   reqProc, resetting>>

(* The first step of _pump captures _proc and _current.                    *)
PumpBegin(r) ==
    /\ pumpPc[r] = "created"
    /\ pumpPc' = [pumpPc EXCEPT ![r] = IF procRef = None THEN "done" ELSE "reading"]
    /\ pumpProc' = [pumpProc EXCEPT ![r] = procRef]
    /\ pumpRec' = [pumpRec EXCEPT ![r] = current]
    /\ UNCHANGED <<recordVars, runnerVars, procVars, legVars, reqVars, resetting>>

(* Mutant of PumpEnd: the outcome goes to the _current of the moment.      *)
PumpEndCurrent(r) ==
    /\ pumpPc[r] = "reading"
    /\ pumpProc[r] \notin live
    /\ pumpPc' = [pumpPc EXCEPT ![r] = "done"]
    /\ Finish(current, IF pumpProc[r] \in exitOk THEN "done"
                       ELSE IF cancelling THEN "cancelled" ELSE "failed")
    /\ UNCHANGED <<stageOf, current, readerRef, runSeq, cancelling, procVars, pumpProc,
                   pumpRec, legVars, reqVars, resetting>>

(* The pipe is closed and the process reaped.                              *)
PumpEnd(r) ==
    /\ pumpPc[r] = "reading"
    /\ pumpProc[r] \notin live
    /\ pumpPc' = [pumpPc EXCEPT ![r] = "done"]
    /\ Finish(pumpRec[r], IF pumpProc[r] \in exitOk THEN "done"
                          ELSE IF cancelling THEN "cancelled" ELSE "failed")
    /\ UNCHANGED <<stageOf, current, readerRef, runSeq, cancelling, procVars, pumpProc,
                   pumpRec, legVars, reqVars, resetting>>

(* The pump itself fails (the log file cannot be written): it kills the    *)
(* process, and records the failure when that has exited.                  *)
PumpCrash(r) ==
    /\ pumpPc[r] = "reading"
    /\ pumpPc' = [pumpPc EXCEPT ![r] = "crashed"]
    /\ signal' = [signal EXCEPT ![pumpProc[r]] = "kill"]
    /\ UNCHANGED <<recordVars, runnerVars, spawn, live, exitOk, pumpProc, pumpRec,
                   legVars, reqVars, resetting>>

PumpCrashed(r) ==
    /\ pumpPc[r] = "crashed"
    /\ pumpProc[r] \notin live
    /\ pumpPc' = [pumpPc EXCEPT ![r] = "done"]
    /\ Finish(pumpRec[r], "failed")
    /\ UNCHANGED <<stageOf, current, readerRef, runSeq, cancelling, procVars, pumpProc,
                   pumpRec, legVars, reqVars, resetting>>

(***************************************************************************)
(* /cancel                                                                 *)
(***************************************************************************)

(* JobRunner.cancel() up to its first await: SIGTERM to the process group, *)
(* which is there as long as a grandchild is.                              *)
CancelJob(c) ==
    IF procRef = None \/ ~Busy
    THEN /\ reqPc' = [reqPc EXCEPT ![c] = "replied"]
         /\ UNCHANGED <<cancelling, signal, reqProc, reqReader>>
    ELSE /\ cancelling' = TRUE
         /\ signal' = [signal EXCEPT ![procRef] = IF @ = "none" THEN "term" ELSE @]
         /\ reqProc' = [reqProc EXCEPT ![c] = procRef]
         /\ IF procRef \in live
            THEN reqPc' = [reqPc EXCEPT ![c] = "term"] /\ UNCHANGED reqReader
            ELSE ThenDrain({c})

(* AutoRun.cancel(): a leg that has not begun, or that awaits a run, is    *)
(* gone within a turn of the loop; one that is spawning has to reap its    *)
(* child first.                                                            *)
Cancel(c) ==
    /\ reqPc[c] = "idle"
    /\ reqTarget' = [reqTarget EXCEPT ![c] = IF Busy THEN current ELSE None]
    /\ IF legPc = "starting"
       THEN /\ legStop' = TRUE
            /\ reqPc' = [reqPc EXCEPT ![c] = "chain"]
            /\ UNCHANGED <<legPc, leg, legNext, legRun, cancelling, signal, reqProc,
                           reqReader>>
       ELSE LegDone /\ CancelJob(c)
    /\ UNCHANGED <<recordVars, current, history, procRef, readerRef, runSeq, spawn,
                   live, exitOk, pumpVars, resetting>>

(* SIGKILL_GRACE_SECONDS are over.                                         *)
GraceTimeout(c) ==
    /\ reqPc[c] = "term"
    /\ signal' = [signal EXCEPT ![reqProc[c]] = "kill"]
    /\ ThenDrain({c})
    /\ UNCHANGED <<recordVars, runnerVars, spawn, live, exitOk, pumpVars, legVars,
                   reqTarget, reqProc, resetting>>

(* The pump has ended: nothing left to wait for.                           *)
Drained(c) ==
    /\ reqPc[c] = "drain"
    /\ pumpPc[reqReader[c]] = "done"
    /\ reqPc' = [reqPc EXCEPT ![c] = "replied"]
    /\ UNCHANGED <<recordVars, runnerVars, procVars, pumpVars, legVars, reqTarget,
                   reqProc, reqReader, resetting>>

(* Mutant of DrainTimeout: the request gives up without freeing the slot.  *)
DrainTimeoutReturns(c) ==
    /\ reqPc[c] = "drain"
    /\ pumpPc[reqReader[c]] \in {"reading", "crashed"}
    /\ reqPc' = [reqPc EXCEPT ![c] = "replied"]
    /\ UNCHANGED <<recordVars, runnerVars, procVars, pumpVars, legVars, reqTarget,
                   reqProc, reqReader, resetting>>

(* READER_DRAIN_TIMEOUT_SECONDS are over and the pump still reads: the     *)
(* current run, whichever that is by now, is recorded as cancelled.        *)
DrainTimeout(c) ==
    /\ reqPc[c] = "drain"
    /\ pumpPc[reqReader[c]] \in {"reading", "crashed"}
    /\ Finish(current, "cancelled")
    /\ reqPc' = [reqPc EXCEPT ![c] = "replied"]
    /\ UNCHANGED <<stageOf, current, readerRef, runSeq, cancelling, procVars, pumpVars,
                   legVars, reqTarget, reqProc, reqReader, resetting>>

(* The answer {"cancelled": true} has reached the client, who may ask again. *)
Replied(c) ==
    /\ reqPc[c] = "replied"
    /\ reqPc' = [reqPc EXCEPT ![c] = "idle"]
    /\ reqTarget' = [reqTarget EXCEPT ![c] = None]
    /\ reqProc' = [reqProc EXCEPT ![c] = None]
    /\ reqReader' = [reqReader EXCEPT ![c] = None]
    /\ UNCHANGED <<recordVars, runnerVars, procVars, pumpVars, legVars, resetting>>

(***************************************************************************)
(* /reset                                                                  *)
(***************************************************************************)

ResetBegin ==
    /\ ~resetting
    /\ ~LegActive
    /\ ~Busy
    /\ resetting' = TRUE
    /\ UNCHANGED <<recordVars, runnerVars, procVars, pumpVars, legVars, reqVars>>

(* clear_history() after the wipe; it refuses while a job is running.      *)
ResetDone ==
    /\ resetting
    /\ resetting' = FALSE
    /\ IF Busy
       THEN UNCHANGED <<current, history>>
       ELSE /\ current' = None
            /\ history' = [s \in Stage |-> None]
    /\ UNCHANGED <<recordVars, procRef, readerRef, runSeq, cancelling, procVars,
                   pumpVars, legVars, reqVars>>

(* The wipe raises: the flag is cleared and the runs are not forgotten.    *)
ResetFailed ==
    /\ resetting
    /\ resetting' = FALSE
    /\ UNCHANGED <<recordVars, runnerVars, procVars, pumpVars, legVars, reqVars>>

(***************************************************************************)
(* The specification                                                       *)
(***************************************************************************)

RunStep(r) ==
    \/ SpawnOk(r)
    \/ SpawnFail(r)
    \/ SpawnCancelled(r)
    \/ \E ok \in BOOLEAN : ProcExit(r, ok)
    \/ PumpBegin(r)
    \/ PumpEnd(r)
    \/ PumpCrash(r)
    \/ PumpCrashed(r)

CancelStep(c) ==
    \/ Cancel(c)
    \/ GraceTimeout(c)
    \/ Drained(c)
    \/ DrainTimeout(c)
    \/ Replied(c)

Next ==
    \/ \E s \in Stage : RunStage(s)
    \/ \E l \in Leg : RunAuto(l)
    \/ LegBegin
    \/ LegAdvance
    \/ \E r \in Run : RunStep(r)
    \/ \E c \in Canceller : CancelStep(c)
    \/ ResetBegin
    \/ ResetDone
    \/ ResetFailed

Spec == Init /\ [][Next]_vars

(***************************************************************************)
(* Fairness.  The event loop runs what is ready, timers expire, the kernel *)
(* kills what got SIGKILL and the wipe ends; nobody has to send a request. *)
(* That a stage comes to an end by itself, and that the pipe is closed     *)
(* then, is assumed only by StageFairness.                                 *)
(***************************************************************************)
LoopFairness ==
    /\ WF_vars(LegBegin)
    /\ WF_vars(LegAdvance)
    /\ WF_vars(ResetDone \/ ResetFailed)
    /\ \A r \in Run :
        /\ WF_vars(SpawnOk(r) \/ SpawnFail(r))
        /\ WF_vars(SpawnCancelled(r))
        /\ WF_vars(PumpBegin(r))
        /\ WF_vars(PumpCrashed(r))
        /\ WF_vars(signal[r] = "kill" /\ ProcExit(r, FALSE))
    /\ \A c \in Canceller :
        /\ WF_vars(GraceTimeout(c))
        /\ WF_vars(Drained(c))
        /\ WF_vars(DrainTimeout(c))

StageFairness ==
    \A r \in Run :
        /\ WF_vars(\E ok \in BOOLEAN : ProcExit(r, ok))
        /\ WF_vars(PumpEnd(r))

LoopSpec == Spec /\ LoopFairness

(***************************************************************************)
(* Properties                                                              *)
(***************************************************************************)

(* "one pipeline-stage subprocess at a time" (runner.py:1): of the stage   *)
(* processes alive, at most one has not been sent SIGKILL, and it is the   *)
(* process of the run the server shows as running.                         *)
OneStageProcess ==
    \A r \in live : signal[r] = "kill" \/ (r = current /\ status[r] = "running")

(* A run is reported done only when its own process exited with 0: the     *)
(* late end of an orphaned pump never stands for another run.              *)
DoneMeansExitedZero ==
    \A r \in Run : status[r] = "done" => r \in exitOk

(* A run is reported cancelled only when a /cancel reached it: its process *)
(* was signalled, or killed while it spawned.  The _cancelling flag of an  *)
(* earlier run must not colour the failure of a later one.                 *)
CancelledWasSignalled ==
    \A r \in Run :
        status[r] = "cancelled" => signal[r] # "none" \/ spawn[r] = "failed"

(* Of both outcomes: what /status shows of a run is what became of its own *)
(* process, whichever runs, pumps and requests came in between.            *)
OutcomesAreHonest == DoneMeansExitedZero /\ CancelledWasSignalled

(* While the wipe deletes the database and the photo folders no job runs   *)
(* or is about to: no run is running, no leg is active and no stage        *)
(* process is alive that was not sent SIGKILL.                             *)
ResetExcludesJobs ==
    resetting => /\ ~Busy
                 /\ ~LegActive
                 /\ \A r \in live : signal[r] = "kill"

(* record_for(stage), which /status shows, is never an older run of the    *)
(* stage than the latest one, whatever pumps end late.                     *)
RecordFor(s) ==
    IF current # None /\ stageOf[current] = s THEN current ELSE history[s]
StatusShowsLatestRun ==
    \A s \in Stage, r \in Run :
        status[r] # "none" /\ stageOf[r] = s /\ RecordFor(s) # None
            => RecordFor(s) >= r

(* The outcome of a run never changes: a pump that ends after a drain      *)
(* timeout has forced the run to cancelled changes nothing.                *)
OutcomeIsFinal ==
    [][\A r \in Run : status[r] \in Terminal => status'[r] = status[r]]_status

(* A leg starts its next stage only when the run it started last is done.  *)
LegAdvancesOnDone ==
    [][(LegActive /\ legRun' # legRun /\ legRun' # None /\ legRun # None)
            => status[legRun] = "done"]_legVars

(* "Stop means stop whatever is running" (autorun.py:45-46): when /cancel  *)
(* answers, the run that was running when it was asked no longer is.  One  *)
(* case is excepted: a run that was started alone and still spawns has no  *)
(* process yet that cancel() could stop (runner.py:197), and goes on.      *)
StopMeansStopped ==
    [][\A c \in Canceller :
        reqPc[c] # "replied" /\ reqPc'[c] = "replied"
            => LET r == reqTarget'[c]
               IN r # None => status'[r] # "running" \/ (spawn'[r] = "pending" /\ legRun' # r)
      ]_vars

(* A /cancel that reached a job ends it, even when the process ignores     *)
(* SIGTERM or a grandchild keeps the pipe open for ever: nothing is        *)
(* assumed about the stages (LoopSpec).                                    *)
StopFreesSlot ==
    \A c \in Canceller, r \in Run :
        (reqPc[c] \in {"chain", "term", "drain"} /\ reqTarget[c] = r)
            ~> status[r] # "running"

(* If stages end and close their output, every leg comes to an end, and    *)
(* the slot becomes free again, whatever is cancelled while it spawns.     *)
LegEnds == StageFairness => (LegActive ~> ~LegActive)
SlotIsFreed == StageFairness => (Busy ~> ~Busy)

(* The records behave as the single slot of JobSlot, which knows nothing of *)
(* processes, pumps and requests: its jobs are the runs started so far.     *)
Jobs == [r \in 1..runSeq |-> [stage |-> stageOf[r], status |-> status[r]]]
Slot == INSTANCE JobSlot WITH jobs <- Jobs
SlotSpec == Slot!JobSpec

(***************************************************************************)
(* The inductive invariant behind the properties above, when requests to   *)
(* /cancel do not overlap.  RecordsInv needs no such assumption.           *)
(***************************************************************************)

(* Runs are numbered in the order they start, only the current one can be  *)
(* running, and a stage's history is not older than any finished run of it.*)
RecordsInv ==
    /\ current # None => current = runSeq
    /\ \A r \in Run : status[r] = "none" <=> r > runSeq
    /\ \A r \in Run : status[r] = "running" => r = current
    /\ \A s \in Stage : history[s] <= current
    /\ \A s \in Stage, r \in Run :
        history[s] # None /\ status[r] \in Terminal /\ stageOf[r] = s => r <= history[s]

(* A process starts, is read and ends on behalf of one and the same run.   *)
RunInv ==
    /\ \A r \in Run : r > runSeq =>
        r \notin live /\ r \notin exitOk /\ spawn[r] = "none"
            /\ pumpPc[r] = "none" /\ signal[r] = "none"
    /\ \A r \in Run : spawn[r] = "pending" =>
        r = current /\ status[r] = "running" /\ pumpPc[r] = "none"
            /\ signal[r] = "none"
    /\ \A r \in Run : pumpPc[r] = "created" =>
        r = current /\ procRef = r
    /\ \A r \in Run : pumpPc[r] \in {"reading", "crashed"} =>
        pumpProc[r] = r /\ pumpRec[r] = r

(* _proc and _reader belong to the current run as long as that is running. *)
SlotInv ==
    /\ procRef # None => Busy /\ procRef = current /\ readerRef = current
    /\ Busy => IF spawn[current] = "pending" THEN procRef = None
               ELSE /\ procRef = current
                    /\ pumpPc[current] \in {"created", "reading", "crashed"}
    /\ Busy /\ cancelling => signal[current] # "none"

(* A /cancel waits for the current run's process, then for its pump, unless*)
(* the pump has ended.                                                     *)
CancelInv ==
    \A c \in Canceller :
        /\ reqPc[c] = "term" =>
            /\ procRef # None
            /\ reqProc[c] = procRef
            /\ procRef \in live
            /\ signal[procRef] # "none"
        /\ reqPc[c] = "drain" =>
            /\ reqReader[c] # None
            /\ pumpPc[reqReader[c]] # "done" =>
                /\ procRef # None
                /\ reqReader[c] = procRef
                /\ signal[procRef] # "none"
                /\ procRef \in live => signal[procRef] = "kill"

(* A leg's latest run is the current run; a leg excludes a reset.          *)
LegInv ==
    /\ resetting => ~Busy /\ ~LegActive
    /\ legPc = "ready" => ~Busy
    /\ legPc \in {"idle", "ready"} => legRun = None
    /\ legPc \in {"starting", "waiting"} => legRun # None /\ legRun = current
    /\ legPc = "starting" => spawn[legRun] = "pending"
    /\ legPc = "waiting" => spawn[legRun] = "done"

(* What the processes alive and the outcomes recorded say about the runs.  *)
OutcomeInv ==
    /\ OneStageProcess
    /\ DoneMeansExitedZero
    /\ CancelledWasSignalled

OrchestratorInv ==
    /\ TypeOK
    /\ RecordsInv
    /\ RunInv
    /\ SlotInv
    /\ CancelInv
    /\ LegInv
    /\ OutcomeInv

=============================================================================
