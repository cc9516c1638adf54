------------------------- MODULE OrchestratorProofs -------------------------
(***************************************************************************)
(* Theorems about Orchestrator, for every set of stages, legs and /cancel  *)
(* requests and every bound on the number of runs.                         *)
(***************************************************************************)
EXTENDS Orchestrator, TLAPS

(***************************************************************************)
(* Type correctness                                                        *)
(***************************************************************************)

(* The updates that several actions share keep the type of what they       *)
(* change.                                                                 *)
LEMMA FinishType ==
    ASSUME TypeOK, NEW record \in Run \union {None}, NEW outcome \in Terminal,
           Finish(record, outcome)
    PROVE  /\ status' \in [Run -> {"none", "running"} \union Terminal]
           /\ history' \in [Stage -> Run \union {None}]
           /\ procRef' \in Run \union {None}
  BY DEF TypeOK, Finish, Terminal

(* A run that starts has the number after the last one.                    *)
LEMMA StartRunType ==
    ASSUME TypeOK, NEW s \in Stage, StartRun(s)
    PROVE  /\ stageOf' \in [Run -> Stage]
           /\ status' \in [Run -> {"none", "running"} \union Terminal]
           /\ current' \in Run
           /\ runSeq + 1 \in Run
           /\ runSeq' \in 0..MaxRuns
           /\ cancelling' \in BOOLEAN
           /\ spawn' \in [Run -> {"none", "pending", "done", "failed"}]
           /\ live' \subseteq Run
           /\ UNCHANGED <<history, procRef, readerRef, exitOk, signal, pumpPc, pumpProc,
                          pumpRec>>
  <1>1. runSeq + 1 \in Run
    BY MaxRunsAssumption DEF TypeOK, StartRun, Run
  <1>2. runSeq' \in 0..MaxRuns
    BY MaxRunsAssumption DEF TypeOK, StartRun
  <1>3. QED
    BY <1>1, <1>2 DEF TypeOK, StartRun, pumpVars

(* A leg that ends clears its variables.                                   *)
LEMMA LegDoneType ==
    ASSUME TypeOK, LegDone
    PROVE  /\ legPc' = "idle"
           /\ leg' \in Leg
           /\ legNext' \in Nat \ {0}
           /\ legRun' \in Run \union {None}
           /\ legStop' \in BOOLEAN
  BY DEF TypeOK, LegDone

(* A request goes on to wait for a pump that exists, or answers.           *)
LEMMA ThenDrainType ==
    ASSUME TypeOK, NEW requests, ThenDrain(requests)
    PROVE  /\ reqPc' \in [Canceller -> {"idle", "chain", "term", "drain", "replied"}]
           /\ reqReader' \in [Canceller -> Run \union {None}]
  BY DEF TypeOK, ThenDrain

(* A leg's start of its next stage.                                        *)
LEMMA LegStartType ==
    ASSUME TypeOK, LegStart, UNCHANGED <<reqVars, resetting>>,
           legNext \in 1..Len(LegStages[leg])
    PROVE  TypeOK'
  <1>1. LegStages[leg][legNext] \in Stage
    BY LegAssumption DEF TypeOK
  <1>2. CASE Busy
    BY <1>2, LegDoneType DEF TypeOK, LegStart, recordVars, runnerVars, procVars, pumpVars,
                             reqVars
  <1>3. CASE ~Busy
    <2>1. StartRun(LegStages[leg][legNext])
      BY <1>3 DEF LegStart
    <2>2. QED
      BY <1>1, <1>3, <2>1, StartRunType DEF TypeOK, LegStart, reqVars
  <1>4. QED
    BY <1>2, <1>3

(* The steps of a run: its start() after the await, its process, its pump. *)
LEMMA TypeRunStep ==
    ASSUME TypeOK, NEW r \in Run, RunStep(r)
    PROVE  TypeOK'
  <1> USE DEF recordVars, runnerVars, procVars, pumpVars, legVars, reqVars
  <1>1. CASE SpawnOk(r)
    <2>1. LegDone \/ UNCHANGED legVars
          \/ (legPc' = "waiting" /\ UNCHANGED <<leg, legNext, legRun, legStop>>)
      BY <1>1 DEF SpawnOk
    <2>2. /\ legPc' \in {"idle", "ready", "starting", "waiting"}
          /\ leg' \in Leg
          /\ legNext' \in Nat \ {0}
          /\ legPc' = "ready" => legNext' = 1
          /\ legRun' \in Run \union {None}
          /\ legStop' \in BOOLEAN
      BY <2>1 DEF TypeOK, LegDone
    <2>3. QED
      BY <1>1, <2>2 DEF TypeOK, SpawnOk
  <1>2. CASE SpawnFail(r)
    <2>1. /\ status' \in [Run -> {"none", "running"} \union Terminal]
          /\ history' \in [Stage -> Run \union {None}]
          /\ procRef' \in Run \union {None}
      BY <1>2, FinishType DEF TypeOK, Terminal, SpawnFail
    <2>2. LegDone \/ UNCHANGED legVars
      BY <1>2 DEF SpawnFail
    <2>3. QED
      BY <1>2, <2>1, <2>2 DEF TypeOK, SpawnFail, LegDone
  <1>3. CASE SpawnCancelled(r)
    <2>1. /\ status' \in [Run -> {"none", "running"} \union Terminal]
          /\ history' \in [Stage -> Run \union {None}]
          /\ procRef' \in Run \union {None}
      BY <1>3, FinishType DEF TypeOK, Terminal, SpawnCancelled
    <2>2. LegDone
      BY <1>3 DEF SpawnCancelled
    <2>3. QED
      BY <1>3, <2>1, <2>2, LegDoneType DEF TypeOK, SpawnCancelled
  <1>4. ASSUME NEW ok \in BOOLEAN, ProcExit(r, ok) PROVE TypeOK'
    BY <1>4, ThenDrainType DEF TypeOK, ProcExit
  <1>5. CASE PumpBegin(r)
    BY <1>5 DEF TypeOK, PumpBegin
  <1>6. CASE PumpEnd(r)
    <2>1. /\ status' \in [Run -> {"none", "running"} \union Terminal]
          /\ history' \in [Stage -> Run \union {None}]
          /\ procRef' \in Run \union {None}
      <3>1. pumpRec[r] \in Run \union {None}
        BY DEF TypeOK
      <3>2. QED
        BY <1>6, <3>1, FinishType DEF PumpEnd, Terminal
    <2>2. QED
      BY <1>6, <2>1 DEF TypeOK, PumpEnd
  <1>7. CASE PumpCrash(r)
    BY <1>7 DEF TypeOK, PumpCrash
  <1>8. CASE PumpCrashed(r)
    <2>1. /\ status' \in [Run -> {"none", "running"} \union Terminal]
          /\ history' \in [Stage -> Run \union {None}]
          /\ procRef' \in Run \union {None}
      <3>1. pumpRec[r] \in Run \union {None}
        BY DEF TypeOK
      <3>2. QED
        BY <1>8, <3>1, FinishType DEF PumpCrashed, Terminal
    <2>2. QED
      BY <1>8, <2>1 DEF TypeOK, PumpCrashed
  <1>9. QED
    BY <1>1, <1>2, <1>3, <1>4, <1>5, <1>6, <1>7, <1>8 DEF RunStep

(* The steps of a request to /cancel.                                      *)
LEMMA TypeCancelStep ==
    ASSUME TypeOK, NEW c \in Canceller, CancelStep(c)
    PROVE  TypeOK'
  <1> USE DEF recordVars, runnerVars, procVars, pumpVars, legVars, reqVars
  <1>1. CASE Cancel(c)
    <2>1. CASE legPc = "starting"
      BY <1>1, <2>1 DEF TypeOK, Cancel
    <2>2. CASE legPc # "starting"
      <3>1. LegDone /\ CancelJob(c)
        BY <1>1, <2>2 DEF Cancel
      <3>2. /\ reqPc' \in [Canceller -> {"idle", "chain", "term", "drain", "replied"}]
            /\ reqProc' \in [Canceller -> Run \union {None}]
            /\ reqReader' \in [Canceller -> Run \union {None}]
            /\ signal' \in [Run -> {"none", "term", "kill"}]
            /\ cancelling' \in BOOLEAN
        BY <3>1, ThenDrainType DEF TypeOK, CancelJob
      <3>3. reqTarget' \in [Canceller -> Run \union {None}]
        BY <1>1 DEF TypeOK, Cancel
      <3>4. QED
        BY <1>1, <3>1, <3>2, <3>3, LegDoneType DEF TypeOK, Cancel
    <2>3. QED
      BY <2>1, <2>2
  <1>2. CASE GraceTimeout(c)
    BY <1>2, ThenDrainType DEF TypeOK, GraceTimeout
  <1>3. CASE Drained(c)
    BY <1>3 DEF TypeOK, Drained
  <1>4. CASE DrainTimeout(c)
    <2>1. /\ status' \in [Run -> {"none", "running"} \union Terminal]
          /\ history' \in [Stage -> Run \union {None}]
          /\ procRef' \in Run \union {None}
      BY <1>4, FinishType DEF DrainTimeout, TypeOK, Terminal
    <2>2. QED
      BY <1>4, <2>1 DEF TypeOK, DrainTimeout
  <1>5. CASE Replied(c)
    BY <1>5 DEF TypeOK, Replied
  <1>6. QED
    BY <1>1, <1>2, <1>3, <1>4, <1>5 DEF CancelStep

(* Type correctness of one step, action by action.                         *)
LEMMA TypeStep == TypeOK /\ [Next]_vars => TypeOK'
  <1> SUFFICES ASSUME TypeOK, [Next]_vars PROVE TypeOK'
    OBVIOUS
  <1> USE DEF recordVars, runnerVars, procVars, pumpVars, legVars, reqVars
  <1>1. ASSUME NEW s \in Stage, RunStage(s) PROVE TypeOK'
    <2>1. StartRun(s) /\ UNCHANGED <<legVars, reqVars, resetting>>
      BY <1>1 DEF RunStage
    <2>2. QED
      BY <2>1, StartRunType DEF TypeOK
  <1>2. ASSUME NEW l \in Leg, RunAuto(l) PROVE TypeOK'
    BY <1>2 DEF TypeOK, RunAuto
  <1>3. CASE LegBegin
    <2>1. legNext \in 1..Len(LegStages[leg])
      BY <1>3, LegAssumption DEF LegBegin, TypeOK
    <2>2. QED
      BY <1>3, <2>1, LegStartType DEF LegBegin
  <1>4. CASE LegAdvance
    <2>1. CASE current # None /\ status[current] = "done"
               /\ legNext <= Len(LegStages[leg])
      <3>1. legNext \in 1..Len(LegStages[leg])
        BY <2>1, LegAssumption DEF TypeOK
      <3>2. QED
        BY <1>4, <2>1, <3>1, LegStartType DEF LegAdvance
    <2>2. CASE ~(current # None /\ status[current] = "done"
                 /\ legNext <= Len(LegStages[leg]))
      BY <1>4, <2>2, LegDoneType DEF LegAdvance, TypeOK
    <2>3. QED
      BY <2>1, <2>2
  <1>5. ASSUME NEW r \in Run, RunStep(r) PROVE TypeOK'
    BY <1>5, TypeRunStep
  <1>6. ASSUME NEW c \in Canceller, CancelStep(c) PROVE TypeOK'
    BY <1>6, TypeCancelStep
  <1>7. CASE ResetBegin
    BY <1>7 DEF TypeOK, ResetBegin
  <1>8. CASE ResetDone
    BY <1>8 DEF TypeOK, ResetDone
  <1>9. CASE ResetFailed
    BY <1>9 DEF TypeOK, ResetFailed
  <1>10. CASE UNCHANGED vars
    BY <1>10 DEF TypeOK, vars
  <1>11. QED
    BY <1>1, <1>2, <1>3, <1>4, <1>5, <1>6, <1>7, <1>8, <1>9, <1>10 DEF Next

(* Every variable has its type in the initial state.                       *)
LEMMA TypeInit == Init => TypeOK
  <1> SUFFICES ASSUME Init PROVE TypeOK
    OBVIOUS
  <1>1. AnyStage \in Stage /\ AnyLeg \in Leg
    BY StageAssumption, LegAssumption DEF AnyStage, AnyLeg
  <1>2. /\ stageOf \in [Run -> Stage]
        /\ status \in [Run -> {"none", "running"} \union Terminal]
        /\ history \in [Stage -> Run \union {None}]
        /\ spawn \in [Run -> {"none", "pending", "done", "failed"}]
        /\ signal \in [Run -> {"none", "term", "kill"}]
    BY <1>1 DEF Init
  <1>3. /\ pumpPc \in [Run -> {"none", "created", "reading", "crashed", "done"}]
        /\ pumpProc \in [Run -> Run \union {None}]
        /\ pumpRec \in [Run -> Run \union {None}]
    BY DEF Init
  <1>4. /\ reqPc \in [Canceller -> {"idle", "chain", "term", "drain", "replied"}]
        /\ reqTarget \in [Canceller -> Run \union {None}]
        /\ reqProc \in [Canceller -> Run \union {None}]
        /\ reqReader \in [Canceller -> Run \union {None}]
    BY DEF Init
  <1>5. cancelling \in BOOLEAN /\ legStop \in BOOLEAN /\ resetting \in BOOLEAN
    BY Zenon DEF Init
  <1>6. /\ current \in Run \union {None} /\ legRun \in Run \union {None}
        /\ procRef \in Run \union {None} /\ readerRef \in Run \union {None}
        /\ live \subseteq Run /\ exitOk \subseteq Run
    BY DEF Init
  <1>7. runSeq \in 0..MaxRuns /\ leg \in Leg /\ legNext = 1 /\ legPc = "idle"
    BY <1>1, MaxRunsAssumption DEF Init
  <1>8. QED
    BY <1>2, <1>3, <1>4, <1>5, <1>6, <1>7 DEF TypeOK

(* Every variable keeps its type, however many requests to /cancel overlap.*)
THEOREM TypeCorrect == Spec => []TypeOK
  <1>1. Init => TypeOK
    BY TypeInit
  <1>2. TypeOK /\ [Next]_vars => TypeOK'
    BY TypeStep
  <1>3. QED
    BY <1>1, <1>2, PTL DEF Spec

(***************************************************************************)
(* The records of the runs                                                 *)
(***************************************************************************)

Forgotten ==
    /\ ~Busy
    /\ current' = None
    /\ history' = [s \in Stage |-> None]
    /\ UNCHANGED <<stageOf, status, runSeq>>

(* What a step can do to the records: start a run, end one through _finish,*)
(* forget them all, or nothing.                                            *)
LEMMA RecordSteps ==
    ASSUME TypeOK, [Next]_vars
    PROVE  \/ \E s \in Stage : StartRun(s)
           \/ \E record \in Run \union {None}, outcome \in Terminal :
                Finish(record, outcome) /\ UNCHANGED <<stageOf, current, runSeq>>
           \/ Forgotten
           \/ UNCHANGED <<stageOf, status, current, history, runSeq>>
  <1> USE DEF recordVars, runnerVars, procVars, pumpVars
  <1> DEFINE Finished == \E record \in Run \union {None}, outcome \in Terminal :
                            Finish(record, outcome) /\ UNCHANGED <<stageOf, current, runSeq>>
             Same == UNCHANGED <<stageOf, status, current, history, runSeq>>
             Started == \E s \in Stage : StartRun(s)
  <1>0. /\ current \in Run \union {None}
        /\ "done" \in Terminal /\ "failed" \in Terminal /\ "cancelled" \in Terminal
    BY DEF TypeOK, Terminal
  <1>1. ASSUME NEW s \in Stage, RunStage(s) PROVE Started
    BY <1>1 DEF RunStage
  <1>2. ASSUME NEW l \in Leg, RunAuto(l) PROVE Same
    BY <1>2 DEF RunAuto
  <1>3. ASSUME LegStart, legNext \in 1..Len(LegStages[leg]) PROVE Started \/ Same
    <2>1. LegStages[leg][legNext] \in Stage
      BY <1>3, LegAssumption DEF TypeOK
    <2>2. QED
      BY <1>3, <2>1 DEF LegStart
  <1>4. CASE LegBegin
    BY <1>3, <1>4, LegAssumption DEF LegBegin, TypeOK
  <1>5. CASE LegAdvance
    <2>1. CASE current # None /\ status[current] = "done"
               /\ legNext <= Len(LegStages[leg])
      BY <1>3, <1>5, <2>1, LegAssumption DEF LegAdvance, TypeOK
    <2>2. CASE ~(current # None /\ status[current] = "done"
                 /\ legNext <= Len(LegStages[leg]))
      BY <1>5, <2>2 DEF LegAdvance
    <2>3. QED
      BY <2>1, <2>2
  <1>6. ASSUME NEW r \in Run, RunStep(r) PROVE Finished \/ Same
    <2>1. CASE SpawnFail(r) \/ SpawnCancelled(r)
      BY <1>0, <2>1 DEF SpawnFail, SpawnCancelled
    <2>2. CASE PumpEnd(r) \/ PumpCrashed(r)
      <3>1. pumpRec[r] \in Run \union {None}
        BY DEF TypeOK
      <3>2. QED
        BY <1>0, <2>2, <3>1 DEF PumpEnd, PumpCrashed
    <2>3. CASE SpawnOk(r) \/ (\E ok \in BOOLEAN : ProcExit(r, ok)) \/ PumpBegin(r)
               \/ PumpCrash(r)
      BY <2>3 DEF SpawnOk, ProcExit, PumpBegin, PumpCrash
    <2>4. QED
      BY <1>6, <2>1, <2>2, <2>3 DEF RunStep
  <1>7. ASSUME NEW c \in Canceller, CancelStep(c) PROVE Finished \/ Same
    <2>1. CASE DrainTimeout(c)
      BY <1>0, <2>1 DEF DrainTimeout
    <2>2. CASE Cancel(c) \/ GraceTimeout(c) \/ Drained(c) \/ Replied(c)
      BY <2>2 DEF Cancel, GraceTimeout, Drained, Replied
    <2>3. QED
      BY <1>7, <2>1, <2>2 DEF CancelStep
  <1>8. CASE ResetBegin \/ ResetFailed
    BY <1>8 DEF ResetBegin, ResetFailed
  <1>9. CASE ResetDone
    BY <1>9 DEF ResetDone, Forgotten
  <1>10. CASE UNCHANGED vars
    BY <1>10 DEF vars
  <1>11. QED
    BY <1>1, <1>2, <1>4, <1>5, <1>6, <1>7, <1>8, <1>9, <1>10 DEF Next

(* Whatever a step does to the records, it keeps their invariant.          *)
LEMMA RecordsStep == TypeOK /\ RecordsInv /\ [Next]_vars => RecordsInv'
  <1> SUFFICES ASSUME TypeOK, RecordsInv, [Next]_vars PROVE RecordsInv'
    OBVIOUS
  <1> USE DEF Run, None
  <1>0. MaxRuns \in Nat /\ runSeq \in Nat /\ current \in Nat
        /\ \A s \in Stage : history[s] \in Nat
    BY MaxRunsAssumption DEF TypeOK
  <1>1. ASSUME NEW s \in Stage, StartRun(s) PROVE RecordsInv'
    <2>1. /\ runSeq' = runSeq + 1 /\ current' = runSeq + 1
          /\ status' = [status EXCEPT ![runSeq + 1] = "running"]
          /\ history' = history /\ ~Busy
      BY <1>1 DEF StartRun
    <2>2. \A r \in Run : status'[r] = "none" <=> r > runSeq'
      BY <1>0, <2>1 DEF TypeOK, RecordsInv
    <2>3. \A r \in Run : status[r] # "running"
      BY <2>1 DEF RecordsInv, Busy
    <2>4. \A r \in Run : status'[r] = "running" => r = current'
      BY <2>1, <2>3 DEF TypeOK
    <2>5. \A t \in Stage : history'[t] <= current'
      BY <1>0, <2>1 DEF RecordsInv
    <2>6. \A r \in Run : status'[r] \in Terminal =>
            status'[r] = status[r] /\ stageOf'[r] = stageOf[r]
      BY <1>0, <1>1 DEF StartRun, TypeOK, RecordsInv, Terminal
    <2>7. \A t \in Stage, r \in Run :
            history'[t] # None /\ status'[r] \in Terminal /\ stageOf'[r] = t
                => r <= history'[t]
      BY <2>1, <2>6 DEF RecordsInv
    <2>8. QED
      BY <1>0, <2>1, <2>2, <2>4, <2>5, <2>7 DEF RecordsInv
  <1>2. ASSUME NEW record \in Run \union {None}, NEW outcome \in Terminal,
               Finish(record, outcome), UNCHANGED <<stageOf, current, runSeq>>
        PROVE  RecordsInv'
    <2>1. CASE record # None /\ record = current /\ status[record] = "running"
      <3>1. /\ status' = [status EXCEPT ![current] = outcome]
            /\ history' = [history EXCEPT ![stageOf[current]] = current]
            /\ current' = current /\ runSeq' = runSeq
            /\ current \in Run /\ status[current] = "running"
        BY <1>2, <2>1 DEF Finish
      <3>2. outcome \notin {"none", "running"}
        BY DEF Terminal
      <3>3. \A r \in Run : status'[r] = IF r = current THEN outcome ELSE status[r]
        BY <3>1 DEF TypeOK
      <3>4. \A s \in Stage : history'[s] = current \/ history'[s] = history[s]
        BY <3>1 DEF TypeOK
      <3>5. \A s \in Stage, r \in Run :
              history'[s] # None /\ status'[r] \in Terminal /\ stageOf'[r] = s
                  => r <= history'[s]
        <4> SUFFICES ASSUME NEW s \in Stage, NEW r \in Run, history'[s] # None,
                            status'[r] \in Terminal, stageOf'[r] = s
                     PROVE  r <= history'[s]
          OBVIOUS
        <4>1. r <= runSeq
          BY <1>0, <3>1, <3>3 DEF RecordsInv, Terminal
        <4>2. CASE stageOf[current] = s
          BY <1>0, <3>1, <4>1, <4>2 DEF TypeOK, RecordsInv
        <4>3. CASE stageOf[current] # s
          BY <1>2, <3>1, <3>3, <4>3 DEF TypeOK, RecordsInv
        <4>4. QED
          BY <4>2, <4>3
      <3>6. QED
        BY <1>0, <3>1, <3>2, <3>3, <3>4, <3>5 DEF RecordsInv
    <2>2. CASE ~(record # None /\ record = current /\ status[record] = "running")
      BY <1>2, <2>2 DEF Finish, RecordsInv
    <2>3. QED
      BY <2>1, <2>2
  <1>3. CASE Forgotten
    BY <1>0, <1>3 DEF Forgotten, RecordsInv, Busy
  <1>4. CASE UNCHANGED <<stageOf, status, current, history, runSeq>>
    BY <1>4 DEF RecordsInv
  <1>5. QED
    BY <1>1, <1>2, <1>3, <1>4, RecordSteps

(* No run, no record.                                                      *)
LEMMA RecordsInit == Init => RecordsInv
  BY DEF Init, RecordsInv, Run, None

(* However many requests to /cancel overlap, the records of the runs       *)
(* behave as one slot: a run starts only when none is running, only the    *)
(* current run ends, its outcome is decided once and becomes its stage's   *)
(* latest (JobSlot).                                                       *)
THEOREM ImplementsJobSlot == Spec => SlotSpec
  <1> USE DEF Slot!None, None, Run
  <1>1. Init => Slot!JobInit
    <2>1. Init => Jobs = [r \in {} |-> Slot!None]
      BY DEF Init, Jobs
    <2>2. QED
      BY <2>1 DEF Init, Slot!JobInit
  <1>2. TypeOK /\ RecordsInv /\ [Next]_vars => [Slot!JobNext]_(Slot!jobVars)
    <2> SUFFICES ASSUME TypeOK, RecordsInv, [Next]_vars
                 PROVE  Slot!JobNext \/ UNCHANGED Slot!jobVars
      BY DEF Slot!jobVars
    <2>1. ASSUME NEW s \in Stage, StartRun(s) PROVE Slot!JobNext
      <3>1. runSeq + 1 \in Run
        BY <2>1, StartRunType
      <3>2. /\ runSeq \in Nat /\ runSeq' = runSeq + 1 /\ current' = runSeq + 1
            /\ \A r \in 1..runSeq : r \in Run /\ r # runSeq + 1 /\ status[r] # "running"
            /\ stageOf' = [stageOf EXCEPT ![runSeq + 1] = s]
            /\ status' = [status EXCEPT ![runSeq + 1] = "running"]
            /\ history' = history
        BY <2>1, MaxRunsAssumption DEF StartRun, RecordsInv, TypeOK, Busy
      <3>3. Slot!Idle
        BY <3>2 DEF Slot!Idle, Jobs
      <3>4. Jobs' = [r \in (1..runSeq) \union {runSeq + 1} |->
                      IF r = runSeq + 1 THEN [stage |-> s, status |-> "running"] ELSE Jobs[r]]
        BY <3>1, <3>2 DEF Jobs, TypeOK
      <3>5. Slot!Begin(s)
        BY <3>2, <3>3, <3>4 DEF Slot!Begin, Jobs
      <3>6. QED
        BY <3>5 DEF Slot!JobNext
    <2>2. ASSUME NEW record \in Run \union {None}, NEW outcome \in Terminal,
                 Finish(record, outcome), UNCHANGED <<stageOf, current, runSeq>>
          PROVE  Slot!JobNext \/ UNCHANGED Slot!jobVars
      <3>1. CASE record = None \/ record # current \/ status[record] # "running"
        BY <2>2, <3>1 DEF Finish, Slot!jobVars, Jobs
      <3>2. CASE record # None /\ record = current /\ status[record] = "running"
        <4>1. current \in 1..runSeq /\ current # None /\ Jobs[current].status = "running"
          BY <3>2, MaxRunsAssumption DEF RecordsInv, TypeOK, Jobs
        <4>2. Jobs[current].stage = stageOf[current]
          BY <4>1 DEF Jobs
        <4>3. status' = [status EXCEPT ![current] = outcome]
          BY <2>2, <3>2 DEF Finish
        <4>4. Jobs' = [Jobs EXCEPT ![current].status = outcome]
          <5>1. \A r \in 1..runSeq : r \in Run
            BY MaxRunsAssumption DEF TypeOK
          <5>2. Jobs' = [r \in 1..runSeq |->
                          [stage |-> stageOf[r],
                           status |-> IF r = current THEN outcome ELSE status[r]]]
            BY <2>2, <4>1, <4>3, <5>1 DEF Jobs, TypeOK
          <5>3. [Jobs[current] EXCEPT !.status = outcome]
                    = [stage |-> stageOf[current], status |-> outcome]
            BY <4>1 DEF Jobs
          <5>4. QED
            BY <4>1, <5>2, <5>3 DEF Jobs
        <4>5. Slot!End(outcome)
          BY <2>2, <3>2, <4>1, <4>2, <4>4 DEF Finish, Slot!End
        <4>6. QED
          BY <4>5 DEF Slot!JobNext, Slot!Outcome, Terminal
      <3>3. QED
        BY <3>1, <3>2
    <2>3. CASE Forgotten
      <3>1. \A r \in 1..runSeq : r \in Run /\ r # None /\ status[r] # "running"
        BY <2>3, MaxRunsAssumption DEF Forgotten, RecordsInv, Busy, TypeOK
      <3>2. Slot!Idle
        BY <3>1 DEF Slot!Idle, Jobs
      <3>3. QED
        BY <2>3, <3>2 DEF Forgotten, Slot!Forget, Slot!JobNext, Jobs
    <2>4. CASE UNCHANGED <<stageOf, status, current, history, runSeq>>
      BY <2>4 DEF Slot!jobVars, Jobs
    <2>5. QED
      BY <2>1, <2>2, <2>3, <2>4, RecordSteps
  <1>3. QED
    BY <1>1, <1>2, RecordsInit, RecordsStep, TypeCorrect, PTL
       DEF Spec, SlotSpec, Slot!JobSpec

(* The invariant of the records behind StatusIsLatest and OutcomesAreFinal: *)
(* runs are numbered in the order they start (runner.py:152), only the     *)
(* current one can be running, and a stage's history is its latest.       *)
THEOREM RecordsCorrect == Spec => [](TypeOK /\ RecordsInv)
  <1>1. Init => TypeOK /\ RecordsInv
    BY TypeInit, RecordsInit
  <1>2. TypeOK /\ RecordsInv /\ [Next]_vars => (TypeOK /\ RecordsInv)'
    BY TypeStep, RecordsStep
  <1>3. QED
    BY <1>1, <1>2, PTL DEF Spec

(* The run that /status shows for a stage is never older than the latest   *)
(* run of that stage, whatever pumps end late.                             *)
THEOREM StatusIsLatest == Spec => []StatusShowsLatestRun
  <1>1. TypeOK /\ RecordsInv => StatusShowsLatestRun
    <2> SUFFICES ASSUME TypeOK, RecordsInv, NEW s \in Stage, NEW r \in Run,
                        status[r] # "none", stageOf[r] = s, RecordFor(s) # None
                 PROVE  RecordFor(s) >= r
      BY DEF StatusShowsLatestRun
    <2>0. MaxRuns \in Nat /\ runSeq \in Nat
      BY MaxRunsAssumption DEF TypeOK
    <2>1. r <= runSeq
      BY <2>0 DEF RecordsInv, Run
    <2>2. CASE current # None /\ stageOf[current] = s
      BY <2>0, <2>1, <2>2 DEF RecordFor, RecordsInv, Run, None
    <2>3. CASE ~(current # None /\ stageOf[current] = s)
      <3>1. RecordFor(s) = history[s]
        BY <2>3 DEF RecordFor
      <3>2. r # current
        BY <2>3 DEF Run, None
      <3>3. status[r] \in Terminal
        BY <3>2 DEF TypeOK, RecordsInv, Terminal
      <3>4. QED
        BY <2>0, <3>1, <3>3 DEF TypeOK, RecordsInv, Run, None
    <2>4. QED
      BY <2>2, <2>3
  <1>2. QED
    BY <1>1, RecordsCorrect, PTL

(* The outcome of a run never changes.                                     *)
THEOREM OutcomesAreFinal == Spec => OutcomeIsFinal
  <1> DEFINE Final == \A r \in Run : status[r] \in Terminal => status'[r] = status[r]
  <1>1. TypeOK /\ RecordsInv /\ [Next]_vars
          => [\A r \in Run : status[r] \in Terminal => status'[r] = status[r]]_status
    <2> SUFFICES ASSUME TypeOK, RecordsInv, [Next]_vars PROVE Final \/ status' = status
      OBVIOUS
    <2>1. ASSUME NEW s \in Stage, StartRun(s) PROVE Final
      <3>1. runSeq + 1 \in Run /\ status' = [status EXCEPT ![runSeq + 1] = "running"]
        BY <2>1, StartRunType DEF StartRun
      <3>2. status[runSeq + 1] = "none"
        BY <3>1, MaxRunsAssumption DEF RecordsInv, TypeOK, Run
      <3>3. QED
        BY <3>1, <3>2 DEF TypeOK, Terminal
    <2>2. ASSUME NEW record \in Run \union {None}, NEW outcome \in Terminal,
                 Finish(record, outcome)
          PROVE  Final \/ status' = status
      BY <2>2 DEF Finish, TypeOK, Terminal
    <2>3. CASE Forgotten \/ status' = status
      BY <2>3 DEF Forgotten
    <2>4. QED
      BY <2>1, <2>2, <2>3, RecordSteps
  <1>2. QED
    BY <1>1, RecordsCorrect, PTL DEF Spec, OutcomeIsFinal

(***************************************************************************)
(* The slot, when requests to /cancel do not overlap                       *)
(*                                                                         *)
(* OrchestratorInv ties the run, its process, its pump and the request     *)
(* that stops it together; one lemma per action shows that the action      *)
(* preserves the parts that TypeStep and RecordsStep do not cover.         *)
(***************************************************************************)

(* A run starts, for /run or as the next stage of a leg.                   *)
LEMMA StartKeeps ==
    ASSUME OrchestratorInv, TypeOK', RecordsInv',
           NEW s \in Stage,
           StartRun(s),
           UNCHANGED <<reqVars, resetting>>,
           ~resetting,
           \/ UNCHANGED legVars /\ legPc = "idle"
           \/ legPc' = "starting" /\ legRun' = runSeq + 1
    PROVE  (RunInv /\ SlotInv /\ CancelInv /\ LegInv /\ OutcomeInv)'
  <1> USE DEF OrchestratorInv, recordVars, runnerVars, procVars, pumpVars, legVars,
              reqVars
  <1>1. RunInv'
    BY DEF TypeOK, RunInv, SlotInv, Busy, Run, None, StartRun
  <1>2. SlotInv'
    BY DEF TypeOK, SlotInv, StartRun
  <1>3. CancelInv'
    BY DEF SlotInv, CancelInv, StartRun
  <1>4. LegInv'
    BY DEF TypeOK, LegInv, None, StartRun
  <1>5. OutcomeInv'
    BY DEF TypeOK, OutcomeInv, OneStageProcess, DoneMeansExitedZero,
           CancelledWasSignalled, Busy, Run, None, StartRun
  <1>6. QED
    BY <1>1, <1>2, <1>3, <1>4, <1>5

(* A leg comes to its end.                                                 *)
LEMMA LegDoneKeeps ==
    ASSUME OrchestratorInv, TypeOK', RecordsInv',
           LegDone,
           UNCHANGED <<recordVars, runnerVars, procVars, pumpVars>>,
           UNCHANGED <<reqVars, resetting>>
    PROVE  (RunInv /\ SlotInv /\ CancelInv /\ LegInv /\ OutcomeInv)'
  <1> USE DEF OrchestratorInv, recordVars, runnerVars, procVars, pumpVars, legVars,
              reqVars
  <1>1. RunInv'
    BY DEF RunInv
  <1>2. SlotInv'
    BY DEF SlotInv, Busy
  <1>3. CancelInv'
    BY DEF CancelInv
  <1>4. LegInv'
    BY DEF LegInv, Busy, LegActive, LegDone
  <1>5. OutcomeInv'
    BY DEF OutcomeInv, OneStageProcess, DoneMeansExitedZero, CancelledWasSignalled
  <1>6. QED
    BY <1>1, <1>2, <1>3, <1>4, <1>5

(* A leg is accepted.                                                      *)
LEMMA RunAutoKeeps ==
    ASSUME OrchestratorInv, TypeOK', RecordsInv',
           NEW l \in Leg,
           RunAuto(l)
    PROVE  (RunInv /\ SlotInv /\ CancelInv /\ LegInv /\ OutcomeInv)'
  <1> USE DEF OrchestratorInv, recordVars, runnerVars, procVars, pumpVars, legVars,
              reqVars
  <1>1. RunInv'
    BY DEF RunInv, RunAuto
  <1>2. SlotInv'
    BY DEF SlotInv, Busy, RunAuto
  <1>3. CancelInv'
    BY DEF CancelInv, RunAuto
  <1>4. LegInv'
    BY DEF LegInv, Busy, LegActive, RunAuto
  <1>5. OutcomeInv'
    BY DEF OutcomeInv, OneStageProcess, DoneMeansExitedZero, CancelledWasSignalled,
           RunAuto
  <1>6. QED
    BY <1>1, <1>2, <1>3, <1>4, <1>5

(* start() returns: the pending run is the current one, so _proc and       *)
(* _reader become its own.                                                 *)
LEMMA SpawnOkKeeps ==
    ASSUME OrchestratorInv, TypeOK', RecordsInv',
           NEW r \in Run,
           SpawnOk(r)
    PROVE  (RunInv /\ SlotInv /\ CancelInv /\ LegInv /\ OutcomeInv)'
  <1> USE DEF OrchestratorInv, recordVars, runnerVars, procVars, pumpVars, legVars,
              reqVars
  <1>1. RunInv'
    BY DEF TypeOK, RunInv, SpawnOk
  <1>2. SlotInv'
    BY DEF TypeOK, RunInv, SlotInv, Busy, SpawnOk
  <1>3. CancelInv'
    BY DEF RunInv, SlotInv, CancelInv, SpawnOk
  <1>4. LegInv'
    BY DEF TypeOK, LegInv, Busy, LegActive, SpawnOk, LegDone, InLeg
  <1>5. OutcomeInv'
    BY DEF OutcomeInv, OneStageProcess, DoneMeansExitedZero, CancelledWasSignalled,
           SpawnOk
  <1>6. QED
    BY <1>1, <1>2, <1>3, <1>4, <1>5

(* The run whose spawn fails is the current one.                           *)
LEMMA SpawnFailKeeps ==
    ASSUME OrchestratorInv, TypeOK', RecordsInv',
           NEW r \in Run,
           SpawnFail(r)
    PROVE  (RunInv /\ SlotInv /\ CancelInv /\ LegInv /\ OutcomeInv)'
  <1> USE DEF OrchestratorInv, recordVars, runnerVars, procVars, pumpVars, legVars,
              reqVars
  <1>1. RunInv'
    BY DEF TypeOK, RunInv, SpawnFail
  <1>2. SlotInv'
    BY DEF TypeOK, SlotInv, Busy, SpawnFail, Finish
  <1>3. CancelInv'
    BY DEF RunInv, SlotInv, CancelInv, SpawnFail
  <1>4. LegInv'
    BY DEF LegInv, Busy, LegActive, SpawnFail, LegDone, InLeg, Finish
  <1>5. OutcomeInv'
    BY DEF TypeOK, RunInv, OutcomeInv, OneStageProcess, DoneMeansExitedZero,
           CancelledWasSignalled, SpawnFail, Finish
  <1>6. QED
    BY <1>1, <1>2, <1>3, <1>4, <1>5

(* So is the one whose leg is stopped while it spawns.                     *)
LEMMA SpawnCancelledKeeps ==
    ASSUME OrchestratorInv, TypeOK', RecordsInv',
           NEW r \in Run,
           SpawnCancelled(r)
    PROVE  (RunInv /\ SlotInv /\ CancelInv /\ LegInv /\ OutcomeInv)'
  <1> USE DEF OrchestratorInv, recordVars, runnerVars, procVars, pumpVars, legVars,
              reqVars
  <1>1. RunInv'
    BY DEF TypeOK, RunInv, SpawnCancelled
  <1>2. SlotInv'
    BY DEF TypeOK, SlotInv, Busy, SpawnCancelled, Finish
  <1>3. CancelInv'
    BY DEF SlotInv, CancelInv, LegInv, SpawnCancelled, InLeg
  <1>4. LegInv'
    BY DEF LegInv, LegActive, SpawnCancelled, LegDone, InLeg
  <1>5. OutcomeInv'
    BY DEF TypeOK, LegInv, OutcomeInv, OneStageProcess, DoneMeansExitedZero,
           CancelledWasSignalled, SpawnCancelled, InLeg, Finish
  <1>6. QED
    BY <1>1, <1>2, <1>3, <1>4, <1>5

(* The requests that waited for the process go on to wait for the current  *)
(* pump.                                                                   *)
LEMMA ProcExitKeeps ==
    ASSUME OrchestratorInv, TypeOK', RecordsInv',
           NEW r \in Run,
           NEW ok \in BOOLEAN,
           ProcExit(r, ok)
    PROVE  (RunInv /\ SlotInv /\ CancelInv /\ LegInv /\ OutcomeInv)'
  <1> USE DEF OrchestratorInv, recordVars, runnerVars, procVars, pumpVars, legVars,
              reqVars
  <1>1. RunInv'
    BY DEF RunInv, ProcExit
  <1>2. SlotInv'
    BY DEF SlotInv, Busy, ProcExit
  <1>3. CancelInv'
    BY DEF SlotInv, CancelInv, ProcExit, ThenDrain
  <1>4. LegInv'
    BY DEF LegInv, Busy, LegActive, ProcExit
  <1>5. OutcomeInv'
    BY DEF OutcomeInv, OneStageProcess, DoneMeansExitedZero, CancelledWasSignalled,
           ProcExit
  <1>6. QED
    BY <1>1, <1>2, <1>3, <1>4, <1>5

(* A pump captures the process and the record it was created for.          *)
LEMMA PumpBeginKeeps ==
    ASSUME OrchestratorInv, TypeOK', RecordsInv',
           NEW r \in Run,
           PumpBegin(r)
    PROVE  (RunInv /\ SlotInv /\ CancelInv /\ LegInv /\ OutcomeInv)'
  <1> USE DEF OrchestratorInv, recordVars, runnerVars, procVars, pumpVars, legVars,
              reqVars
  <1>1. RunInv'
    BY DEF TypeOK, RunInv, PumpBegin
  <1>2. SlotInv'
    BY DEF SlotInv, Busy, PumpBegin
  <1>3. CancelInv'
    BY DEF CancelInv, PumpBegin
  <1>4. LegInv'
    BY DEF LegInv, Busy, LegActive, PumpBegin
  <1>5. OutcomeInv'
    BY DEF OutcomeInv, OneStageProcess, DoneMeansExitedZero, CancelledWasSignalled,
           PumpBegin
  <1>6. QED
    BY <1>1, <1>2, <1>3, <1>4, <1>5

(* The pump of an old run changes no record; that of the current run ends  *)
(* it after its process has exited.                                        *)
LEMMA PumpEndKeeps ==
    ASSUME OrchestratorInv, TypeOK', RecordsInv',
           NEW r \in Run,
           PumpEnd(r)
    PROVE  (RunInv /\ SlotInv /\ CancelInv /\ LegInv /\ OutcomeInv)'
  <1> USE DEF OrchestratorInv, recordVars, runnerVars, procVars, pumpVars, legVars,
              reqVars
  <1>1. RunInv'
    BY DEF RunInv, PumpEnd, Finish
  <1>2. SlotInv'
    BY DEF TypeOK, RunInv, SlotInv, Busy, PumpEnd, Finish
  <1>3. CancelInv'
    BY DEF TypeOK, RunInv, SlotInv, CancelInv, PumpEnd, Finish
  <1>4. LegInv'
    BY DEF LegInv, Busy, LegActive, PumpEnd, Finish
  <1>5. OutcomeInv'
    BY DEF TypeOK, RunInv, SlotInv, OutcomeInv, OneStageProcess, DoneMeansExitedZero,
           CancelledWasSignalled, Busy, PumpEnd, Finish
  <1>6. QED
    BY <1>1, <1>2, <1>3, <1>4, <1>5

(* A pump fails and kills its process.                                     *)
LEMMA PumpCrashKeeps ==
    ASSUME OrchestratorInv, TypeOK', RecordsInv',
           NEW r \in Run,
           PumpCrash(r)
    PROVE  (RunInv /\ SlotInv /\ CancelInv /\ LegInv /\ OutcomeInv)'
  <1> USE DEF OrchestratorInv, recordVars, runnerVars, procVars, pumpVars, legVars,
              reqVars
  <1>1. RunInv'
    BY DEF RunInv, PumpCrash
  <1>2. SlotInv'
    BY DEF SlotInv, Busy, PumpCrash
  <1>3. CancelInv'
    BY DEF CancelInv, PumpCrash
  <1>4. LegInv'
    BY DEF LegInv, Busy, LegActive, PumpCrash
  <1>5. OutcomeInv'
    BY DEF OutcomeInv, OneStageProcess, DoneMeansExitedZero, CancelledWasSignalled,
           PumpCrash
  <1>6. QED
    BY <1>1, <1>2, <1>3, <1>4, <1>5

(* The run of a failed pump ends when its process is gone.                 *)
LEMMA PumpCrashedKeeps ==
    ASSUME OrchestratorInv, TypeOK', RecordsInv',
           NEW r \in Run,
           PumpCrashed(r)
    PROVE  (RunInv /\ SlotInv /\ CancelInv /\ LegInv /\ OutcomeInv)'
  <1> USE DEF OrchestratorInv, recordVars, runnerVars, procVars, pumpVars, legVars,
              reqVars
  <1>1. RunInv'
    BY DEF RunInv, PumpCrashed, Finish
  <1>2. SlotInv'
    BY DEF TypeOK, RunInv, SlotInv, Busy, PumpCrashed, Finish
  <1>3. CancelInv'
    BY DEF TypeOK, RunInv, SlotInv, CancelInv, PumpCrashed, Finish
  <1>4. LegInv'
    BY DEF LegInv, Busy, LegActive, PumpCrashed, Finish
  <1>5. OutcomeInv'
    BY DEF TypeOK, RunInv, OutcomeInv, OneStageProcess, DoneMeansExitedZero,
           CancelledWasSignalled, PumpCrashed, Finish
  <1>6. QED
    BY <1>1, <1>2, <1>3, <1>4, <1>5

(* A request aims at the process of the current run.                       *)
LEMMA CancelKeeps ==
    ASSUME OrchestratorInv, TypeOK', RecordsInv',
           NEW c \in Canceller,
           Cancel(c)
    PROVE  (RunInv /\ SlotInv /\ CancelInv /\ LegInv /\ OutcomeInv)'
  <1> USE DEF OrchestratorInv, recordVars, runnerVars, procVars, pumpVars, legVars,
              reqVars
  <1>1. RunInv'
    BY DEF TypeOK, RunInv, SlotInv, Cancel, CancelJob
  <1>2. SlotInv'
    BY DEF TypeOK, SlotInv, Busy, Cancel, CancelJob
  <1>3. CancelInv'
    BY DEF TypeOK, SlotInv, CancelInv, Cancel, CancelJob, ThenDrain
  <1>4. LegInv'
    BY DEF LegInv, Busy, LegActive, Cancel, LegDone
  <1>5. OutcomeInv'
    BY DEF TypeOK, OutcomeInv, OneStageProcess, DoneMeansExitedZero,
           CancelledWasSignalled, Cancel, CancelJob
  <1>6. QED
    BY <1>1, <1>2, <1>3, <1>4, <1>5

(* The process that is killed is the one the request waited for.           *)
LEMMA GraceTimeoutKeeps ==
    ASSUME OrchestratorInv, TypeOK', RecordsInv',
           NEW c \in Canceller,
           GraceTimeout(c)
    PROVE  (RunInv /\ SlotInv /\ CancelInv /\ LegInv /\ OutcomeInv)'
  <1> USE DEF OrchestratorInv, recordVars, runnerVars, procVars, pumpVars, legVars,
              reqVars
  <1>1. RunInv'
    BY DEF RunInv, CancelInv, GraceTimeout
  <1>2. SlotInv'
    BY DEF SlotInv, Busy, GraceTimeout
  <1>3. CancelInv'
    BY DEF TypeOK, SlotInv, CancelInv, GraceTimeout, ThenDrain
  <1>4. LegInv'
    BY DEF LegInv, Busy, LegActive, GraceTimeout
  <1>5. OutcomeInv'
    BY DEF OutcomeInv, OneStageProcess, DoneMeansExitedZero, CancelledWasSignalled,
           GraceTimeout
  <1>6. QED
    BY <1>1, <1>2, <1>3, <1>4, <1>5

(* The pump the request waited for has ended.                              *)
LEMMA DrainedKeeps ==
    ASSUME OrchestratorInv, TypeOK', RecordsInv',
           NEW c \in Canceller,
           Drained(c)
    PROVE  (RunInv /\ SlotInv /\ CancelInv /\ LegInv /\ OutcomeInv)'
  <1> USE DEF OrchestratorInv, recordVars, runnerVars, procVars, pumpVars, legVars,
              reqVars
  <1>1. RunInv'
    BY DEF RunInv, Drained
  <1>2. SlotInv'
    BY DEF SlotInv, Busy, Drained
  <1>3. CancelInv'
    BY DEF CancelInv, Drained
  <1>4. LegInv'
    BY DEF LegInv, Busy, LegActive, Drained
  <1>5. OutcomeInv'
    BY DEF OutcomeInv, OneStageProcess, DoneMeansExitedZero, CancelledWasSignalled,
           Drained
  <1>6. QED
    BY <1>1, <1>2, <1>3, <1>4, <1>5

(* The one step that needs requests not to overlap: the run it ends is the *)
(* run the request waited for, and no other request still waits for that   *)
(* run.                                                                    *)
LEMMA DrainTimeoutKeeps ==
    ASSUME OrchestratorInv, TypeOK', RecordsInv',
           NEW c \in Canceller,
           DrainTimeout(c),
           \A d \in Canceller : d = c
    PROVE  (RunInv /\ SlotInv /\ CancelInv /\ LegInv /\ OutcomeInv)'
  <1> USE DEF OrchestratorInv, recordVars, runnerVars, procVars, pumpVars, legVars,
              reqVars
  <1>1. RunInv'
    BY DEF RunInv, SlotInv, CancelInv, DrainTimeout
  <1>2. SlotInv'
    BY DEF TypeOK, SlotInv, Busy, DrainTimeout, Finish
  <1>3. CancelInv'
    BY DEF TypeOK, CancelInv, DrainTimeout
  <1>4. LegInv'
    BY DEF LegInv, Busy, LegActive, DrainTimeout, Finish
  <1>5. OutcomeInv'
    BY DEF TypeOK, SlotInv, CancelInv, OutcomeInv, OneStageProcess,
           DoneMeansExitedZero, CancelledWasSignalled, DrainTimeout, Finish
  <1>6. QED
    BY <1>1, <1>2, <1>3, <1>4, <1>5

(* A request leaves.                                                       *)
LEMMA RepliedKeeps ==
    ASSUME OrchestratorInv, TypeOK', RecordsInv',
           NEW c \in Canceller,
           Replied(c)
    PROVE  (RunInv /\ SlotInv /\ CancelInv /\ LegInv /\ OutcomeInv)'
  <1> USE DEF OrchestratorInv, recordVars, runnerVars, procVars, pumpVars, legVars,
              reqVars
  <1>1. RunInv'
    BY DEF RunInv, Replied
  <1>2. SlotInv'
    BY DEF SlotInv, Busy, Replied
  <1>3. CancelInv'
    BY DEF CancelInv, Replied
  <1>4. LegInv'
    BY DEF LegInv, Busy, LegActive, Replied
  <1>5. OutcomeInv'
    BY DEF OutcomeInv, OneStageProcess, DoneMeansExitedZero, CancelledWasSignalled,
           Replied
  <1>6. QED
    BY <1>1, <1>2, <1>3, <1>4, <1>5

(* A reset begins between two runs.                                        *)
LEMMA ResetBeginKeeps ==
    ASSUME OrchestratorInv, TypeOK', RecordsInv',
           ResetBegin
    PROVE  (RunInv /\ SlotInv /\ CancelInv /\ LegInv /\ OutcomeInv)'
  <1> USE DEF OrchestratorInv, recordVars, runnerVars, procVars, pumpVars, legVars,
              reqVars
  <1>1. RunInv'
    BY DEF RunInv, ResetBegin
  <1>2. SlotInv'
    BY DEF SlotInv, Busy, ResetBegin
  <1>3. CancelInv'
    BY DEF CancelInv, ResetBegin
  <1>4. LegInv'
    BY DEF LegInv, Busy, LegActive, ResetBegin
  <1>5. OutcomeInv'
    BY DEF OutcomeInv, OneStageProcess, DoneMeansExitedZero, CancelledWasSignalled,
           ResetBegin
  <1>6. QED
    BY <1>1, <1>2, <1>3, <1>4, <1>5

(* It forgets them.                                                        *)
LEMMA ResetDoneKeeps ==
    ASSUME OrchestratorInv, TypeOK', RecordsInv',
           ResetDone
    PROVE  (RunInv /\ SlotInv /\ CancelInv /\ LegInv /\ OutcomeInv)'
  <1> USE DEF OrchestratorInv, recordVars, runnerVars, procVars, pumpVars, legVars,
              reqVars
  <1>1. RunInv'
    BY DEF RunInv, SlotInv, Busy, ResetDone
  <1>2. SlotInv'
    BY DEF SlotInv, Busy, ResetDone
  <1>3. CancelInv'
    BY DEF CancelInv, ResetDone
  <1>4. LegInv'
    BY DEF LegInv, LegActive, ResetDone
  <1>5. OutcomeInv'
    BY DEF OutcomeInv, OneStageProcess, DoneMeansExitedZero, CancelledWasSignalled,
           Busy, ResetDone
  <1>6. QED
    BY <1>1, <1>2, <1>3, <1>4, <1>5

(* Or it fails.                                                            *)
LEMMA ResetFailedKeeps ==
    ASSUME OrchestratorInv, TypeOK', RecordsInv',
           ResetFailed
    PROVE  (RunInv /\ SlotInv /\ CancelInv /\ LegInv /\ OutcomeInv)'
  <1> USE DEF OrchestratorInv, recordVars, runnerVars, procVars, pumpVars, legVars,
              reqVars
  <1>1. RunInv'
    BY DEF RunInv, ResetFailed
  <1>2. SlotInv'
    BY DEF SlotInv, Busy, ResetFailed
  <1>3. CancelInv'
    BY DEF CancelInv, ResetFailed
  <1>4. LegInv'
    BY DEF LegInv, LegActive, ResetFailed
  <1>5. OutcomeInv'
    BY DEF OutcomeInv, OneStageProcess, DoneMeansExitedZero, CancelledWasSignalled,
           ResetFailed
  <1>6. QED
    BY <1>1, <1>2, <1>3, <1>4, <1>5

OneCanceller == \A c, d \in Canceller : c = d

(* Nothing runs in the initial state.                                      *)
LEMMA InvInit == Init => OrchestratorInv
  <1> SUFFICES ASSUME Init PROVE OrchestratorInv
    OBVIOUS
  <1> USE DEF Init
  <1>1. TypeOK /\ RecordsInv
    BY TypeInit, RecordsInit
  <1>2. RunInv
    BY DEF RunInv
  <1>3. SlotInv
    BY DEF SlotInv, Busy
  <1>4. CancelInv
    BY DEF CancelInv
  <1>5. LegInv
    BY DEF LegInv
  <1>6. OutcomeInv
    BY DEF OutcomeInv, OneStageProcess, DoneMeansExitedZero, CancelledWasSignalled
  <1>7. QED
    BY <1>1, <1>2, <1>3, <1>4, <1>5, <1>6 DEF OrchestratorInv

(* The strengthened invariant is inductive when no two requests to /cancel *)
(* overlap: the steps that can break it go through the lemmas above.       *)
LEMMA InvStep ==
    ASSUME OneCanceller, OrchestratorInv, [Next]_vars
    PROVE  OrchestratorInv'
  <1> DEFINE Kept == (RunInv /\ SlotInv /\ CancelInv /\ LegInv /\ OutcomeInv)'
  <1> USE DEF recordVars, runnerVars, procVars, pumpVars, legVars, reqVars
  <1>0. TypeOK' /\ RecordsInv'
    BY TypeStep, RecordsStep DEF OrchestratorInv
  <1> SUFFICES Kept
    BY <1>0 DEF OrchestratorInv
  <1>1. ASSUME NEW s \in Stage, RunStage(s) PROVE Kept
    BY <1>0, <1>1, StartKeeps DEF RunStage, LegActive
  <1>2. ASSUME NEW l \in Leg, RunAuto(l) PROVE Kept
    BY <1>0, <1>2, RunAutoKeeps
  <1>3. ASSUME LegStart, legNext \in 1..Len(LegStages[leg]), legPc # "idle",
               UNCHANGED <<reqVars, resetting>>
        PROVE  Kept
    <2>1. LegStages[leg][legNext] \in Stage
      BY <1>3, LegAssumption DEF TypeOK, OrchestratorInv
    <2>2. ~resetting
      BY <1>3 DEF OrchestratorInv, LegInv, LegActive
    <2>3. CASE Busy
      BY <1>0, <1>3, <2>3, LegDoneKeeps DEF LegStart
    <2>4. CASE ~Busy
      BY <1>0, <1>3, <2>1, <2>2, <2>4, StartKeeps DEF LegStart
    <2>5. QED
      BY <2>3, <2>4
  <1>4. CASE LegBegin
    BY <1>3, <1>4, LegAssumption DEF LegBegin, TypeOK, OrchestratorInv
  <1>5. CASE LegAdvance
    <2>1. CASE current # None /\ status[current] = "done"
               /\ legNext <= Len(LegStages[leg])
      BY <1>3, <1>5, <2>1, LegAssumption DEF LegAdvance, TypeOK, OrchestratorInv
    <2>2. CASE ~(current # None /\ status[current] = "done"
                 /\ legNext <= Len(LegStages[leg]))
      BY <1>0, <1>5, <2>2, LegDoneKeeps DEF LegAdvance
    <2>3. QED
      BY <2>1, <2>2
  <1>6. ASSUME NEW r \in Run, RunStep(r) PROVE Kept
    BY <1>0, <1>6, SpawnOkKeeps, SpawnFailKeeps, SpawnCancelledKeeps, ProcExitKeeps,
       PumpBeginKeeps, PumpEndKeeps, PumpCrashKeeps, PumpCrashedKeeps DEF RunStep
  <1>7. ASSUME NEW c \in Canceller, CancelStep(c) PROVE Kept
    BY <1>0, <1>7, CancelKeeps, GraceTimeoutKeeps, DrainedKeeps, DrainTimeoutKeeps,
       RepliedKeeps DEF CancelStep, OneCanceller
  <1>8. CASE ResetBegin \/ ResetDone \/ ResetFailed
    BY <1>0, <1>8, ResetBeginKeeps, ResetDoneKeeps, ResetFailedKeeps
  <1>9. CASE UNCHANGED vars
    BY <1>9 DEF vars, OrchestratorInv, RunInv, SlotInv, CancelInv, LegInv, OutcomeInv,
       OneStageProcess, DoneMeansExitedZero, CancelledWasSignalled, Busy, LegActive
  <1>10. QED
    BY <1>1, <1>2, <1>4, <1>5, <1>6, <1>7, <1>8, <1>9 DEF Next

(* If requests to /cancel do not overlap, the invariant holds: at most one *)
(* stage process that was not sent SIGKILL is alive and it is the process  *)
(* of the run shown as running, a run is done only when its own process    *)
(* exited with 0, and cancelled only when it was signalled.                *)
THEOREM SlotExclusion ==
    ASSUME OneCanceller
    PROVE  Spec => []OrchestratorInv
  <1>1. Init => OrchestratorInv
    BY InvInit
  <1>2. OrchestratorInv /\ [Next]_vars => OrchestratorInv'
    BY InvStep
  <1>3. QED
    BY <1>1, <1>2, PTL DEF Spec

(* The three parts of it that the runs check by name: one stage process at *)
(* a time ("one pipeline-stage subprocess at a time", runner.py:1), ...    *)
THEOREM OneProcessAtATime ==
    ASSUME OneCanceller
    PROVE  Spec => []OneStageProcess
  <1>1. OrchestratorInv => OneStageProcess
    BY DEF OrchestratorInv, OutcomeInv
  <1>2. QED
    BY <1>1, SlotExclusion, PTL

(* ... a run is done only when its own process exited with 0, and          *)
(* cancelled only when a /cancel reached it.                               *)
THEOREM RunsEndHonestly ==
    ASSUME OneCanceller
    PROVE  Spec => []OutcomesAreHonest
  <1>1. OrchestratorInv => OutcomesAreHonest
    BY DEF OrchestratorInv, OutcomeInv, OutcomesAreHonest
  <1>2. QED
    BY <1>1, SlotExclusion, PTL

(* While a reset wipes the batch no job runs or is about to.               *)
THEOREM ResetIsExclusive ==
    ASSUME OneCanceller
    PROVE  Spec => []ResetExcludesJobs
  <1>1. OrchestratorInv => ResetExcludesJobs
    BY DEF OrchestratorInv, LegInv, OutcomeInv, OneStageProcess, ResetExcludesJobs, Busy,
           TypeOK, None, Run
  <1>2. QED
    BY <1>1, SlotExclusion, PTL

(* A leg starts its next stage only after its last run was done.           *)
THEOREM LegsAdvance ==
    ASSUME OneCanceller
    PROVE  Spec => LegAdvancesOnDone
  <1>1. OrchestratorInv /\ [Next]_vars
          => [(LegActive /\ legRun' # legRun /\ legRun' # None /\ legRun # None)
                 => status[legRun] = "done"]_legVars
    <2> DEFINE Advances ==
                  (LegActive /\ legRun' # legRun /\ legRun' # None /\ legRun # None)
                      => status[legRun] = "done"
    <2> SUFFICES ASSUME OrchestratorInv, [Next]_vars PROVE Advances
      OBVIOUS
    <2> USE DEF legVars
    <2>1. CASE LegBegin
      BY <2>1 DEF LegBegin, OrchestratorInv, LegInv
    <2>2. CASE LegAdvance
      BY <2>2 DEF LegAdvance, LegDone, OrchestratorInv, LegInv
    <2>3. ASSUME NEW r \in Run, RunStep(r) PROVE Advances
      BY <2>3 DEF RunStep, SpawnOk, SpawnFail, SpawnCancelled, ProcExit, PumpBegin,
         PumpEnd, PumpCrash, PumpCrashed, LegDone
    <2>4. ASSUME NEW c \in Canceller, CancelStep(c) PROVE Advances
      BY <2>4 DEF CancelStep, Cancel, GraceTimeout, Drained, DrainTimeout, Replied, LegDone
    <2>5. CASE (\E s \in Stage : RunStage(s)) \/ (\E l \in Leg : RunAuto(l)) \/ ResetBegin
               \/ ResetDone \/ ResetFailed \/ UNCHANGED vars
      BY <2>5 DEF RunStage, RunAuto, ResetBegin, ResetDone, ResetFailed, vars
    <2>6. QED
      BY <2>1, <2>2, <2>3, <2>4, <2>5 DEF Next
  <1>2. QED
    BY <1>1, SlotExclusion, PTL DEF Spec, LegAdvancesOnDone

(* A /cancel waits for the process, and then for the pump, of the run that *)
(* was running when it was asked.                                          *)
StopInv ==
    \A c \in Canceller :
        /\ reqPc[c] = "term" => reqTarget[c] = reqProc[c]
        /\ reqPc[c] = "drain" => reqTarget[c] = reqReader[c]

LEMMA StopStep == OrchestratorInv /\ StopInv /\ [Next]_vars => StopInv'
  <1> SUFFICES ASSUME OrchestratorInv, StopInv, [Next]_vars PROVE StopInv'
    OBVIOUS
  <1> USE DEF StopInv, OrchestratorInv
  <1>1. ASSUME NEW r \in Run, NEW ok \in BOOLEAN, ProcExit(r, ok) PROVE StopInv'
    BY <1>1 DEF ProcExit, ThenDrain, CancelInv, SlotInv, TypeOK
  <1>2. ASSUME NEW c \in Canceller, Cancel(c) PROVE StopInv'
    <2>1. CASE legPc = "starting"
      BY <1>2, <2>1 DEF Cancel, TypeOK
    <2>2. CASE legPc # "starting" /\ (procRef = None \/ ~Busy)
      BY <1>2, <2>2 DEF Cancel, CancelJob, TypeOK
    <2>3. CASE legPc # "starting" /\ procRef # None /\ Busy
      <3>1. procRef = current /\ readerRef = current
        BY <2>3 DEF SlotInv
      <3>2. reqTarget' = [reqTarget EXCEPT ![c] = current]
        BY <1>2, <2>3 DEF Cancel
      <3>3. CASE procRef \in live
        BY <1>2, <2>3, <3>1, <3>2, <3>3 DEF Cancel, CancelJob, TypeOK
      <3>4. CASE procRef \notin live
        BY <1>2, <2>3, <3>1, <3>2, <3>4 DEF Cancel, CancelJob, ThenDrain, TypeOK
      <3>5. QED
        BY <3>3, <3>4
    <2>4. QED
      BY <2>1, <2>2, <2>3
  <1>3. ASSUME NEW c \in Canceller, GraceTimeout(c) PROVE StopInv'
    BY <1>3 DEF GraceTimeout, ThenDrain, CancelInv, SlotInv, TypeOK
  <1>4. ASSUME NEW c \in Canceller, Drained(c) \/ DrainTimeout(c) \/ Replied(c) PROVE StopInv'
    BY <1>4 DEF Drained, DrainTimeout, Replied, TypeOK
  <1>5. ASSUME NEW r \in Run, SpawnCancelled(r) PROVE StopInv'
    BY <1>5 DEF SpawnCancelled, TypeOK
  <1>6. CASE UNCHANGED reqVars
    BY <1>6 DEF reqVars
  <1>7. QED
    BY <1>1, <1>2, <1>3, <1>4, <1>5, <1>6 DEF Next, RunStep, CancelStep, SpawnOk, SpawnFail,
       PumpBegin, PumpEnd, PumpCrash, PumpCrashed, LegBegin, LegAdvance, RunStage, RunAuto,
       ResetBegin, ResetDone, ResetFailed, vars, reqVars

(* "Stop means stop whatever is running" (autorun.py:45): if requests to   *)
(* /cancel do not overlap, the run that was running when one was asked is  *)
(* over when it is answered, but for a run started alone that still spawns.*)
THEOREM StopIsHonest ==
    ASSUME OneCanceller
    PROVE  Spec => StopMeansStopped
  <1> DEFINE Answered(c) == reqPc[c] # "replied" /\ reqPc'[c] = "replied"
             Over(r) == status'[r] # "running" \/ (spawn'[r] = "pending" /\ legRun' # r)
             Honest == \A c \in Canceller :
                           Answered(c) => (reqTarget'[c] # None => Over(reqTarget'[c]))
  <1>1. Init => StopInv
    BY DEF Init, StopInv
  <1>2. OrchestratorInv /\ StopInv /\ [Next]_vars => [Honest]_vars
    <2> SUFFICES ASSUME OrchestratorInv, StopInv, [Next]_vars,
                        NEW c \in Canceller, Answered(c), reqTarget'[c] # None
                 PROVE  Over(reqTarget'[c])
      OBVIOUS
    <2> USE DEF OrchestratorInv
    <2>1. CASE Cancel(c)
      BY <2>1 DEF Cancel, CancelJob, ThenDrain, LegDone, Busy, SlotInv, TypeOK
    <2>2. CASE Drained(c)
      <3> DEFINE r == reqTarget[c]
      <3>1. /\ reqTarget' = reqTarget /\ status' = status
            /\ r \in Run /\ r # None /\ pumpPc[r] = "done"
        BY <2>2 DEF Drained, StopInv, runnerVars, recordVars, TypeOK
      <3>2. ASSUME status[r] = "running" PROVE FALSE
        <4>1. r = current /\ Busy
          BY <3>1, <3>2 DEF RecordsInv, Busy
        <4>2. spawn[r] # "pending"
          BY <3>1 DEF RunInv
        <4>3. QED
          BY <3>1, <4>1, <4>2 DEF SlotInv
      <3>3. QED
        BY <3>1, <3>2
    <2>3. CASE DrainTimeout(c)
      BY <2>3 DEF DrainTimeout, Finish, RecordsInv, Terminal, TypeOK
    <2>4. ASSUME NEW r \in Run, SpawnCancelled(r) PROVE Over(reqTarget'[c])
      BY <2>4 DEF SpawnCancelled, Finish, RecordsInv, Terminal, TypeOK
    <2>5. ASSUME NEW r \in Run, NEW ok \in BOOLEAN, ProcExit(r, ok) PROVE FALSE
      BY <2>5 DEF ProcExit, ThenDrain, CancelInv, SlotInv, TypeOK
    <2>6. ~GraceTimeout(c)
      BY DEF GraceTimeout, ThenDrain, CancelInv, SlotInv, TypeOK
    <2>7. ASSUME NEW d \in Canceller, d # c, CancelStep(d) PROVE FALSE
      BY <2>7 DEF CancelStep, Cancel, CancelJob, GraceTimeout, ThenDrain, Drained, DrainTimeout, Replied, TypeOK
    <2>8. ~Replied(c)
      BY DEF Replied, TypeOK
    <2>9. reqPc' # reqPc
      OBVIOUS
    <2>10. QED
      BY <2>1, <2>2, <2>3, <2>4, <2>5, <2>6, <2>7, <2>8, <2>9
         DEF Next, RunStep, CancelStep, SpawnOk, SpawnFail, PumpBegin, PumpEnd, PumpCrash,
             PumpCrashed, LegBegin, LegAdvance, RunStage, RunAuto, ResetBegin, ResetDone,
             ResetFailed, vars, reqVars
  <1>3. Honest <=> (\A c \in Canceller :
                      reqPc[c] # "replied" /\ reqPc'[c] = "replied"
                          => LET r == reqTarget'[c]
                             IN r # None => status'[r] # "running"
                                    \/ (spawn'[r] = "pending" /\ legRun' # r))
    OBVIOUS
  <1>4. QED
    BY <1>1, <1>2, <1>3, StopStep, SlotExclusion, PTL DEF Spec, StopMeansStopped
=============================================================================
