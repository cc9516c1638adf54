-------------------------------- MODULE Enhance --------------------------------
(***************************************************************************)
(* The enhance stage (enhancement/batch.py, enhance_job.py): one process   *)
(* that takes a batch of photos through three phases.  It develops and     *)
(* plans each photo; then loads each AI model once, in AI_ORDER, and       *)
(* applies it to the photos whose plan has it; then verifies, records and  *)
(* renders each photo.  An exception ends the chain of one photo, a kill   *)
(* ends the batch anywhere; the rows, the renders and the intermediates    *)
(* (cache/enhance/<hash>.npy) stay as they are then.                       *)
(*                                                                         *)
(* A picture is described by what was done to it: the batch that developed *)
(* it, the plan it follows and the AI steps applied, in order.  Models are *)
(* named by their place in AI_ORDER, photos by their place in the list of  *)
(* items.  The review-size and the full-size JPEG of a picture are one     *)
(* render; it is partial when one of them is missing, truncated or older   *)
(* than the other.                                                         *)
(***************************************************************************)
EXTENDS Naturals, Sequences, FiniteSets

CONSTANTS
    Photos,       \* the number of RAW photos that sessions may be about
    Models,       \* the number of AI models
    Downscale,    \* settings.enhance_ai_scale < 0.999
    MaxScore,     \* the scores are 0..MaxScore; 0 is a drop beyond the limit
    MaxBatches,   \* bound on the number of batches
    MaxDeaths     \* bound on the number of batches that are killed

ASSUME EnhanceAssumption ==
    /\ Photos \in Nat /\ Models \in Nat /\ MaxScore \in Nat
    /\ Downscale \in BOOLEAN
    /\ MaxBatches \in Nat \ {0} /\ MaxDeaths \in Nat

VARIABLES
    \* photos: the ones ingested in this session; quality_reports: the batch of
    \* the report and the plan, the plan, whether it is the safe one, and the
    \* picture that verify_json and score_q_after are about
    present, reportOf, planRow, safeRow, scored,
    \* files: the before and after renders, the intermediates, the originals
    before, after, npy, source,
    \* run_batch: its number, where it is, the model of phase 2 and whether it
    \* is loaded, the photos still to do in the phase (or for the model), the
    \* photo at hand and what has been done for it
    batch, phase, model, loaded, todo, at, part,
    \* the WorkItems: those that failed, and the steps and flag of the others
    failed, pending, aiScaled,
    \* the pictures _phase3 has verified and the one it has taken, and
    \* (history) the photos whose intermediate could not be removed
    tried, result, kept,
    deaths

rowVars == <<present, reportOf, planRow, safeRow, scored>>
fileVars == <<before, after, npy, source>>
loopVars == <<batch, phase, model, loaded, todo, at, part>>
itemVars == <<failed, pending, aiScaled>>
endVars == <<tried, result, kept>>
vars == <<present, reportOf, planRow, safeRow, scored, before, after, npy, source, batch,
          phase, model, loaded, todo, at, part, failed, pending, aiScaled, tried, result,
          kept, deaths>>

None == 0
Photo == 1..Photos
Model == 1..Models
Batch == 1..MaxBatches
Score == 0..MaxScore
Picture == [batch : 0..MaxBatches, plan : SUBSET Model, safe : BOOLEAN,
            steps : Seq(Model), scaled : Nat, whole : BOOLEAN,
            degraded : BOOLEAN, q : Score]

NoPicture == [batch |-> 0, plan |-> {}, safe |-> FALSE, steps |-> <<>>, scaled |-> 0,
              whole |-> TRUE, degraded |-> FALSE, q |-> 0]
Partial == [NoPicture EXCEPT !.whole = FALSE]
Developed(n, plan) == [NoPicture EXCEPT !.batch = n, !.plan = plan]
SafeRetry(n, plan) == [Developed(n, plan) EXCEPT !.safe = TRUE]

TypeOK ==
    /\ present \subseteq Photo
    /\ reportOf \in [Photo -> 0..MaxBatches]
    /\ planRow \in [Photo -> SUBSET Model]
    /\ safeRow \subseteq Photo
    /\ scored \in [Photo -> Picture]
    /\ before \in [Photo -> Picture]
    /\ after \in [Photo -> Picture]
    /\ npy \in [Photo -> Picture]
    /\ source \subseteq Photo
    /\ batch \in 0..MaxBatches
    /\ phase \in {"idle", "plan", "ai", "finish"}
    /\ model \in 1..(Models + 1)
    /\ loaded \in BOOLEAN
    /\ todo \subseteq Photo
    /\ at \in Photo \union {None}
    /\ part \in {"none", "rendered", "planned", "scored"}
    /\ failed \subseteq Photo
    /\ pending \in [Photo -> SUBSET Model]
    /\ aiScaled \subseteq Photo
    /\ tried \subseteq Picture
    /\ result \in Picture
    /\ kept \subseteq Photo
    /\ deaths \in 0..MaxDeaths

(* Every phase takes the items in the order of the list.                   *)
First(p) == p \in todo /\ \A o \in todo : p <= o

Forgotten ==
    /\ present' = {}
    /\ reportOf' = [p \in Photo |-> 0]
    /\ planRow' = [p \in Photo |-> {}]
    /\ safeRow' = {}
    /\ scored' = [p \in Photo |-> NoPicture]
    /\ before' = [p \in Photo |-> NoPicture]
    /\ after' = [p \in Photo |-> NoPicture]

Init ==
    /\ present = {}
    /\ reportOf = [p \in Photo |-> 0]
    /\ planRow = [p \in Photo |-> {}]
    /\ safeRow = {}
    /\ scored = [p \in Photo |-> NoPicture]
    /\ before = [p \in Photo |-> NoPicture]
    /\ after = [p \in Photo |-> NoPicture]
    /\ npy = [p \in Photo |-> NoPicture]
    /\ source = {}
    /\ batch = 0
    /\ phase = "idle"
    /\ model = 1
    /\ loaded = FALSE
    /\ todo = {}
    /\ at = None
    /\ part = "none"
    /\ failed = {}
    /\ pending = [p \in Photo |-> {}]
    /\ aiScaled = {}
    /\ tried = {}
    /\ result = NoPicture
    /\ kept = {}
    /\ deaths = 0

(***************************************************************************)
(* Between batches                                                         *)
(***************************************************************************)

(* The ingest stage has committed a photo; its original is in place.       *)
Ingested(p) ==
    /\ phase = "idle"
    /\ p \notin present
    /\ present' = present \union {p}
    /\ source' = source \union {p}
    /\ UNCHANGED <<reportOf, planRow, safeRow, scored, before, after, npy, loopVars, itemVars,
                   endVars, deaths>>

(* run_batch makes a new WorkItem of every candidate; without one it       *)
(* returns at once.                                                        *)
BatchStart ==
    /\ phase = "idle"
    /\ present # {}
    /\ batch < MaxBatches
    /\ batch' = batch + 1
    /\ phase' = "plan"
    /\ todo' = present
    /\ UNCHANGED <<rowVars, fileVars, model, loaded, at, part, itemVars, endVars, deaths>>

(* The export stage has deleted or moved the original.                     *)
Exported(p) ==
    /\ phase = "idle"
    /\ p \in source
    /\ source' = source \ {p}
    /\ UNCHANGED <<rowVars, before, after, npy, loopVars, itemVars, endVars, deaths>>

(* A session reset drops the rows and empties cache/enhanced, but not      *)
(* cache/enhance; the next session ingests any of the photos again.        *)
Reset ==
    /\ phase = "idle"
    /\ batch > 0
    /\ Forgotten
    /\ source' = {}
    /\ UNCHANGED <<npy, loopVars, itemVars, endVars, deaths>>

(***************************************************************************)
(* Phase 1                                                                 *)
(***************************************************************************)

(* "skipping: source missing"                                              *)
SkipSource(p) ==
    /\ phase = "plan" /\ at = None /\ First(p)
    /\ p \notin source
    /\ failed' = failed \union {p}
    /\ todo' = todo \ {p}
    /\ UNCHANGED <<rowVars, fileVars, batch, phase, model, loaded, at, part, pending,
                   aiScaled, endVars, deaths>>

(* The photo is developed and its before renders written.                  *)
Baseline(p) ==
    /\ phase = "plan" /\ at = None /\ First(p)
    /\ p \in source
    /\ before' = [before EXCEPT ![p] = Developed(batch, {})]
    /\ at' = p
    /\ part' = "rendered"
    /\ UNCHANGED <<rowVars, after, npy, source, batch, phase, model, loaded, todo,
                   itemVars, endVars, deaths>>

(* Measured and planned: the report and the plan are committed.  The       *)
(* verdict of an earlier batch stays in the row.                           *)
PlanPhoto(p) ==
    /\ phase = "plan" /\ at = p /\ part = "rendered"
    /\ \E plan \in SUBSET Model :
        /\ planRow' = [planRow EXCEPT ![p] = plan]
        /\ pending' = [pending EXCEPT ![p] = plan]
    /\ safeRow' = safeRow \ {p}
    /\ reportOf' = [reportOf EXCEPT ![p] = batch]
    /\ part' = "planned"
    /\ UNCHANGED <<present, scored, fileVars, batch, phase, model, loaded, todo, at, failed,
                   aiScaled, endVars, deaths>>

(* Mutant of SaveIntermediate: a file that is there is not written again.   *)
SaveIntermediateOnce(p) ==
    /\ phase = "plan" /\ at = p /\ part = "planned"
    /\ npy' = IF npy[p] # NoPicture THEN npy
              ELSE [npy EXCEPT ![p] = Developed(batch, pending[p])]
    /\ todo' = todo \ {p}
    /\ at' = None
    /\ part' = "none"
    /\ UNCHANGED <<rowVars, before, after, source, batch, phase, model, loaded, itemVars,
                   endVars, deaths>>

(* The pre-AI steps are applied and the intermediate is saved.             *)
SaveIntermediate(p) ==
    /\ phase = "plan" /\ at = p /\ part = "planned"
    /\ npy' = [npy EXCEPT ![p] = Developed(batch, pending[p])]
    /\ todo' = todo \ {p}
    /\ at' = None
    /\ part' = "none"
    /\ UNCHANGED <<rowVars, before, after, source, batch, phase, model, loaded, itemVars,
                   endVars, deaths>>

(* An exception at any of the points where the chain of the photo can be   *)
(* cut; the render or the intermediate it was writing may be left partial. *)
Phase1Fails(p) ==
    /\ phase = "plan" /\ First(p) /\ p \in source
    /\ at \in {p, None}
    /\ \/ UNCHANGED <<before, npy>>
       \/ at = None /\ before' = [before EXCEPT ![p] = Partial] /\ UNCHANGED npy
       \/ part = "planned" /\ npy' = [npy EXCEPT ![p] = Partial] /\ UNCHANGED before
    /\ failed' = failed \union {p}
    /\ todo' = todo \ {p}
    /\ at' = None
    /\ part' = "none"
    /\ UNCHANGED <<rowVars, after, source, batch, phase, model, loaded, pending, aiScaled,
                   endVars, deaths>>

Phase1Done ==
    /\ phase = "plan" /\ todo = {}
    /\ phase' = "ai"
    /\ UNCHANGED <<rowVars, fileVars, batch, model, loaded, todo, at, part, itemVars, endVars,
                   deaths>>

(***************************************************************************)
(* Phase 2                                                                 *)
(***************************************************************************)

Needing(m) == {p \in present \ failed : m \in pending[p]}

(* No photo left needs the model: it is not loaded.                        *)
ModelUnneeded ==
    /\ phase = "ai" /\ ~loaded /\ model \in Model
    /\ Needing(model) = {}
    /\ model' = model + 1
    /\ UNCHANGED <<rowVars, fileVars, batch, phase, loaded, todo, at, part, itemVars,
                   endVars, deaths>>

ModelLoads ==
    /\ phase = "ai" /\ ~loaded /\ model \in Model
    /\ Needing(model) # {}
    /\ loaded' = TRUE
    /\ todo' = Needing(model)
    /\ UNCHANGED <<rowVars, fileVars, batch, phase, model, at, part, itemVars, endVars,
                   deaths>>

(* "a model that won't load fails only its photos"                         *)
ModelLoadFails ==
    /\ phase = "ai" /\ ~loaded /\ model \in Model
    /\ Needing(model) # {}
    /\ failed' = failed \union Needing(model)
    /\ model' = model + 1
    /\ UNCHANGED <<rowVars, fileVars, batch, phase, loaded, todo, at, part, pending,
                   aiScaled, endVars, deaths>>

(* The intermediate is loaded, scaled down by the first model only, given  *)
(* the change the model makes, and saved.                                  *)
ApplyModel(p) ==
    /\ phase = "ai" /\ loaded /\ First(p)
    /\ npy' = [npy EXCEPT ![p].steps = Append(@, model),
                          ![p].scaled = IF Downscale /\ p \notin aiScaled THEN @ + 1 ELSE @]
    /\ aiScaled' = IF Downscale THEN aiScaled \union {p} ELSE aiScaled
    /\ todo' = todo \ {p}
    /\ UNCHANGED <<rowVars, before, after, source, batch, phase, model, loaded, at, part,
                   failed, pending, endVars, deaths>>

(* An exception while the model is applied, or while the result is saved,  *)
(* ends the chain of the photo.                                            *)
ModelFails(p) ==
    /\ phase = "ai" /\ loaded /\ First(p)
    /\ \/ UNCHANGED npy
       \/ npy' = [npy EXCEPT ![p] = Partial]
    /\ failed' = failed \union {p}
    /\ todo' = todo \ {p}
    /\ UNCHANGED <<rowVars, before, after, source, batch, phase, model, loaded, at, part,
                   pending, aiScaled, endVars, deaths>>

(* __exit__ frees the model before the next one is loaded.                 *)
ModelUnloads ==
    /\ phase = "ai" /\ loaded /\ todo = {}
    /\ loaded' = FALSE
    /\ model' = model + 1
    /\ UNCHANGED <<rowVars, fileVars, batch, phase, todo, at, part, itemVars, endVars,
                   deaths>>

Phase2Done ==
    /\ phase = "ai" /\ ~loaded /\ model > Models
    /\ phase' = "finish"
    /\ todo' = present
    /\ UNCHANGED <<rowVars, fileVars, batch, model, loaded, at, part, itemVars, endVars,
                   deaths>>

(***************************************************************************)
(* Phase 3                                                                 *)
(***************************************************************************)

(* verify(): a picture whose score drops too far is degraded, and so are   *)
(* those with blown highlights or a collapsed histogram, whatever they     *)
(* score.                                                                  *)
Verified(picture) ==
    {[picture EXCEPT !.degraded = v[1], !.q = v[2]] : v \in (BOOLEAN \X Score) \ {<<FALSE, 0>>}}

(* _take_retry                                                             *)
TakeRetry(primary, retry) ==
    \/ primary.degraded /\ ~retry.degraded
    \/ primary.degraded = retry.degraded /\ retry.q >= primary.q

Better(primary, retry) == IF TakeRetry(primary, retry) THEN retry ELSE primary

(* The post-AI steps are applied and the result is verified; if it is      *)
(* degraded, the safe plan is run on a new development.  What is taken is  *)
(* committed with its plan and verdict, before it is rendered.             *)
Verify(p) ==
    /\ phase = "finish" /\ at = None /\ First(p) /\ p \notin failed
    /\ \E primary \in Verified(npy[p]) :
        \/ ~primary.degraded /\ tried' = {primary} /\ result' = primary
        \/ /\ primary.degraded
           /\ \E retry \in Verified(SafeRetry(batch, pending[p])) :
                /\ tried' = {primary, retry}
                /\ result' = Better(primary, retry)
    /\ planRow' = [planRow EXCEPT ![p] = pending[p]]
    /\ safeRow' = IF result'.safe THEN safeRow \union {p} ELSE safeRow \ {p}
    /\ reportOf' = [reportOf EXCEPT ![p] = batch]
    /\ scored' = [scored EXCEPT ![p] = result']
    /\ at' = p
    /\ part' = "scored"
    /\ UNCHANGED <<present, fileVars, batch, phase, model, loaded, todo, itemVars, kept,
                   deaths>>

(* The photo is done; its intermediate is removed.  An OSError of unlink   *)
(* is suppressed: the file stays.                                          *)
PhotoDone(p) ==
    /\ \/ npy' = [npy EXCEPT ![p] = NoPicture] /\ UNCHANGED kept
       \/ npy[p] # NoPicture /\ kept' = kept \union {p} /\ UNCHANGED npy
    /\ todo' = todo \ {p}
    /\ at' = None
    /\ part' = "none"
    /\ tried' = {}
    /\ result' = NoPicture

(* Mutant of WriteAfter: the primary result is rendered.                   *)
WriteAfterPrimary(p) ==
    /\ phase = "finish" /\ at = p
    /\ after' = [after EXCEPT ![p] = CHOOSE t \in tried : ~t.safe]
    /\ PhotoDone(p)
    /\ UNCHANGED <<rowVars, before, source, batch, phase, model, loaded, itemVars, deaths>>

WriteAfter(p) ==
    /\ phase = "finish" /\ at = p
    /\ after' = [after EXCEPT ![p] = result]
    /\ PhotoDone(p)
    /\ UNCHANGED <<rowVars, before, source, batch, phase, model, loaded, itemVars, deaths>>

(* Mutant of Phase3Fails: the photo is tried again.                        *)
Phase3TriesAgain(p) ==
    /\ phase = "finish" /\ at = p
    /\ at' = None
    /\ part' = "none"
    /\ tried' = {}
    /\ result' = NoPicture
    /\ UNCHANGED <<rowVars, fileVars, batch, phase, model, loaded, todo, itemVars, kept,
                   deaths>>

(* An exception, before the commit or while the renders are written.       *)
Phase3Fails(p) ==
    /\ phase = "finish" /\ First(p) /\ p \notin failed
    /\ \/ at = None /\ UNCHANGED after
       \/ at = p /\ UNCHANGED after
       \/ at = p /\ after' = [after EXCEPT ![p] = Partial]
    /\ failed' = failed \union {p}
    /\ PhotoDone(p)
    /\ UNCHANGED <<rowVars, before, source, batch, phase, model, loaded, pending, aiScaled,
                   deaths>>

(* Mutant of Discard: a photo that failed keeps its intermediate.          *)
DiscardNothing(p) ==
    /\ phase = "finish" /\ at = None /\ First(p) /\ p \in failed
    /\ todo' = todo \ {p}
    /\ UNCHANGED <<rowVars, fileVars, batch, phase, model, loaded, at, part, itemVars,
                   endVars, deaths>>

(* A photo that failed before: only its intermediate is removed.           *)
Discard(p) ==
    /\ phase = "finish" /\ at = None /\ First(p) /\ p \in failed
    /\ PhotoDone(p)
    /\ UNCHANGED <<rowVars, before, after, source, batch, phase, model, loaded, itemVars,
                   deaths>>

(* The process ends, its WorkItems are gone.                               *)
Ended ==
    /\ phase' = "idle"
    /\ model' = 1
    /\ loaded' = FALSE
    /\ todo' = {}
    /\ at' = None
    /\ part' = "none"
    /\ failed' = {}
    /\ pending' = [p \in Photo |-> {}]
    /\ aiScaled' = {}
    /\ tried' = {}
    /\ result' = NoPicture
    /\ kept' = {}
    /\ UNCHANGED <<rowVars, source, batch>>

BatchEnd ==
    /\ phase = "finish" /\ todo = {}
    /\ Ended
    /\ UNCHANGED <<before, after, npy, deaths>>

(* The process is killed, or crashes outside of the chains of the photos;  *)
(* the render or the intermediate it was writing is left partial.          *)
BatchDies ==
    /\ phase # "idle"
    /\ deaths < MaxDeaths
    /\ deaths' = deaths + 1
    /\ \/ UNCHANGED <<before, after, npy>>
       \/ /\ phase = "plan" /\ at = None
          /\ \E p \in source : First(p) /\ before' = [before EXCEPT ![p] = Partial]
          /\ UNCHANGED <<after, npy>>
       \/ /\ part = "planned" \/ (loaded /\ todo # {})
          /\ \E p \in todo : First(p) /\ npy' = [npy EXCEPT ![p] = Partial]
          /\ UNCHANGED <<before, after>>
       \/ /\ phase = "finish" /\ at # None
          /\ after' = [after EXCEPT ![at] = Partial]
          /\ UNCHANGED <<before, npy>>
    /\ Ended

ChainStep(p) ==
    \/ SkipSource(p)
    \/ Baseline(p)
    \/ PlanPhoto(p)
    \/ SaveIntermediate(p)
    \/ Phase1Fails(p)
    \/ ApplyModel(p)
    \/ ModelFails(p)
    \/ Verify(p)
    \/ WriteAfter(p)
    \/ Phase3Fails(p)
    \/ Discard(p)

BatchStep ==
    \/ Phase1Done
    \/ ModelUnneeded
    \/ ModelLoads
    \/ ModelLoadFails
    \/ ModelUnloads
    \/ Phase2Done
    \/ BatchEnd

Next ==
    \/ BatchStart
    \/ Reset
    \/ \E p \in Photo : Ingested(p) \/ Exported(p) \/ ChainStep(p)
    \/ BatchStep
    \/ BatchDies

Spec == Init /\ [][Next]_vars

(***************************************************************************)
(* Properties                                                              *)
(***************************************************************************)

InOrder(steps) == \A i, j \in DOMAIN steps : i < j => steps[i] < steps[j]

(* A rendered picture has been through every AI step of its plan, once, in *)
(* AI_ORDER, and scaled down at most once; or it follows the safe plan and *)
(* has been through none.  No step may be lost to a model that failed, to  *)
(* a batch that was killed or to an intermediate that one left behind.     *)
RenderFollowsPlan ==
    \A p \in Photo :
        LET a == after[p]
        IN IF a.safe
           THEN a.steps = <<>> /\ a.scaled = 0
           ELSE /\ InOrder(a.steps)
                /\ {a.steps[i] : i \in DOMAIN a.steps} = a.plan
                /\ a.scaled = IF Downscale /\ a.plan # {} THEN 1 ELSE 0

(* At the end of a batch every photo that did not fail has its report,     *)
(* plan, verdict and renders from this batch, and they agree, whatever     *)
(* failed for the other photos ("raised mid-chain; source left untouched,  *)
(* batch continued", enhance_job.py:163).                                  *)
EnhancedAgrees ==
    phase = "finish" /\ todo = {} => \A p \in present \ failed :
        /\ reportOf[p] = batch
        /\ before[p] = Developed(batch, {})
        /\ after[p].batch = batch
        /\ after[p] = scored[p]
        /\ after[p].plan = planRow[p]
        /\ after[p].safe <=> p \in safeRow

(* A batch that comes to its end has removed the intermediates of all its  *)
(* photos, also of those that failed or were skipped, and the ones that a  *)
(* killed batch, even of an earlier session, left of them; only a file     *)
(* that it could not remove stays.  (Those of photos that are not in the   *)
(* batch are not looked at: batch.py:377.)                                 *)
IntermediatesRemoved ==
    phase = "finish" /\ todo = {} => \A p \in present : npy[p] # NoPicture => p \in kept

(* The badge and the score of the review page are never about an older     *)
(* picture than the render beside them, whatever failed and whichever      *)
(* batch was killed; when both are of one batch, they are of the same      *)
(* picture (the retry or the primary).                                     *)
VerdictDescribesRender ==
    \A p \in Photo : after[p] \notin {NoPicture, Partial}
        => /\ after[p].batch <= scored[p].batch
           /\ after[p].batch = scored[p].batch => after[p] = scored[p]

(* Whatever fails, the batch comes to its end: each of its steps leaves    *)
(* less to do, so that no photo is taken up again and no model loaded      *)
(* twice.  What is left: the photos of the phase, with the steps of the    *)
(* one at hand, the models, and the phases to come.                        *)
FinishLeft == 1 + 2 * Photos
ModelsLeft == FinishLeft + 1 + (Models + 1 - model) * (Photos + 2)
WorkLeft ==
    CASE phase = "idle" -> 0
      [] phase = "finish" -> 1 + 2 * Cardinality(todo) - (IF at = None THEN 0 ELSE 1)
      [] phase = "ai" -> ModelsLeft - (IF loaded THEN Photos + 1 - Cardinality(todo) ELSE 0)
      [] phase = "plan" -> ModelsLeft + 1 + 3 * Cardinality(todo)
                             - (CASE part = "none" -> 0 [] part = "rendered" -> 1
                                  [] OTHER -> 2)
BatchEnds == [][phase # "idle" => WorkLeft' < WorkLeft]_vars

=============================================================================
