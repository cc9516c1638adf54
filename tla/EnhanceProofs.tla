--------------------------- MODULE EnhanceProofs ---------------------------
(***************************************************************************)
(* Proofs about Enhance, for every number of photos, models and batches,   *)
(* however many batches are killed.                                        *)
(***************************************************************************)
EXTENDS Enhance, SequenceTheorems, FiniteSetTheorems, TLAPS

(***************************************************************************)
(* Types                                                                   *)
(***************************************************************************)

LEMMA PicturesTyped ==
    /\ NoPicture \in Picture /\ Partial \in Picture
    /\ \A n \in 0..MaxBatches, plan \in SUBSET Model :
            Developed(n, plan) \in Picture /\ SafeRetry(n, plan) \in Picture
    /\ \A a \in Picture : Verified(a) \subseteq Picture
    /\ \A a, b \in Picture : Better(a, b) \in Picture
  <1>1. <<>> \in Seq(Model)
    OBVIOUS
  <1>2. 0 \in Score /\ 0 \in 0..MaxBatches
    BY EnhanceAssumption DEF Score
  <1>3. NoPicture \in Picture /\ Partial \in Picture
    BY <1>1, <1>2 DEF NoPicture, Partial, Picture
  <1>4. \A n \in 0..MaxBatches, plan \in SUBSET Model :
            Developed(n, plan) \in Picture /\ SafeRetry(n, plan) \in Picture
    BY <1>1, <1>2 DEF Developed, SafeRetry, NoPicture, Picture
  <1>5. \A a \in Picture : Verified(a) \subseteq Picture
    <2> SUFFICES ASSUME NEW a \in Picture, NEW b \in Verified(a) PROVE b \in Picture
      OBVIOUS
    <2>1. PICK v \in BOOLEAN \X Score : b = [a EXCEPT !.degraded = v[1], !.q = v[2]]
      BY DEF Verified
    <2>2. QED
      BY <2>1 DEF Picture
  <1>6. QED
    BY <1>3, <1>4, <1>5 DEF Better

(* A model is loaded only while there is one to load.                      *)
TypeInv == TypeOK /\ (loaded => model \in Model)

LEMMA TypeInit == Init => TypeInv
  <1> SUFFICES ASSUME Init PROVE TypeInv
    OBVIOUS
  <1> USE EnhanceAssumption, PicturesTyped DEF Init
  <1>1. /\ scored \in [Photo -> Picture] /\ before \in [Photo -> Picture]
        /\ after \in [Photo -> Picture] /\ npy \in [Photo -> Picture]
    OBVIOUS
  <1>2. reportOf \in [Photo -> 0..MaxBatches] /\ batch \in 0..MaxBatches
    OBVIOUS
  <1>3. /\ planRow \in [Photo -> SUBSET Model] /\ pending \in [Photo -> SUBSET Model]
        /\ model \in 1..(Models + 1) /\ deaths \in 0..MaxDeaths
    OBVIOUS
  <1>4. QED
    BY <1>1, <1>2, <1>3 DEF TypeOK, TypeInv

LEMMA TypeStep == TypeInv /\ [Next]_vars => TypeInv'
  <1> SUFFICES ASSUME TypeInv, [Next]_vars PROVE TypeInv'
    OBVIOUS
  <1> USE EnhanceAssumption, PicturesTyped DEF TypeOK, TypeInv
  <1>0. 1 \in 1..(Models + 1) /\ [p \in Photo |-> {}] \in [Photo -> SUBSET Model]
    OBVIOUS
  <1>1. CASE BatchStart
    BY <1>1 DEF BatchStart, rowVars, fileVars, itemVars, endVars
  <1>2. CASE Reset
    BY <1>2 DEF Reset, Forgotten, loopVars, itemVars, endVars
  <1>3. ASSUME NEW p \in Photo, Ingested(p) \/ Exported(p) PROVE TypeInv'
    BY <1>3 DEF Ingested, Exported, rowVars, loopVars, itemVars, endVars
  <1>4. ASSUME NEW p \in Photo, ChainStep(p) PROVE TypeInv'
    <2>1. CASE SkipSource(p)
      BY <2>1 DEF SkipSource, rowVars, fileVars, endVars
    <2>2. CASE Baseline(p)
      BY <2>2 DEF Baseline, rowVars, itemVars, endVars
    <2>3. CASE PlanPhoto(p)
      BY <2>3 DEF PlanPhoto, fileVars, endVars
    <2>4. CASE SaveIntermediate(p)
      BY <2>4 DEF SaveIntermediate, rowVars, itemVars, endVars
    <2>5. CASE Phase1Fails(p)
      BY <2>5 DEF Phase1Fails, rowVars, endVars
    <2>6. CASE ApplyModel(p)
      <3>1. Append(npy[p].steps, model) \in Seq(Model)
        BY <2>6 DEF ApplyModel, Picture, Needing, Model
      <3>2. npy[p].scaled \in Nat /\ npy[p].scaled + 1 \in Nat
        <4>1. npy[p] \in Picture
          OBVIOUS
        <4>2. npy[p].scaled \in Nat
          BY <4>1 DEF Picture
        <4>3. QED
          BY <4>2
      <3>3. [npy[p] EXCEPT !.steps = Append(@, model),
                           !.scaled = IF Downscale /\ p \notin aiScaled THEN @ + 1 ELSE @]
              \in Picture
        <4>1. CASE Downscale /\ p \notin aiScaled
          BY <3>1, <3>2, <4>1 DEF Picture
        <4>2. CASE ~(Downscale /\ p \notin aiScaled)
          BY <3>1, <3>2, <4>2 DEF Picture
        <4>3. QED
          BY <4>1, <4>2
      <3>4. npy' \in [Photo -> Picture]
        BY <2>6, <3>3 DEF ApplyModel
      <3>5. QED
        BY <2>6, <3>4 DEF ApplyModel, rowVars, endVars
    <2>7. CASE ModelFails(p)
      BY <2>7 DEF ModelFails, rowVars, endVars
    <2>8. CASE Verify(p)
      BY <2>8 DEF Verify, fileVars, itemVars
    <2>9. CASE WriteAfter(p)
      BY <2>9 DEF WriteAfter, PhotoDone, rowVars, itemVars
    <2>10. CASE Phase3Fails(p)
      BY <2>10 DEF Phase3Fails, PhotoDone, rowVars
    <2>11. CASE Discard(p)
      BY <2>11 DEF Discard, PhotoDone, rowVars, itemVars
    <2>12. QED
      BY <1>4, <2>1, <2>2, <2>3, <2>4, <2>5, <2>6, <2>7, <2>8, <2>9, <2>10, <2>11 DEF ChainStep
  <1>5. CASE BatchStep
    <2>1. CASE Phase1Done
      BY <2>1 DEF Phase1Done, rowVars, fileVars, itemVars, endVars
    <2>2. CASE ModelUnneeded
      BY <2>2 DEF ModelUnneeded, Model, rowVars, fileVars, itemVars, endVars
    <2>3. CASE ModelLoads
      BY <2>3 DEF ModelLoads, Needing, rowVars, fileVars, itemVars, endVars
    <2>4. CASE ModelLoadFails
      BY <2>4 DEF ModelLoadFails, Needing, Model, rowVars, fileVars, endVars
    <2>5. CASE ModelUnloads
      <3>1. model' \in 1..(Models + 1) /\ loaded' = FALSE
        BY <2>5 DEF ModelUnloads, Model
      <3>2. QED
        BY <2>5, <3>1 DEF ModelUnloads, rowVars, fileVars, itemVars, endVars
    <2>6. CASE Phase2Done
      BY <2>6 DEF Phase2Done, rowVars, fileVars, itemVars, endVars
    <2>7. CASE BatchEnd
      BY <2>7, <1>0 DEF BatchEnd, Ended, rowVars
    <2>8. QED
      BY <1>5, <2>1, <2>2, <2>3, <2>4, <2>5, <2>6, <2>7 DEF BatchStep
  <1>6. CASE BatchDies
    <2>1. before' \in [Photo -> Picture] /\ after' \in [Photo -> Picture] /\ npy' \in [Photo -> Picture]
      BY <1>6 DEF BatchDies
    <2>2. deaths' \in 0..MaxDeaths
      BY <1>6 DEF BatchDies
    <2>3. QED
      BY <1>6, <1>0, <2>1, <2>2 DEF BatchDies, Ended, rowVars
  <1>7. CASE UNCHANGED vars
    BY <1>7 DEF vars
  <1>8. QED
    BY <1>1, <1>2, <1>3, <1>4, <1>5, <1>6, <1>7 DEF Next

(* Every variable keeps its type: no picture is torn, no photo strays.     *)
THEOREM TypeCorrect == Spec => []TypeOK
  <1>1. TypeInv => TypeOK
    BY DEF TypeInv
  <1>2. QED
    BY <1>1, TypeInit, TypeStep, PTL DEF Spec

(***************************************************************************)
(* What pictures say of themselves                                         *)
(***************************************************************************)

StepsOf(a) == {a.steps[i] : i \in DOMAIN a.steps}
Follows(a) ==
    IF a.safe
    THEN a.steps = <<>> /\ a.scaled = 0
    ELSE /\ InOrder(a.steps)
         /\ StepsOf(a) = a.plan
         /\ a.scaled = IF Downscale /\ a.plan # {} THEN 1 ELSE 0

LEMMA NewPictures ==
    /\ NoPicture.batch = 0 /\ Partial.batch = 0 /\ Follows(NoPicture) /\ Follows(Partial)
    /\ \A n \in 0..MaxBatches, plan \in SUBSET Model :
         /\ LET a == Developed(n, plan)
            IN /\ a.batch = n /\ a.plan = plan /\ a.safe = FALSE /\ a.steps = <<>>
               /\ a.scaled = 0
         /\ LET a == SafeRetry(n, plan)
            IN a.batch = n /\ a.plan = plan /\ a.safe = TRUE /\ Follows(a)
  <1>1. InOrder(<<>>) /\ DOMAIN <<>> = {}
    BY DEF InOrder
  <1>2. QED
    BY <1>1 DEF NoPicture, Partial, Developed, SafeRetry, Follows, StepsOf

LEMMA VerifiedKeeps ==
    ASSUME NEW a \in Picture, NEW b \in Verified(a)
    PROVE  /\ b.batch = a.batch /\ b.plan = a.plan /\ b.safe = a.safe
           /\ b.steps = a.steps /\ b.scaled = a.scaled
  <1>1. PICK v \in BOOLEAN \X Score : b = [a EXCEPT !.degraded = v[1], !.q = v[2]]
    BY DEF Verified
  <1>2. QED
    BY <1>1 DEF Picture

LEMMA AppendInOrder ==
    ASSUME NEW s \in Seq(Model), NEW m \in Model, InOrder(s),
           \A i \in DOMAIN s : s[i] < m
    PROVE  /\ InOrder(Append(s, m))
           /\ {Append(s, m)[i] : i \in DOMAIN Append(s, m)} = {s[i] : i \in DOMAIN s} \union {m}
  <1>1. /\ Len(s) \in Nat /\ DOMAIN s = 1..Len(s)
        /\ DOMAIN Append(s, m) = 1..(Len(s) + 1)
        /\ \A i \in 1..Len(s) : Append(s, m)[i] = s[i] /\ s[i] \in Model
        /\ Append(s, m)[Len(s) + 1] = m
    OBVIOUS
  <1>2. QED
    BY <1>1 DEF InOrder, Model

(***************************************************************************)
(* Where the batch is                                                      *)
(***************************************************************************)

ShapeInv ==
    /\ phase = "idle" => todo = {}
    /\ phase # "idle" => batch > 0
    /\ phase \in {"idle", "plan"} => model = 1 /\ ~loaded /\ aiScaled = {}
    /\ phase \in {"idle", "ai"} => at = None
    /\ phase = "ai" => IF loaded THEN todo \subseteq Needing(model) ELSE todo = {}
    /\ phase = "finish" => ~loaded /\ model = Models + 1 /\ at \notin failed
    /\ phase # "idle" => todo \subseteq present
    /\ at # None => at \in todo

LEMMA ShapeStep == TypeInv /\ ShapeInv /\ [Next]_vars => ShapeInv'
  <1> SUFFICES ASSUME TypeInv, ShapeInv, [Next]_vars PROVE ShapeInv'
    OBVIOUS
  <1> USE EnhanceAssumption DEF TypeInv, TypeOK, ShapeInv, None, Photo
  <1>1. CASE BatchStart \/ Reset \/ \E p \in Photo : Ingested(p) \/ Exported(p)
    <2>1. CASE BatchStart
      BY <2>1 DEF rowVars, BatchStart, itemVars
    <2>2. CASE Reset \/ \E p \in Photo : Ingested(p) \/ Exported(p)
      <3>1. phase = "idle" /\ UNCHANGED <<loopVars, itemVars>>
        BY <2>2 DEF Reset, Ingested, Exported
      <3>2. QED
        BY <3>1 DEF loopVars, itemVars
    <2>3. QED
      BY <1>1, <2>1, <2>2
  <1>2. ASSUME NEW p \in Photo, ChainStep(p) PROVE ShapeInv'
    <2>1. CASE phase = "plan"
      BY <1>2, <2>1
         DEF rowVars, ChainStep, SkipSource, Baseline, PlanPhoto, SaveIntermediate, Phase1Fails,
            ApplyModel, ModelFails, Verify, WriteAfter, Phase3Fails, Discard, First, fileVars, itemVars
    <2>2. CASE phase = "ai"
      BY <1>2, <2>2
         DEF rowVars, ChainStep, SkipSource, Baseline, PlanPhoto, SaveIntermediate, Phase1Fails,
            ApplyModel, ModelFails, Verify, WriteAfter, Phase3Fails, Discard, First, Needing
    <2>3. CASE phase = "finish"
      BY <1>2, <2>3
         DEF rowVars, ChainStep, SkipSource, Baseline, PlanPhoto, SaveIntermediate, Phase1Fails,
            ApplyModel, ModelFails, Verify, WriteAfter, Phase3Fails, Discard, PhotoDone, First,
            itemVars
    <2>4. CASE phase = "idle"
      BY <1>2, <2>4 DEF ChainStep, SkipSource, Baseline, PlanPhoto, SaveIntermediate, Phase1Fails,
            ApplyModel, ModelFails, Verify, WriteAfter, Phase3Fails, Discard
    <2>5. QED
      BY <2>1, <2>2, <2>3, <2>4
  <1>3. CASE BatchStep
    <2>1. CASE Phase1Done \/ BatchEnd
      BY <2>1 DEF Phase1Done, BatchEnd, Ended, itemVars
    <2>2. CASE ModelUnneeded \/ ModelLoadFails \/ ModelUnloads
      BY <2>2 DEF ModelUnneeded, ModelLoadFails, ModelUnloads, Model, itemVars
    <2>3. CASE ModelLoads
      BY <2>3 DEF rowVars, ModelLoads, Needing, itemVars
    <2>4. CASE Phase2Done
      BY <2>4 DEF rowVars, Phase2Done, itemVars
    <2>5. QED
      BY <1>3, <2>1, <2>2, <2>3, <2>4 DEF BatchStep
  <1>4. CASE BatchDies
    BY <1>4 DEF BatchDies, Ended
  <1>5. CASE UNCHANGED vars
    BY <1>5 DEF vars, Needing
  <1>6. QED
    BY <1>1, <1>2, <1>3, <1>4, <1>5 DEF Next

(***************************************************************************)
(* Intermediates                                                           *)
(***************************************************************************)

NpyInv ==
    phase = "finish" => \A p \in present \ todo : npy[p] # NoPicture => p \in kept

LEMMA NpyStep == TypeInv /\ NpyInv /\ [Next]_vars => NpyInv'
  <1> SUFFICES ASSUME TypeInv, NpyInv, [Next]_vars PROVE NpyInv'
    OBVIOUS
  <1> USE DEF TypeInv, TypeOK, NpyInv
  <1>1. CASE BatchStart \/ Reset \/ \E p \in Photo : Ingested(p) \/ Exported(p)
    BY <1>1 DEF BatchStart, Reset, Ingested, Exported, loopVars
  <1>2. ASSUME NEW p \in Photo, ChainStep(p) PROVE NpyInv'
    BY <1>2 DEF rowVars, ChainStep, SkipSource, Baseline, PlanPhoto, SaveIntermediate, Phase1Fails,
          ApplyModel, ModelFails, Verify, WriteAfter, Phase3Fails, Discard, PhotoDone, fileVars
  <1>3. CASE BatchStep
    BY <1>3
       DEF rowVars, BatchStep, Phase1Done, ModelUnneeded, ModelLoads, ModelLoadFails, ModelUnloads,
                Phase2Done, BatchEnd, Ended
  <1>4. CASE BatchDies
    BY <1>4 DEF BatchDies, Ended
  <1>5. CASE UNCHANGED vars
    BY <1>5 DEF vars
  <1>6. QED
    BY <1>1, <1>2, <1>3, <1>4, <1>5 DEF Next

(***************************************************************************)
(* The chain of a photo                                                    *)
(***************************************************************************)

(* The photos that run_batch still counts on, and the models applied to    *)
(* their intermediates so far.                                             *)
Current(p) ==
    /\ p \in present \ failed
    /\ \/ phase = "plan" /\ p \notin todo
       \/ phase = "ai"
       \/ phase = "finish" /\ p \in todo
Taken(p) == {m \in pending[p] : m < model \/ (m = model /\ loaded /\ p \notin todo)}
Worked(a, p) ==
    /\ a.batch = batch /\ a.plan = pending[p] /\ a.safe = FALSE
    /\ InOrder(a.steps) /\ StepsOf(a) = Taken(p)
    /\ a.scaled = IF Downscale /\ Taken(p) # {} THEN 1 ELSE 0
WorkInv ==
    \A p \in Photo : Current(p) =>
        /\ Worked(npy[p], p)
        /\ p \in aiScaled <=> Downscale /\ Taken(p) # {}

LEMMA Work1 ==
    ASSUME TypeInv, ShapeInv, WorkInv, NEW p \in Photo,
           SkipSource(p) \/ Baseline(p) \/ PlanPhoto(p) \/ Phase1Fails(p) \/ ModelFails(p)
             \/ Verify(p) \/ WriteAfter(p) \/ Phase3Fails(p) \/ Discard(p)
    PROVE  WorkInv'
  <1> SUFFICES ASSUME NEW q \in Photo, Current(q)'
               PROVE  /\ Worked(npy[q], q)'
                      /\ q \in aiScaled' <=> Downscale /\ Taken(q)' # {}
    BY DEF WorkInv
  <1> USE DEF TypeInv, TypeOK, ShapeInv, Current
  <1> DEFINE Kept == /\ Current(q) /\ npy'[q] = npy[q] /\ pending'[q] = pending[q]
                     /\ batch' = batch /\ model' = model /\ loaded' = loaded
                     /\ (q \in todo' <=> q \in todo) /\ (q \in aiScaled' <=> q \in aiScaled)
  <1>1. Kept
    <2>1. CASE SkipSource(p)
      BY <2>1 DEF rowVars, SkipSource, First, fileVars
    <2>2. CASE Baseline(p)
      BY <2>2 DEF rowVars, Baseline, itemVars
    <2>3. CASE PlanPhoto(p)
      <3>1. p # None
        BY EnhanceAssumption DEF Photo, None
      <3>2. p \in todo /\ p # q
        BY <2>3, <3>1 DEF PlanPhoto
      <3>3. QED
        BY <2>3, <3>2 DEF PlanPhoto, fileVars
    <2>4. CASE Phase1Fails(p) \/ ModelFails(p)
      BY <2>4 DEF rowVars, Phase1Fails, ModelFails, First
    <2>5. CASE Verify(p)
      BY <2>5 DEF Verify, itemVars, fileVars
    <2>6. CASE WriteAfter(p) \/ Phase3Fails(p) \/ Discard(p)
      BY <2>6 DEF WriteAfter, Phase3Fails, Discard, PhotoDone, First, itemVars
    <2>7. QED
      BY <2>1, <2>2, <2>3, <2>4, <2>5, <2>6
  <1>2. Taken(q)' = Taken(q)
    BY <1>1 DEF Taken
  <1>3. QED
    BY <1>1, <1>2 DEF WorkInv, Worked

LEMMA WorkSaved ==
    ASSUME TypeInv, ShapeInv, WorkInv, NEW p \in Photo, SaveIntermediate(p)
    PROVE  WorkInv'
  <1> SUFFICES ASSUME NEW q \in Photo, Current(q)'
               PROVE  /\ Worked(npy[q], q)'
                      /\ q \in aiScaled' <=> Downscale /\ Taken(q)' # {}
    BY DEF WorkInv
  <1> USE DEF TypeInv, TypeOK, ShapeInv, Current
  <1>1. /\ phase = "plan" /\ at = p /\ model = 1 /\ ~loaded /\ aiScaled = {}
        /\ npy' = [npy EXCEPT ![p] = Developed(batch, pending[p])] /\ todo' = todo \ {p}
        /\ UNCHANGED <<present, batch, phase, model, loaded, failed, pending, aiScaled>>
    BY DEF SaveIntermediate, rowVars, itemVars
  <1>2. Taken(q)' = {} /\ Taken(q) = {}
    BY <1>1 DEF Taken, Model
  <1>3. CASE q = p
    <2>1. npy'[q] = Developed(batch, pending[p])
      BY <1>1, <1>3
    <2>2. /\ npy'[q].batch = batch /\ npy'[q].plan = pending[p] /\ npy'[q].safe = FALSE
          /\ npy'[q].steps = <<>> /\ npy'[q].scaled = 0
      BY <2>1, NewPictures
    <2>3. InOrder(<<>>) /\ DOMAIN <<>> = {}
      BY DEF InOrder
    <2>4. StepsOf(npy'[q]) = {} /\ InOrder(npy'[q].steps)
      BY <2>2, <2>3 DEF StepsOf
    <2>5. QED
      BY <1>1, <1>2, <1>3, <2>2, <2>4 DEF Worked
  <1>4. CASE q # p
    <2>1. Current(q) /\ npy'[q] = npy[q]
      BY <1>1, <1>4
    <2>2. QED
      BY <1>1, <1>2, <2>1 DEF WorkInv, Worked
  <1>5. QED
    BY <1>3, <1>4

LEMMA WorkApplied ==
    ASSUME TypeInv, ShapeInv, WorkInv, NEW p \in Photo, ApplyModel(p)
    PROVE  WorkInv'
  <1> SUFFICES ASSUME NEW q \in Photo, Current(q)'
               PROVE  /\ Worked(npy[q], q)'
                      /\ q \in aiScaled' <=> Downscale /\ Taken(q)' # {}
    BY DEF WorkInv
  <1> USE DEF TypeInv, TypeOK, ShapeInv, Current
  <1>1. /\ phase = "ai" /\ loaded /\ p \in todo /\ model \in Model
        /\ todo' = todo \ {p}
        /\ aiScaled' = IF Downscale THEN aiScaled \union {p} ELSE aiScaled
        /\ UNCHANGED <<present, batch, phase, model, loaded, failed, pending>>
    BY DEF ApplyModel, First, rowVars
  <1>2. Current(q)
    BY <1>1
  <1>3. Worked(npy[q], q) /\ (q \in aiScaled <=> Downscale /\ Taken(q) # {})
    BY <1>2 DEF WorkInv
  <1>4. CASE q # p
    <2>1. npy'[q] = npy[q]
      BY <1>4 DEF ApplyModel
    <2>2. Taken(q)' = Taken(q) /\ (q \in aiScaled' <=> q \in aiScaled)
      BY <1>1, <1>4 DEF Taken
    <2>3. QED
      BY <1>1, <1>3, <2>1, <2>2 DEF Worked
  <1>5. CASE q = p
    <2> DEFINE a == npy[q]
               b == npy'[q]
    <2>1. a \in Picture /\ a.steps \in Seq(Model)
      BY DEF Picture
    <2>2. /\ b.batch = a.batch /\ b.plan = a.plan /\ b.safe = a.safe
          /\ b.steps = Append(a.steps, model)
          /\ b.scaled = IF Downscale /\ q \notin aiScaled THEN a.scaled + 1 ELSE a.scaled
      BY <1>5, <2>1 DEF ApplyModel, Picture
    <2>3. model \in pending[q]
      BY <1>1, <1>5 DEF Needing
    <2>4. Taken(q) = {m \in pending[q] : m < model}
      BY <1>1, <1>5 DEF Taken
    <2>5. Taken(q)' = Taken(q) \union {model} /\ Taken(q)' # {}
      BY <1>1, <1>5, <2>3, <2>4 DEF Taken, Model
    <2>6. InOrder(a.steps) /\ StepsOf(a) = Taken(q)
      BY <1>3 DEF Worked
    <2>7. \A i \in DOMAIN a.steps : a.steps[i] < model
      BY <2>4, <2>6 DEF StepsOf
    <2>8. InOrder(b.steps) /\ StepsOf(b) = Taken(q) \union {model}
      <3>1. /\ InOrder(Append(a.steps, model))
            /\ {Append(a.steps, model)[i] : i \in DOMAIN Append(a.steps, model)}
                  = {a.steps[i] : i \in DOMAIN a.steps} \union {model}
        BY <1>1, <2>1, <2>6, <2>7, AppendInOrder
      <3>2. StepsOf(b) = {a.steps[i] : i \in DOMAIN a.steps} \union {model}
        BY <2>2, <3>1 DEF StepsOf
      <3>3. QED
        BY <2>2, <2>6, <3>1, <3>2 DEF StepsOf
    <2>9. b.scaled = IF Downscale THEN 1 ELSE 0
      BY <1>3, <2>2 DEF Worked
    <2>10. q \in aiScaled' <=> Downscale
      BY <1>1, <1>3, <1>5
    <2>11. QED
      BY <1>1, <1>3, <2>2, <2>5, <2>8, <2>9, <2>10 DEF Worked
  <1>6. QED
    BY <1>4, <1>5

LEMMA WorkStep == TypeInv /\ ShapeInv /\ WorkInv /\ [Next]_vars => WorkInv'
  <1> SUFFICES ASSUME TypeInv, ShapeInv, WorkInv, [Next]_vars PROVE WorkInv'
    OBVIOUS
  <1>1. ASSUME NEW p \in Photo, ChainStep(p) PROVE WorkInv'
    BY <1>1, Work1, WorkSaved, WorkApplied DEF ChainStep
  <1>2. ASSUME NEW q \in Photo, Current(q)', ~(\E p \in Photo : ChainStep(p))
        PROVE  /\ Current(q) /\ npy'[q] = npy[q] /\ pending'[q] = pending[q]
               /\ batch' = batch /\ Taken(q)' = Taken(q)
               /\ (q \in aiScaled' <=> q \in aiScaled)
    <2> USE EnhanceAssumption, <1>2 DEF TypeInv, TypeOK, ShapeInv, Current, Taken
    <2>1. CASE BatchStart
      BY <2>1 DEF rowVars, BatchStart
    <2>2. CASE Reset \/ \E p \in Photo : Ingested(p) \/ Exported(p)
      BY <2>2 DEF Reset, Ingested, Exported, loopVars
    <2>3. CASE Phase1Done
      BY <2>3 DEF rowVars, Phase1Done, itemVars, fileVars
    <2>4. CASE ModelUnneeded
      BY <2>4 DEF rowVars, ModelUnneeded, Needing, Model, itemVars, fileVars
    <2>5. CASE ModelLoads
      BY <2>5 DEF rowVars, ModelLoads, Needing, Model, itemVars, fileVars
    <2>6. CASE ModelLoadFails
      BY <2>6 DEF rowVars, ModelLoadFails, Needing, Model, fileVars
    <2>7. CASE ModelUnloads
      BY <2>7 DEF rowVars, ModelUnloads, Model, itemVars, fileVars
    <2>8. CASE Phase2Done
      BY <2>8 DEF Phase2Done, Model, itemVars, fileVars
    <2>9. CASE BatchEnd \/ BatchDies
      BY <2>9 DEF BatchEnd, BatchDies, Ended
    <2>10. CASE UNCHANGED vars
      BY <2>10 DEF vars
    <2>11. QED
      BY <2>1, <2>2, <2>3, <2>4, <2>5, <2>6, <2>7, <2>8, <2>9, <2>10 DEF Next, BatchStep
  <1>3. ASSUME ~(\E p \in Photo : ChainStep(p)) PROVE WorkInv'
    BY <1>2, <1>3 DEF WorkInv, Worked
  <1>4. QED
    BY <1>1, <1>3

(***************************************************************************)
(* Rows and renders                                                        *)
(***************************************************************************)

(* The before renders are of this batch from the moment they are written.  *)
PlanInv ==
    \A p \in present \ failed :
        (phase = "plan" /\ (p \notin todo \/ at = p)) \/ phase \in {"ai", "finish"}
            => before[p] = Developed(batch, {})

LEMMA PlanStep == TypeInv /\ ShapeInv /\ PlanInv /\ [Next]_vars => PlanInv'
  <1> SUFFICES ASSUME TypeInv, ShapeInv, PlanInv, [Next]_vars,
                      NEW q \in Photo, q \in present' \ failed',
                      (phase' = "plan" /\ (q \notin todo' \/ at' = q)) \/ phase' \in {"ai", "finish"}
               PROVE  before'[q] = Developed(batch', {})
    BY TypeStep DEF PlanInv, TypeInv, TypeOK
  <1> USE DEF TypeInv, TypeOK, ShapeInv, PlanInv
  <1>1. CASE BatchStart \/ Reset \/ \E p \in Photo : Ingested(p) \/ Exported(p)
    BY <1>1, EnhanceAssumption
       DEF rowVars, BatchStart, Reset, Ingested, Exported, loopVars, None, Photo
  <1>2. ASSUME NEW p \in Photo, ChainStep(p) PROVE before'[q] = Developed(batch', {})
    <2>1. CASE SkipSource(p)
      BY <2>1 DEF rowVars, SkipSource, fileVars, First
    <2>2. CASE Baseline(p)
      <3>1. /\ before' = [before EXCEPT ![p] = Developed(batch, {})] /\ batch' = batch
            /\ UNCHANGED <<present, phase, todo, failed>> /\ at' = p /\ phase = "plan"
        BY <2>2 DEF Baseline, rowVars, itemVars
      <3>2. QED
        BY <3>1
    <2>3. CASE PlanPhoto(p) \/ SaveIntermediate(p)
      BY <2>3, EnhanceAssumption
         DEF rowVars, PlanPhoto, SaveIntermediate, fileVars, itemVars, None, Photo
    <2>4. CASE Phase1Fails(p)
      BY <2>4, EnhanceAssumption DEF rowVars, Phase1Fails, First, None, Photo
    <2>5. CASE ApplyModel(p) \/ ModelFails(p)
      BY <2>5 DEF rowVars, ApplyModel, ModelFails
    <2>6. CASE Verify(p)
      BY <2>6 DEF Verify, fileVars, itemVars
    <2>7. CASE WriteAfter(p) \/ Phase3Fails(p) \/ Discard(p)
      BY <2>7 DEF rowVars, WriteAfter, Phase3Fails, Discard, itemVars
    <2>8. QED
      BY <1>2, <2>1, <2>2, <2>3, <2>4, <2>5, <2>6, <2>7 DEF ChainStep
  <1>3. CASE BatchStep
    BY <1>3
       DEF rowVars, BatchStep, Phase1Done, ModelUnneeded, ModelLoads, ModelLoadFails, ModelUnloads,
                Phase2Done, BatchEnd, Ended, fileVars, itemVars
  <1>4. CASE BatchDies
    BY <1>4 DEF BatchDies, Ended
  <1>5. CASE UNCHANGED vars
    BY <1>5 DEF vars
  <1>6. QED
    BY <1>1, <1>2, <1>3, <1>4, <1>5 DEF Next

(* What _phase3 takes has been through its plan, whichever result it is.   *)
LEMMA VerifyTakes ==
    ASSUME TypeInv, ShapeInv, WorkInv, NEW p \in Photo, Verify(p)
    PROVE  /\ result' \in Picture /\ result'.batch = batch /\ result'.plan = pending[p]
           /\ Follows(result')
  <1> USE DEF TypeInv, TypeOK
  <1>1. /\ phase = "finish" /\ ~loaded /\ model = Models + 1
        /\ p \in todo /\ p \in present \ failed
    BY DEF Verify, First, ShapeInv
  <1>2. Taken(p) = pending[p]
    BY <1>1, EnhanceAssumption DEF Taken, Model
  <1>3. Worked(npy[p], p)
    BY <1>1 DEF WorkInv, Current
  <1>4. npy[p] \in Picture /\ Follows(npy[p]) /\ npy[p].batch = batch /\ npy[p].plan = pending[p]
    BY <1>2, <1>3 DEF Worked, Follows
  <1> DEFINE r == SafeRetry(batch, pending[p])
  <1>5. r \in Picture /\ Follows(r) /\ r.batch = batch /\ r.plan = pending[p]
    BY PicturesTyped, NewPictures
  <1>6. ASSUME NEW a \in Picture, Follows(a), a.batch = batch, a.plan = pending[p],
               NEW b \in Verified(a)
        PROVE  b \in Picture /\ b.batch = batch /\ b.plan = pending[p] /\ Follows(b)
    <2>1. b \in Picture
      BY PicturesTyped
    <2>2. /\ b.batch = a.batch /\ b.plan = a.plan /\ b.safe = a.safe
          /\ b.steps = a.steps /\ b.scaled = a.scaled
      BY VerifiedKeeps
    <2>3. QED
      BY <1>6, <2>1, <2>2 DEF Follows, StepsOf
  <1>7. result' \in Verified(npy[p]) \/ result' \in Verified(r)
    BY DEF Verify, Better
  <1>8. QED
    BY <1>4, <1>5, <1>6, <1>7

(* What phase 3 has verified: report, plan and verdict are of this batch,  *)
(* and so is the render once the photo is done.                            *)
Verdict(p) ==
    /\ reportOf[p] = batch
    /\ planRow[p] = pending[p]
    /\ scored[p].batch = batch /\ scored[p].plan = pending[p]
    /\ scored[p].safe <=> p \in safeRow
    /\ Follows(scored[p])
    /\ IF at = p THEN result = scored[p] ELSE after[p] = scored[p]
VerdictInv ==
    phase = "finish" => \A p \in present \ failed : p \notin todo \/ at = p => Verdict(p)

LEMMA VerdictStep == TypeInv /\ ShapeInv /\ WorkInv /\ VerdictInv /\ [Next]_vars => VerdictInv'
  <1> SUFFICES ASSUME TypeInv, ShapeInv, WorkInv, VerdictInv, [Next]_vars, phase' = "finish",
                      NEW q \in Photo, q \in present' \ failed', q \notin todo' \/ at' = q
               PROVE  Verdict(q)'
    BY TypeStep DEF VerdictInv, TypeInv, TypeOK
  <1> USE DEF TypeInv, TypeOK, ShapeInv, VerdictInv
  <1>0. q # None
    BY EnhanceAssumption DEF None, Photo
  <1>1. CASE BatchStart \/ Reset \/ \E p \in Photo : Ingested(p) \/ Exported(p)
    BY <1>1 DEF BatchStart, Reset, Ingested, Exported, loopVars
  <1>2. ASSUME NEW p \in Photo, ChainStep(p) PROVE Verdict(q)'
    <2>1. CASE SkipSource(p) \/ Baseline(p) \/ PlanPhoto(p) \/ SaveIntermediate(p)
                 \/ Phase1Fails(p) \/ ApplyModel(p) \/ ModelFails(p)
      BY <2>1 DEF SkipSource, Baseline, PlanPhoto, SaveIntermediate, Phase1Fails, ApplyModel,
                  ModelFails
    <2>2. CASE Verify(p)
      <3>1. /\ UNCHANGED <<present, after, batch, phase, todo, failed, pending>> /\ phase = "finish"
            /\ at = None /\ at' = p /\ p \in todo
            /\ planRow' = [planRow EXCEPT ![p] = pending[p]]
            /\ safeRow' = IF result'.safe THEN safeRow \union {p} ELSE safeRow \ {p}
            /\ reportOf' = [reportOf EXCEPT ![p] = batch]
            /\ scored' = [scored EXCEPT ![p] = result']
        BY <2>2 DEF Verify, First, fileVars, itemVars
      <3>2. CASE q = p
        <4>1. scored'[q] = result' /\ planRow'[q] = pending'[q] /\ reportOf'[q] = batch'
          BY <3>1, <3>2
        <4>2. /\ result'.batch = batch /\ result'.plan = pending[p] /\ Follows(result')
          BY <2>2, VerifyTakes
        <4>3. scored'[q].safe <=> q \in safeRow'
          BY <3>1, <3>2, <4>1
        <4>4. QED
          BY <3>1, <3>2, <4>1, <4>2, <4>3 DEF Verdict
      <3>3. CASE q # p
        <4>1. q \notin todo /\ Verdict(q)
          BY <3>1, <3>3
        <4>2. /\ scored'[q] = scored[q] /\ planRow'[q] = planRow[q] /\ reportOf'[q] = reportOf[q]
              /\ (q \in safeRow' <=> q \in safeRow)
          BY <3>1, <3>3
        <4>3. QED
          BY <1>0, <3>1, <3>3, <4>1, <4>2 DEF Verdict
      <3>4. QED
        BY <3>2, <3>3
    <2>3. CASE WriteAfter(p)
      <3>1. /\ UNCHANGED <<batch, phase, failed, pending, present, reportOf, planRow, safeRow, scored>>
            /\ at = p /\ at' = None /\ todo' = todo \ {p}
            /\ after' = [after EXCEPT ![p] = result]
        BY <2>3 DEF WriteAfter, PhotoDone, rowVars, itemVars
      <3>2. q \notin todo \/ at = q
        BY <1>0, <3>1
      <3>3. Verdict(q)
        BY <3>1, <3>2
      <3>4. after'[q] = scored[q]
        BY <3>1, <3>3 DEF Verdict
      <3>5. QED
        BY <1>0, <3>1, <3>3, <3>4 DEF Verdict
    <2>4. CASE Phase3Fails(p) \/ Discard(p)
      <3>1. /\ UNCHANGED <<batch, phase, pending, present, reportOf, planRow, safeRow, scored>>
            /\ at' = None /\ todo' = todo \ {p} /\ at \in {p, None}
            /\ failed' = failed \union {p} /\ phase = "finish"
        BY <2>4 DEF Phase3Fails, Discard, PhotoDone, rowVars, itemVars
      <3>2. q # p /\ after'[q] = after[q]
        BY <2>4, <3>1 DEF Phase3Fails, Discard
      <3>3. q \notin todo /\ q \notin failed /\ at # q
        BY <1>0, <3>1, <3>2
      <3>4. QED
        BY <1>0, <3>1, <3>2, <3>3 DEF Verdict
    <2>5. QED
      BY <1>2, <2>1, <2>2, <2>3, <2>4 DEF ChainStep
  <1>3. CASE BatchStep
    BY <1>0, <1>3 DEF rowVars, BatchStep, Phase1Done, ModelUnneeded, ModelLoads, ModelLoadFails,
                ModelUnloads, Phase2Done, BatchEnd, Ended
  <1>4. CASE BatchDies
    BY <1>4 DEF BatchDies, Ended
  <1>5. CASE UNCHANGED vars
    BY <1>5 DEF vars, Verdict
  <1>6. QED
    BY <1>1, <1>2, <1>3, <1>4, <1>5 DEF Next

(* A render is never newer than the verdict, and is of an earlier batch    *)
(* until phase 3 has written it.                                           *)
Kept(a, s, n) ==
    /\ Follows(a)
    /\ a.batch <= s.batch /\ s.batch <= n
    /\ a \notin {NoPicture, Partial} /\ a.batch = s.batch => a = s
RenderInv ==
    \A p \in Photo :
        /\ Kept(after[p], scored[p], batch)
        /\ phase # "idle" /\ (phase # "finish" \/ p \in todo) => after[p].batch < batch

LEMMA RenderInit == Init => RenderInv
  <1>1. Follows(NoPicture) /\ NoPicture.batch = 0
    BY NewPictures
  <1>2. QED
    BY <1>1 DEF Init, RenderInv, Kept

LEMMA KeptFacts ==
    /\ \A a, s \in Picture, n \in Nat : Kept(a, s, n) => Kept(a, s, n + 1) /\ a.batch < n + 1
    /\ \A s \in Picture, n \in Nat : s.batch <= n => Kept(Partial, s, n) /\ Kept(NoPicture, s, n)
    /\ \A a \in Picture, n \in Nat : Follows(a) /\ a.batch <= n => Kept(a, a, n)
  <1> USE EnhanceAssumption
  <1>1. \A a \in Picture : a.batch \in Nat
    BY DEF Picture
  <1>2. \A a, s \in Picture, n \in Nat : Kept(a, s, n) => Kept(a, s, n + 1) /\ a.batch < n + 1
    BY <1>1 DEF Kept
  <1>3. \A s \in Picture, n \in Nat : s.batch <= n => Kept(Partial, s, n) /\ Kept(NoPicture, s, n)
    BY <1>1, NewPictures DEF Kept
  <1>4. \A a \in Picture, n \in Nat : Follows(a) /\ a.batch <= n => Kept(a, a, n)
    BY <1>1 DEF Kept
  <1>5. QED
    BY <1>2, <1>3, <1>4

LEMMA RenderStep ==
    TypeInv /\ ShapeInv /\ WorkInv /\ VerdictInv /\ RenderInv /\ [Next]_vars => RenderInv'
  <1> SUFFICES ASSUME TypeInv, ShapeInv, WorkInv, VerdictInv, RenderInv, [Next]_vars,
                      NEW q \in Photo
               PROVE  /\ Kept(after[q], scored[q], batch)'
                      /\ phase' # "idle" /\ (phase' # "finish" \/ q \in todo')
                           => after'[q].batch < batch'
    BY DEF RenderInv
  <1> USE DEF TypeInv, TypeOK, ShapeInv
  <1>0. /\ q # None /\ batch \in Nat /\ after[q] \in Picture /\ scored[q] \in Picture
        /\ Kept(after[q], scored[q], batch)
        /\ phase # "idle" /\ (phase # "finish" \/ q \in todo) => after[q].batch < batch
    BY EnhanceAssumption DEF None, Photo, RenderInv
  <1>1. CASE BatchStart
    <2>1. batch' = batch + 1 /\ UNCHANGED <<after, scored>>
      BY <1>1 DEF BatchStart, rowVars, fileVars
    <2>2. QED
      BY <1>0, <2>1, KeptFacts
  <1>2. CASE Reset
    <2>1. after'[q] = NoPicture /\ scored'[q] = NoPicture /\ batch' = batch /\ phase' = "idle"
      BY <1>2 DEF Reset, Forgotten, loopVars
    <2>2. NoPicture \in Picture /\ NoPicture.batch = 0
      BY PicturesTyped, NewPictures
    <2>3. QED
      BY <1>0, <2>1, <2>2, KeptFacts
  <1>3. ASSUME NEW p \in Photo, Ingested(p) \/ Exported(p)
        PROVE  UNCHANGED <<after, scored, batch, phase, todo>>
    BY <1>3 DEF Ingested, Exported, rowVars, loopVars
  <1>4. ASSUME NEW p \in Photo, ChainStep(p)
        PROVE  /\ Kept(after[q], scored[q], batch)'
               /\ phase' # "idle" /\ (phase' # "finish" \/ q \in todo')
                    => after'[q].batch < batch'
    <2>1. CASE SkipSource(p) \/ Baseline(p) \/ PlanPhoto(p) \/ SaveIntermediate(p)
                 \/ Phase1Fails(p) \/ ApplyModel(p) \/ ModelFails(p)
      <3>1. UNCHANGED <<after, scored, batch, phase>> /\ phase \in {"plan", "ai"}
        BY <2>1 DEF SkipSource, Baseline, PlanPhoto, SaveIntermediate, Phase1Fails, ApplyModel,
                    ModelFails, rowVars, fileVars
      <3>2. QED
        BY <1>0, <3>1
    <2>2. CASE Verify(p)
      <3>1. /\ UNCHANGED <<after, batch, phase, todo>> /\ phase = "finish" /\ p \in todo
            /\ scored' = [scored EXCEPT ![p] = result']
        BY <2>2 DEF Verify, First, fileVars
      <3>2. CASE q = p
        <4>1. scored'[q] = result' /\ result'.batch = batch /\ after[q].batch < batch
          BY <1>0, <2>2, <3>1, <3>2, VerifyTakes
        <4>2. after[q].batch \in Nat
          BY <1>0, EnhanceAssumption DEF Picture
        <4>3. QED
          BY <1>0, <3>1, <4>1, <4>2 DEF Kept
      <3>3. QED
        BY <1>0, <3>1, <3>2
    <2>3. CASE WriteAfter(p)
      <3>1. /\ UNCHANGED <<scored, batch, phase, failed>> /\ at = p /\ phase = "finish"
            /\ todo' = todo \ {p} /\ after' = [after EXCEPT ![p] = result] /\ p \notin failed
        BY <2>3 DEF WriteAfter, PhotoDone, rowVars, itemVars
      <3>2. CASE q = p
        <4>1. Verdict(q)
          BY <1>0, <3>1, <3>2 DEF VerdictInv
        <4>2. after'[q] = scored[q] /\ Follows(scored[q]) /\ scored[q].batch = batch
          BY <3>1, <3>2, <4>1 DEF Verdict
        <4>3. QED
          BY <1>0, <3>1, <3>2, <4>2, KeptFacts
      <3>3. QED
        BY <1>0, <3>1, <3>2
    <2>4. CASE Phase3Fails(p) \/ Discard(p)
      <3>1. /\ UNCHANGED <<scored, batch, phase>> /\ phase = "finish" /\ todo' = todo \ {p}
            /\ after'[q] = after[q] \/ after'[q] = Partial
        BY <2>4 DEF Phase3Fails, Discard, PhotoDone, rowVars
      <3>2. Partial.batch = 0 /\ batch > 0 /\ scored[q].batch <= batch
        BY <1>0, <3>1, NewPictures DEF Kept
      <3>3. QED
        BY <1>0, <3>1, <3>2, KeptFacts
    <2>5. QED
      BY <1>4, <2>1, <2>2, <2>3, <2>4 DEF ChainStep
  <1>5. CASE BatchStep
    <2>1. /\ UNCHANGED <<after, scored, batch>>
          /\ phase' = "idle" \/ phase' = phase \/ phase \in {"plan", "ai"}
          /\ phase = "finish" => phase' = "idle"
      BY <1>5 DEF BatchStep, Phase1Done, ModelUnneeded, ModelLoads, ModelLoadFails, ModelUnloads,
                  Phase2Done, BatchEnd, Ended, rowVars, fileVars
    <2>2. phase = "idle" => phase' = "idle"
      BY <1>5 DEF BatchStep, Phase1Done, ModelUnneeded, ModelLoads, ModelLoadFails, ModelUnloads,
                  Phase2Done, BatchEnd, Ended
    <2>3. QED
      BY <1>0, <2>1, <2>2
  <1>6. CASE BatchDies
    <2>1. /\ UNCHANGED <<scored, batch>> /\ phase' = "idle"
          /\ after'[q] = after[q] \/ after'[q] = Partial
      BY <1>6 DEF BatchDies, Ended, rowVars
    <2>2. scored[q].batch <= batch
      BY <1>0 DEF Kept
    <2>3. QED
      BY <1>0, <2>1, <2>2, KeptFacts
  <1>7. CASE UNCHANGED vars
    BY <1>0, <1>7 DEF vars
  <1>8. QED
    BY <1>0, <1>1, <1>2, <1>3, <1>4, <1>5, <1>6, <1>7 DEF Next

(***************************************************************************)
(* Theorems                                                                *)
(***************************************************************************)

EnhanceInv == /\ TypeInv /\ ShapeInv /\ NpyInv /\ WorkInv /\ PlanInv /\ VerdictInv /\ RenderInv

(* Whatever fails and whenever a batch is killed, the invariant of the     *)
(* three phases holds: where the batch is, how far the intermediates are,  *)
(* and what rows and renders say of the photos taken so far.               *)
THEOREM EnhanceCorrect == Spec => []EnhanceInv
  <1>1. Init => EnhanceInv
    <2> SUFFICES ASSUME Init PROVE EnhanceInv
      OBVIOUS
    <2>1. TypeInv /\ RenderInv
      BY TypeInit, RenderInit
    <2>2. ShapeInv /\ NpyInv /\ WorkInv /\ PlanInv /\ VerdictInv
      BY DEF Init, ShapeInv, NpyInv, WorkInv, PlanInv, VerdictInv, Current
    <2>3. QED
      BY <2>1, <2>2 DEF EnhanceInv
  <1>2. EnhanceInv /\ [Next]_vars => EnhanceInv'
    BY TypeStep, ShapeStep, NpyStep, WorkStep, PlanStep, VerdictStep, RenderStep DEF EnhanceInv
  <1>3. QED
    BY <1>1, <1>2, PTL DEF Spec

(* A rendered picture has been through its plan, step by step, whatever    *)
(* failed and whatever a batch left behind.                                *)
THEOREM RendersFollowPlans == Spec => []RenderFollowsPlan
  <1>1. EnhanceInv => RenderFollowsPlan
    BY DEF EnhanceInv, RenderInv, Kept, Follows, StepsOf, RenderFollowsPlan
  <1>2. QED
    BY <1>1, EnhanceCorrect, PTL

(* At the end of a batch the rows and renders of every photo that did not  *)
(* fail are of this batch and agree.                                       *)
THEOREM RowsAgree == Spec => []EnhancedAgrees
  <1>1. EnhanceInv => EnhancedAgrees
    <2> SUFFICES ASSUME EnhanceInv, phase = "finish", todo = {},
                        NEW p \in present \ failed
                 PROVE  /\ reportOf[p] = batch
                        /\ before[p] = Developed(batch, {})
                        /\ after[p].batch = batch
                        /\ after[p] = scored[p]
                        /\ after[p].plan = planRow[p]
                        /\ after[p].safe <=> p \in safeRow
      BY DEF EnhancedAgrees
    <2>1. before[p] = Developed(batch, {})
      BY DEF EnhanceInv, PlanInv
    <2>2. Verdict(p)
      BY DEF EnhanceInv, VerdictInv
    <2>3. at # p
      BY EnhanceAssumption DEF EnhanceInv, TypeInv, TypeOK, ShapeInv, None, Photo
    <2>4. QED
      BY <2>1, <2>2, <2>3 DEF Verdict
  <1>2. QED
    BY <1>1, EnhanceCorrect, PTL

(* A batch that comes to its end has removed the intermediates of all its  *)
(* photos, those of killed batches and of earlier sessions too, except     *)
(* where unlink failed.                                                    *)
THEOREM IntermediatesAreRemoved == Spec => []IntermediatesRemoved
  <1>1. EnhanceInv => IntermediatesRemoved
    BY DEF EnhanceInv, NpyInv, IntermediatesRemoved
  <1>2. QED
    BY <1>1, EnhanceCorrect, PTL

(* The verdict of a photo is never about an older picture than its render. *)
THEOREM VerdictsDescribe == Spec => []VerdictDescribesRender
  <1>1. EnhanceInv => VerdictDescribesRender
    BY DEF EnhanceInv, RenderInv, Kept, VerdictDescribesRender
  <1>2. QED
    BY <1>1, EnhanceCorrect, PTL

(***************************************************************************)
(* Every batch ends                                                        *)
(***************************************************************************)

PartInv == at = None => part = "none"

LEMMA PartStep == TypeInv /\ PartInv /\ [Next]_vars => PartInv'
  <1> SUFFICES ASSUME TypeInv, PartInv, [Next]_vars PROVE PartInv'
    OBVIOUS
  <1> USE DEF TypeInv, TypeOK, PartInv
  <1>1. ASSUME NEW p \in Photo, ChainStep(p) PROVE PartInv'
    BY <1>1, EnhanceAssumption DEF ChainStep, SkipSource, Baseline, PlanPhoto, SaveIntermediate,
          Phase1Fails, ApplyModel, ModelFails, Verify, WriteAfter, Phase3Fails, Discard, PhotoDone,
          None, Photo
  <1>2. CASE BatchStep \/ BatchDies
    BY <1>2 DEF BatchStep, Phase1Done, ModelUnneeded, ModelLoads, ModelLoadFails, ModelUnloads,
                Phase2Done, BatchEnd, BatchDies, Ended
  <1>3. CASE BatchStart \/ Reset \/ \E p \in Photo : Ingested(p) \/ Exported(p)
    BY <1>3 DEF BatchStart, Reset, Ingested, Exported, loopVars
  <1>4. CASE UNCHANGED vars
    BY <1>4 DEF vars
  <1>5. QED
    BY <1>1, <1>2, <1>3, <1>4 DEF Next

LEMMA PhotoCounts ==
    ASSUME NEW S \in SUBSET Photo
    PROVE  /\ Cardinality(S) \in 0..Photos
           /\ S = {} => Cardinality(S) = 0
           /\ \A p \in S : Cardinality(S \ {p}) = Cardinality(S) - 1 /\ Cardinality(S) > 0
  <1>1. IsFiniteSet(Photo) /\ Cardinality(Photo) = Photos
    BY FS_Interval, EnhanceAssumption DEF Photo
  <1>2. IsFiniteSet(S) /\ Cardinality(S) <= Photos
    BY <1>1, FS_Subset
  <1>3. Cardinality(S) \in Nat
    BY <1>2, FS_CardinalityType
  <1>4. S = {} => Cardinality(S) = 0
    BY FS_EmptySet
  <1>5. \A p \in S : Cardinality(S \ {p}) = Cardinality(S) - 1 /\ Cardinality(S) > 0
    BY <1>2, <1>3, FS_RemoveElement, FS_EmptySet
  <1>6. QED
    BY <1>2, <1>3, <1>4, <1>5, EnhanceAssumption

(* What is left, as a function of the variables it depends on.             *)
Models0(m) == FinishLeft + 1 + (Models + 1 - m) * (Photos + 2)
LEMMA ModelsCount ==
    /\ \A m \in 1..(Models + 1) : Models0(m) \in Nat /\ Models0(m) > FinishLeft
    /\ \A m \in 1..Models : Models0(m + 1) = Models0(m) - (Photos + 2)
    /\ Models0(Models + 1) = FinishLeft + 1
    /\ FinishLeft = 1 + 2 * Photos /\ Photos \in Nat
  <1> USE EnhanceAssumption
  <1>1. \A m \in 1..(Models + 1) : (Models + 1 - m) \in Nat
    OBVIOUS
  <1>2. \A k \in Nat : k * (Photos + 2) \in Nat
    OBVIOUS
  <1>3. \A m \in 1..(Models + 1) : Models0(m) \in Nat /\ Models0(m) > FinishLeft
    BY <1>1, <1>2 DEF Models0, FinishLeft
  <1>4. \A m \in 1..Models : Models0(m + 1) = Models0(m) - (Photos + 2)
    <2> SUFFICES ASSUME NEW m \in 1..Models
                 PROVE  Models0(m + 1) = Models0(m) - (Photos + 2)
      OBVIOUS
    <2>1. \A k \in Int, l \in Int : (k - 1) * l = k * l - l
      OBVIOUS
    <2>2. (Models + 1 - (m + 1)) = (Models + 1 - m) - 1
      OBVIOUS
    <2>3. (Models + 1 - (m + 1)) * (Photos + 2) = (Models + 1 - m) * (Photos + 2) - (Photos + 2)
      BY <2>1, <2>2
    <2>4. (Models + 1 - m) * (Photos + 2) \in Nat
      BY <1>1, <1>2
    <2>5. QED
      BY <2>3, <2>4 DEF Models0, FinishLeft
  <1>5. Models0(Models + 1) = FinishLeft + 1
    BY DEF Models0, FinishLeft
  <1>6. QED
    BY <1>3, <1>4, <1>5 DEF FinishLeft

LEMMA WorkLeftIs ==
    ASSUME TypeInv
    PROVE  /\ phase = "idle" => WorkLeft = 0
           /\ phase = "finish"
                => WorkLeft = 1 + 2 * Cardinality(todo) - (IF at = None THEN 0 ELSE 1)
           /\ phase = "ai" /\ ~loaded => WorkLeft = Models0(model)
           /\ phase = "ai" /\ loaded
                => WorkLeft = Models0(model) - (Photos + 1 - Cardinality(todo))
           /\ phase = "plan" /\ part = "none"
                => WorkLeft = Models0(model) + 1 + 3 * Cardinality(todo)
           /\ phase = "plan" /\ part = "rendered"
                => WorkLeft = Models0(model) + 1 + 3 * Cardinality(todo) - 1
           /\ phase = "plan" /\ part \notin {"none", "rendered"}
                => WorkLeft = Models0(model) + 1 + 3 * Cardinality(todo) - 2
  <1>1. Cardinality(todo) \in 0..Photos
    BY PhotoCounts DEF TypeInv, TypeOK
  <1>2. ModelsLeft = Models0(model) /\ Models0(model) \in Nat /\ Photos \in Nat
    BY ModelsCount DEF ModelsLeft, Models0, TypeInv, TypeOK
  <1>3. QED
    BY <1>1, <1>2 DEF WorkLeft

LEMMA LessLeft ==
    TypeInv /\ TypeInv' /\ ShapeInv /\ PartInv /\ PartInv' /\ [Next]_vars
        => [phase # "idle" => WorkLeft' < WorkLeft]_vars
  <1> SUFFICES ASSUME TypeInv, TypeInv', ShapeInv, PartInv, PartInv', Next, phase # "idle"
               PROVE  WorkLeft' < WorkLeft
    OBVIOUS
  <1> USE DEF TypeOK
  <1> DEFINE c == Cardinality(todo)
             k == Cardinality(todo')
  <1>1. /\ c \in 0..Photos /\ k \in 0..Photos /\ Photos \in Nat
        /\ todo = {} => c = 0
        /\ \A p \in todo : c > 0 /\ (todo' = todo \ {p} => k = c - 1)
        /\ todo' = todo => k = c
    BY PhotoCounts, EnhanceAssumption DEF TypeInv
  <1>2. /\ model \in 1..(Models + 1) /\ Models \in Nat
        /\ Models0(model) \in Nat /\ Models0(model) > FinishLeft
        /\ model \in Model => Models0(model + 1) = Models0(model) - (Photos + 2)
        /\ Models0(Models + 1) = FinishLeft + 1
        /\ FinishLeft = 1 + 2 * Photos
    BY ModelsCount, EnhanceAssumption DEF TypeInv, Model
  <1>3. /\ phase = "finish" => WorkLeft = 1 + 2 * c - (IF at = None THEN 0 ELSE 1)
        /\ phase = "ai" /\ ~loaded => WorkLeft = Models0(model)
        /\ phase = "ai" /\ loaded => WorkLeft = Models0(model) - (Photos + 1 - c)
        /\ phase = "plan" /\ part = "none" => WorkLeft = Models0(model) + 1 + 3 * c
        /\ phase = "plan" /\ part = "rendered" => WorkLeft = Models0(model) + 1 + 3 * c - 1
        /\ phase = "plan" /\ part \notin {"none", "rendered"}
             => WorkLeft = Models0(model) + 1 + 3 * c - 2
    BY WorkLeftIs
  <1>4. /\ phase' = "idle" => WorkLeft' = 0
        /\ phase' = "finish" => WorkLeft' = 1 + 2 * k - (IF at' = None THEN 0 ELSE 1)
        /\ phase' = "ai" /\ ~loaded' => WorkLeft' = Models0(model')
        /\ phase' = "ai" /\ loaded' => WorkLeft' = Models0(model') - (Photos + 1 - k)
        /\ phase' = "plan" /\ part' = "none" => WorkLeft' = Models0(model') + 1 + 3 * k
        /\ phase' = "plan" /\ part' = "rendered" => WorkLeft' = Models0(model') + 1 + 3 * k - 1
        /\ phase' = "plan" /\ part' \notin {"none", "rendered"}
             => WorkLeft' = Models0(model') + 1 + 3 * k - 2
    <2>1. ModelsLeft' = Models0(model') /\ Models0(model') \in Nat
      BY ModelsCount DEF ModelsLeft, Models0, TypeInv
    <2>2. QED
      BY <1>1, <2>1 DEF WorkLeft, TypeInv
  <1> HIDE DEF c, k
  <1>5. WorkLeft > 0
    <2>1. CASE phase = "plan"
      BY <1>1, <1>2, <1>3, <2>1
    <2>2. CASE phase = "ai"
      BY <1>1, <1>2, <1>3, <2>2 DEF TypeInv
    <2>3. CASE phase = "finish"
      <3>1. at # None => c > 0
        BY <1>1 DEF ShapeInv
      <3>2. QED
        BY <1>1, <1>3, <2>3, <3>1
    <2>4. QED
      BY <2>1, <2>2, <2>3 DEF TypeInv
  <1>6. ASSUME NEW p \in Photo, ChainStep(p) PROVE WorkLeft' < WorkLeft
    <2>0. p # None
      BY EnhanceAssumption DEF None, Photo
    <2>1. CASE SkipSource(p)
      <3>1. /\ phase = "plan" /\ phase' = "plan" /\ part' = part /\ model' = model /\ k = c - 1
        BY <1>1, <2>1 DEF SkipSource, First
      <3>2. QED
        BY <1>1, <1>2, <1>3, <1>4, <3>1
    <2>2. CASE Baseline(p)
      <3>1. /\ phase = "plan" /\ phase' = "plan" /\ part = "none" /\ part' = "rendered"
            /\ model' = model /\ k = c
        BY <1>1, <2>2 DEF Baseline, PartInv
      <3>2. QED
        BY <1>1, <1>2, <1>3, <1>4, <3>1
    <2>3. CASE PlanPhoto(p)
      <3>1. /\ phase = "plan" /\ phase' = "plan" /\ part = "rendered" /\ part' = "planned"
            /\ model' = model /\ k = c
        BY <1>1, <2>3 DEF PlanPhoto
      <3>2. QED
        BY <1>1, <1>2, <1>3, <1>4, <3>1
    <2>4. CASE SaveIntermediate(p)
      <3>1. /\ phase = "plan" /\ phase' = "plan" /\ part' = "none" /\ model' = model /\ k = c - 1
        BY <1>1, <2>0, <2>4 DEF SaveIntermediate, ShapeInv
      <3>2. part = "planned"
        BY <2>4 DEF SaveIntermediate
      <3>3. QED
        BY <1>1, <1>2, <1>3, <1>4, <3>1, <3>2
    <2>5. CASE Phase1Fails(p)
      <3>1. /\ phase = "plan" /\ phase' = "plan" /\ part' = "none" /\ model' = model /\ k = c - 1
        BY <1>1, <2>5 DEF Phase1Fails, First
      <3>2. QED
        BY <1>1, <1>2, <1>3, <1>4, <3>1
    <2>6. CASE ApplyModel(p) \/ ModelFails(p)
      <3>1. /\ phase = "ai" /\ phase' = "ai" /\ loaded /\ loaded' /\ model' = model /\ k = c - 1
        BY <1>1, <2>6 DEF ApplyModel, ModelFails, First
      <3>2. QED
        BY <1>1, <1>2, <1>3, <1>4, <3>1
    <2>7. CASE Verify(p)
      <3>1. /\ phase = "finish" /\ phase' = "finish" /\ at = None /\ at' # None /\ k = c
        BY <1>1, <2>0, <2>7 DEF Verify
      <3>2. QED
        BY <1>1, <1>3, <1>4, <3>1
    <2>8. CASE WriteAfter(p) \/ Phase3Fails(p) \/ Discard(p)
      <3>1. /\ phase = "finish" /\ phase' = "finish" /\ at' = None /\ k = c - 1
        BY <1>1, <2>0, <2>8 DEF WriteAfter, Phase3Fails, Discard, PhotoDone, First, ShapeInv
      <3>2. QED
        BY <1>1, <1>3, <1>4, <3>1
    <2>9. QED
      BY <1>6, <2>1, <2>2, <2>3, <2>4, <2>5, <2>6, <2>7, <2>8 DEF ChainStep
  <1>7. CASE BatchStep
    <2>1. CASE Phase1Done
      <3>1. /\ phase = "plan" /\ phase' = "ai" /\ ~loaded' /\ model' = model
        BY <2>1 DEF Phase1Done, ShapeInv
      <3>2. part = "none" /\ c = 0
        BY <1>1, <2>1 DEF Phase1Done, ShapeInv, PartInv
      <3>3. QED
        BY <1>1, <1>2, <1>3, <1>4, <3>1, <3>2
    <2>2. CASE ModelUnneeded \/ ModelLoadFails
      <3>1. /\ phase = "ai" /\ phase' = "ai" /\ ~loaded /\ ~loaded' /\ model' = model + 1
            /\ model \in Model
        BY <2>2 DEF ModelUnneeded, ModelLoadFails
      <3>2. QED
        BY <1>1, <1>2, <1>3, <1>4, <3>1
    <2>3. CASE ModelLoads
      <3>1. /\ phase = "ai" /\ phase' = "ai" /\ ~loaded /\ loaded' /\ model' = model
        BY <2>3 DEF ModelLoads
      <3>2. QED
        BY <1>1, <1>2, <1>3, <1>4, <3>1
    <2>4. CASE ModelUnloads
      <3>1. /\ phase = "ai" /\ phase' = "ai" /\ loaded /\ ~loaded' /\ model' = model + 1
            /\ model \in Model /\ c = 0
        BY <1>1, <2>4 DEF ModelUnloads, TypeInv
      <3>2. QED
        BY <1>1, <1>2, <1>3, <1>4, <3>1
    <2>5. CASE Phase2Done
      <3>1. /\ phase = "ai" /\ phase' = "finish" /\ ~loaded /\ model = Models + 1 /\ at' = None
        BY <1>2, <2>5 DEF Phase2Done, ShapeInv
      <3>2. QED
        BY <1>1, <1>2, <1>3, <1>4, <3>1
    <2>6. CASE BatchEnd
      BY <1>4, <1>5, <2>6 DEF BatchEnd, Ended
    <2>7. QED
      BY <1>7, <2>1, <2>2, <2>3, <2>4, <2>5, <2>6 DEF BatchStep
  <1>8. CASE BatchDies
    BY <1>4, <1>5, <1>8 DEF BatchDies, Ended
  <1>9. CASE BatchStart \/ Reset \/ \E p \in Photo : Ingested(p) \/ Exported(p)
    BY <1>9 DEF BatchStart, Reset, Ingested, Exported
  <1>10. QED
    BY <1>6, <1>7, <1>8, <1>9 DEF Next

(* Every step of a batch leaves less to do, however many photos and models *)
(* there are and whatever fails: no batch goes on for ever.                *)
THEOREM BatchesEnd == Spec => BatchEnds
  <1>1. Init => PartInv
    BY DEF Init, PartInv
  <1>2. Spec => []EnhanceInv
    BY EnhanceCorrect
  <1>3. EnhanceInv => TypeInv /\ ShapeInv
    BY DEF EnhanceInv
  <1>4. EnhanceInv /\ PartInv /\ [Next]_vars => PartInv'
    BY PartStep DEF EnhanceInv
  <1>5. EnhanceInv /\ EnhanceInv' /\ PartInv /\ PartInv' /\ [Next]_vars
          => [phase # "idle" => WorkLeft' < WorkLeft]_vars
    BY LessLeft DEF EnhanceInv
  <1>6. Spec => [][phase # "idle" => WorkLeft' < WorkLeft]_vars
    BY <1>1, <1>2, <1>4, <1>5, PTL DEF Spec
  <1>7. QED
    BY <1>6 DEF BatchEnds
=============================================================================
