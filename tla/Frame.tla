-------------------------------- MODULE Frame --------------------------------
(***************************************************************************)
(* One photo's way from its file to its share JPEG: decoded, and if it is  *)
(* a RAW developed, measured, planned, run through the classical steps and *)
(* the AI models, resized, finished, perhaps done again with the safe      *)
(* plan, rendered and exported.  Enhance says how a batch of photos goes   *)
(* through these phases and what failures leave behind; here the subject   *)
(* is the frame: its size, the place of its faces, and the steps it has    *)
(* been through.                                                           *)
(***************************************************************************)
EXTENDS Planner, Decode, FiniteSetsExt

CONSTANTS
    Shots,          \* the photos and settings to start from, see Init
    Tile, Overlap,              \* RealEsrganModel
    ScunetTile, ScunetPad,      \* settings.scunet_tile, scunet_tile_pad
    Multiple,                   \* denoise._MULTIPLE
    FaceEdge,                   \* settings.codeformer_max_long_edge
    PreviewEdge                 \* settings.preview_long_edge

\* Shares and saturation are in 1/1000, luma in 8-bit steps.
Histogram == [black : Nat, shadow : Nat, mid : Nat, bright : Nat, blown : Nat]
Pictures == [zones : Histogram, range : 0..255, local : Nat, cast : Nat, rg : Nat, bg : Nat,
             neutral : Nat, saturation : 0..1000, oversaturated : 0..1000, chroma : Nat,
             sharp : Nat, top : Nat, lumaNoise : Nat, chromaNoise : Nat]
Targets == [kind : {"native"}] \cup [kind : {"percent"}, percent : Int]
             \cup [kind : {"size"}, size : [w : Int, h : Int]]
\* Left out: a TIFF whose name says JPEG, which Pillow opens as well.
Files == {f \in [ext : Kinds \cup {"txt"}, content : Kinds \cup {"junk"}, turned : BOOLEAN,
                 embedded : {"jpeg", "none"}, samples : Nat, depth : {"u8", "u16", "float"},
                 profile : {"none", "linear"}] :
             f.content = "tiff" => f.ext \notin {"jpeg", "png", "heic"}}
ASSUME FrameAssumption ==
    /\ PreviewEdge \in Nat /\ FaceEdge \in Nat
    /\ ScunetTile \in Nat \ {0} /\ Multiple \in Nat \ {0}
    /\ ScunetPad \in Nat /\ 2 * ScunetPad >= Multiple
    /\ Tile \in Nat \ {0} /\ Overlap \in Nat /\ 2 * Overlap <= Tile
    /\ \A x \in Shots :
        /\ x.file \in Files
        /\ x.picture \in Pictures
        /\ x.native \in [w : Nat \ {0}, h : Nat \ {0}]
        /\ \A i \in DOMAIN x.faces : /\ x.faces[i].box \in [x : Int, y : Int, w : Nat, h : Nat]
                                     /\ {x.faces[i].drifts, x.faces[i].embeds} \subseteq BOOLEAN
        /\ x.settings.target \in Targets
        /\ x.settings.heicOk \in BOOLEAN /\ x.settings.jpegLongEdge \in Int
        /\ x.settings.denoiseStrength \in 0..1000 /\ x.settings.aiScale \in Nat

VARIABLES
    shot,       \* the photo: file, native size, picture, faces, iso, settings
    at,         \* how far it has come
    preview,    \* the size of the preview JPEG, or NoPreview
    boxes,      \* WorkItem.face_boxes: the faces in the developed frame
    plan,       \* WorkItem.plan, its names
    size,       \* the size of the intermediate, or of the result
    done,       \* the steps the picture has been through
    pending,    \* the AI steps still to run, in order
    aiScaled,   \* WorkItem.ai_scaled
    face,       \* what CodeFormer did to each face
    share       \* the share JPEG

vars == <<shot, at, preview, boxes, plan, size, done, pending, aiScaled, face, share>>
frame == <<boxes, plan, size, done, pending, aiScaled, face>>

s == shot.settings
NoPreview == [w |-> 0, h |-> 0]
FaceIds == DOMAIN shot.faces
Untouched == [i \in FaceIds |-> "as shot"]

Init ==
    /\ shot \in Shots
    /\ at = "incoming" /\ preview = NoPreview /\ boxes = <<>> /\ plan = {}
    /\ size = shot.native /\ done = <<>> /\ pending = <<>> /\ aiScaled = FALSE
    /\ face = Untouched /\ share = NoShare

\* The pictures the decoder cannot read are logged and left out.
Ingest ==
    /\ at = "incoming" /\ Walked(shot.file, s.heicOk)
    /\ IF DecodePreview(shot.file, s.heicOk) = Broken
       THEN at' = "refused" /\ UNCHANGED preview
       ELSE at' = "ingested" /\ preview' = CapLongEdge(shot.native, PreviewEdge)
    /\ UNCHANGED <<shot, frame, share>>

\* cache/ is the user's to clear.
LosePreview ==
    /\ at = "ingested" /\ preview # NoPreview
    /\ preview' = NoPreview
    /\ UNCHANGED <<shot, at, frame, share>>

-----------------------------------------------------------------------------
(* Phase 1: develop, find the faces again, plan, run the classical steps   *)
(* that come before the models.                                            *)

Kind == ClassifyKind(shot.file, s.heicOk)

FaceBoxes ==
    IF preview = NoPreview THEN <<>>
    ELSE [i \in FaceIds |-> ScaledBox(shot.faces[i].box, preview, shot.native)]
FaceInfos ==
    {[box |-> Cut(FaceBoxes[i], shot.native), sharp |-> shot.faces[i].sharp] :
        i \in {j \in DOMAIN FaceBoxes : Visible(FaceBoxes[j], shot.native)}}

Phase1 ==
    /\ at = "ingested" /\ Kind = "raw"
    /\ boxes' = FaceBoxes
    /\ plan' = PlanFromReport(Measured(shot.picture, shot.native), FaceInfos, shot.iso,
                              shot.native, s)
    /\ pending' = Models(plan')
    /\ done' = PreAi(plan')
    /\ size' = shot.native /\ at' = "planned"
    /\ UNCHANGED <<shot, preview, aiScaled, face, share>>

-----------------------------------------------------------------------------
(* Phase 2.  A model whose weights are missing hands the frame through     *)
(* unchanged (Real-ESRGAN: enlarged with Lanczos).                         *)

\* Mutant of Shrunk: at every model instead of the first.
ShrunkAgain == Scaled(size, s.aiScale, 1000)
Reduced == s.aiScale < 999
Shrunk == IF Reduced /\ ~aiScaled THEN Scaled(size, s.aiScale, 1000) ELSE size

Axis(edge) == \A t \in Cores(edge, ScunetTile) :
    CanReflect(ContextEnd(t, edge, ScunetTile, ScunetPad) - ContextStart(t, ScunetPad), Multiple)

NextModel(name) ==
    /\ at = "planned" /\ pending # <<>> /\ Head(pending) = name
    /\ Shrunk.w > 0 /\ Shrunk.h > 0
    /\ pending' = Tail(pending)
    /\ done' = Append(done, name)
    /\ aiScaled' = (aiScaled \/ Reduced)
    /\ UNCHANGED <<shot, at, preview, boxes, plan, share>>

Loaded(name) == name \in s.weights
CanDenoise == Loaded("scunet_denoise") => Axis(Shrunk.w) /\ Axis(Shrunk.h)
CanRestore == LET cap == CapForFaces(Shrunk, FaceEdge)
              IN Loaded("codeformer_restore") => cap.w > 0 /\ cap.h > 0

Denoise ==
    /\ NextModel("scunet_denoise") /\ CanDenoise
    /\ size' = Shrunk
    /\ UNCHANGED face

Upscale ==
    /\ NextModel("realesrgan_upscale")
    /\ size' = [w |-> 2 * Shrunk.w, h |-> 2 * Shrunk.h]
    /\ UNCHANGED face

\* CodeFormer restores every face its own detector finds; the identity guard
\* then looks at the boxes it was given and pastes the original back where the
\* face has become another one.  It needs ArcFace, and where ArcFace raises on
\* a crop, before or after, the restored one is kept.
\* Mutant of GuardBox: where the face was on the developed frame.
GuardBoxUnscaled(i) == boxes[i]
GuardBox(i) == ScaledBox(boxes[i], shot.native, Shrunk)
Guarded(i) == s.arcface /\ i \in DOMAIN boxes /\ Visible(GuardBox(i), Shrunk)
Recognised(i) == Guarded(i) /\ shot.faces[i].embeds
Restored(i) == IF Recognised(i) /\ shot.faces[i].drifts THEN "reverted" ELSE "restored"

RestoreFaces ==
    /\ NextModel("codeformer_restore") /\ CanRestore
    /\ size' = Shrunk
    /\ face' = IF Loaded("codeformer_restore") THEN [i \in FaceIds |-> Restored(i)] ELSE face

\* A model step that raises: an empty frame, or a tile too small to reflect.
ModelRaises ==
    /\ at = "planned" /\ pending # <<>>
    /\ \/ Shrunk.w = 0 \/ Shrunk.h = 0
       \/ Head(pending) = "scunet_denoise" /\ ~CanDenoise
       \/ Head(pending) = "codeformer_restore" /\ ~CanRestore
    /\ at' = "failed"
    /\ UNCHANGED <<shot, preview, frame, share>>

-----------------------------------------------------------------------------
(* Phase 3.                                                                *)

Resized == IF plan \cap AI # {} THEN Target(s.target, shot.native) ELSE size

Finish ==
    /\ at = "planned" /\ pending = <<>>
    /\ size' = Resized
    /\ done' = done \o PostAi(plan)
    /\ at' = "finished"
    /\ UNCHANGED <<shot, preview, boxes, plan, pending, aiScaled, face, share>>

RetryPlan == SafePlan(plan)

\* The verifier found the result degraded and takes the safe plan instead,
\* run_plan from a new development.
Retry ==
    /\ at = "finished"
    /\ plan' = RetryPlan
    /\ done' = PreAi(plan') \o PostAi(plan')
    /\ size' = shot.native
    /\ face' = Untouched
    /\ at' = "retried"
    /\ UNCHANGED <<shot, preview, boxes, pending, aiScaled, share>>

-----------------------------------------------------------------------------
(* Export of the original (or, for a RAW, of a render, which is upright).  *)

Render == [shot.file EXCEPT !.ext = "jpeg", !.content = "jpeg", !.turned = FALSE]
SourceJpeg == IF at \in {"failed", "finished", "retried"} THEN Render ELSE shot.file

Export ==
    /\ at \in {"ingested", "failed", "finished", "retried"}
    /\ share' = ConvertImage(SourceJpeg, s.heicOk, s.jpegLongEdge)
    /\ at' = "exported"
    /\ UNCHANGED <<shot, preview, frame>>

Next ==
    \/ Ingest \/ LosePreview \/ Phase1
    \/ Denoise \/ Upscale \/ RestoreFaces \/ ModelRaises
    \/ Finish \/ Retry \/ Export

Spec == Init /\ [][Next]_vars

-----------------------------------------------------------------------------
(* Properties.                                                             *)

Finished == at \in {"finished", "retried"}

\* What has been done to a finished frame is what the plan lists, each step
\* once and in the plan's order, although planner and phases sort the steps
\* independently of each other (decision.py, runner._PRE_AI, batch.AI_ORDER).
DoneAsPlanned == Finished => done = Listed(plan)

\* A finished frame has the size enhance_target_res asks for, native or a
\* percentage of at least 100, whether a model ran at a reduced scale or none
\* was needed; the safe retry keeps the native size.  However many models run,
\* the frame is shrunk to their scale once, not by each of them.
SizeAsAsked ==
    /\ at = "planned" /\ aiScaled =>
          LET shrunk == Scaled(shot.native, s.aiScale, 1000)
          IN size = IF "realesrgan_upscale" \in plan \ {pending[i] : i \in DOMAIN pending}
                    THEN [w |-> 2 * shrunk.w, h |-> 2 * shrunk.h] ELSE shrunk
    /\ /\ at = "finished"
       /\ s.target.kind = "native" \/ (s.target.kind = "percent" /\ s.target.percent >= 100)
       => size = Target(s.target, shot.native)
    /\ at = "retried" => size = shot.native /\ plan \cap AI = {}

FinishedAsPlanned == DoneAsPlanned /\ SizeAsAsked

\* Wherever the detector put a face on the preview, its box lies in the
\* developed frame and in what CodeFormer is given (geometry.py, batch.py:241).
BoxInside(b, f) == b.x \in 0..(f.w - 1) /\ b.x + b.w <= f.w
                   /\ b.y \in 0..(f.h - 1) /\ b.y + b.h <= f.h
BoxesInFrame ==
    \A i \in DOMAIN boxes :
        /\ BoxInside(boxes[i], shot.native)
        /\ at = "planned" /\ Shrunk.w > 0 /\ Shrunk.h > 0 => BoxInside(GuardBox(i), Shrunk)

\* A face that was there on the preview keeps local contrast away from the
\* frame, and if restoring it made it another face, the original is put back,
\* unless ArcFace is not there or raises on its crop (decision.py:235,
\* face_restore.py:42-62): its box must have survived the rounding from preview
\* to frame and from there to the scale of the models (where a face of which
\* less than one pixel was in the picture is none), whatever happens to others.
SeenFaces == {i \in DOMAIN boxes : Visible(shot.faces[i].box, preview)}
PixelLeft(b) == Smaller(b.w, b.h) * Smaller(s.aiScale, 1000) >= 1000
FacesAreSafe ==
    /\ BoxesInFrame
    /\ SeenFaces # {} => "clahe_local_contrast" \notin plan
    /\ s.arcface => \A i \in SeenFaces :
           /\ shot.faces[i].drifts /\ shot.faces[i].embeds
           /\ PixelLeft(Cut(shot.faces[i].box, preview))
           => face[i] # "restored"

\* The windows of Real-ESRGAN cover an axis of the frame, each of them has
\* exactly the tile's size, and between two neighbouring pixels the share of a
\* window in the result changes by less than two steps of the fade, so that no
\* tile shows (tiling.py).
Weight(p, w, length) ==
    LET n == Smaller(w + Tile, length) - w
    IN IF p \in Pixels(w, length, Tile)
       THEN Ramp(p - w, n, Smaller(Overlap, n), w = 0, w + Tile >= length) ELSE 0
SumOfWeights(p, length) == MapThenSumSet(LAMBDA w : Weight(p, w, length), Windows(length, Tile, Overlap))
SeamFree(length) ==
    \A p \in 0..(length - 1) :
        /\ \E w \in Windows(length, Tile, Overlap) : p \in Pixels(w, length, Tile)
        /\ p + 1 < length => \A w \in Windows(length, Tile, Overlap) :
              Apart(Weight(p, w, length) * SumOfWeights(p + 1, length),
                    Weight(p + 1, w, length) * SumOfWeights(p, length)) * (Overlap + 1)
                < 2 * SumOfWeights(p, length) * SumOfWeights(p + 1, length)

\* A model step fails for the geometry of the frame only when an edge, at the
\* scale of the models, is no longer than the context of a tile, or when the
\* cap for the face detector leaves nothing of it (denoise.py, face_restore.py).
FailsWhenTooNarrow ==
    at = "failed" => \/ Smaller(Shrunk.w, Shrunk.h) <= ScunetPad
                     \/ LongEdge(Shrunk) > FaceEdge * Smaller(Shrunk.w, Shrunk.h)
NoSeams ==
    /\ at = "planned" /\ pending # <<>> /\ Head(pending) = "realesrgan_upscale"
          => SeamFree(Shrunk.w) /\ SeamFree(Shrunk.h)
    /\ FailsWhenTooNarrow

\* A picture whose bytes name its format is taken in under any supported
\* extension, and except for a TIFF it is shown upright and in its own tones
\* by the preview, the thumbnail and the share JPEG (decode.py, jpeg_writer.py).
ShownAsShot ==
    /\ at = "refused" => shot.file.content \notin {"jpeg", "png"}
    /\ preview # NoPreview /\ Kind # "tiff" =>
          DecodePreview(shot.file, s.heicOk) = Upright /\ ThumbOf(shot.file, s.heicOk) = Upright
    /\ share # NoShare /\ Kind # "tiff" =>
          share.made = "jpeg" /\ ShownUpright(share) /\ share.tone = "display"

\* Every score lies in 0..100 (scoring.py:3) and every amount in the band of
\* its step, whatever was measured.
Measures == Measured(shot.picture, shot.native)
InBand(r) ==
    LET a == Amount(r, s)
    IN /\ "exposure_gamma" \in plan => a.exposure_gamma \in -400..600
       /\ "shadow_lift" \in plan => a.shadow_lift \in 0..500
       /\ "saturation_adjust" \in plan => a.saturation_adjust \in 700..1250
       /\ "white_balance" \in plan => a.white_balance \in 1..500
       /\ "scunet_denoise" \in plan => a.scunet_denoise \in 0..950
       /\ a.highlight_rolloff \in 300..700 /\ a.unsharp_mask \in 200..1000
       /\ a.clahe_local_contrast \in 1500..2000
NumbersInRange ==
    /\ InBand(Measures)
    /\ \A x \in {ScoreExposure(Measures), ScoreDynamicRange(Measures), ScoreColor(Measures),
                  ScoreSharpness(Measures), ScoreNoise(Measures), Score(Measures)} : 0 <= x /\ x <= 100000
=============================================================================
