------------------------------- MODULE Planner -------------------------------
(***************************************************************************)
(* What is measured of a frame, how it is scored, and the plan of steps    *)
(* drawn from it (src/app/enhancement/engine: metrics.py, scoring.py,      *)
(* decision.py, runner.py; verify.py).  Numbers are integers: luma and     *)
(* dynamic range in their 8-bit steps, shares and ratios in 1/1000, noise  *)
(* in 1/10, Laplacian variances whole, scores in 1/1000 of a point.  A     *)
(* frame is known by what the metrics can see of it: how many pixels fall  *)
(* into the five zones of the luma histogram, and the values the image     *)
(* kernels return.                                                         *)
(***************************************************************************)
EXTENDS Geometry, Sequences

None == -1
Clip(x, low, high) == Larger(low, Smaller(high, x))
Apart(a, b) == IF a >= b THEN a - b ELSE b - a

-----------------------------------------------------------------------------
(* Metrics.                                                                *)

Zones == {"black", "shadow", "mid", "bright", "blown"}
Luma == [black |-> 3, shadow |-> 35, mid |-> 128, bright |-> 220, blown |-> 253]
Total(h) == h.black + h.shadow + h.mid + h.bright + h.blown

ExposureMetrics(h) ==
    IF Total(h) = 0
    THEN [mean |-> 0, shadow |-> 0, highlight |-> 0, deviation |-> 1000]
    ELSE LET share(z) == (1000 * h[z]) \div Total(h)
         IN [mean |-> (h.black * Luma.black + h.shadow * Luma.shadow + h.mid * Luma.mid
                         + h.bright * Luma.bright + h.blown * Luma.blown) \div Total(h),
             shadow |-> share("black"), highlight |-> share("blown"),
             deviation |-> IF share("mid") \in 500..750 THEN 0
                           ELSE Smaller(1000, 8 * Apart(share("mid"), 625))]

\* Every measure taken per 16x16 block needs one whole block.
HasBlocks(size) == size.w >= 16 /\ size.h >= 16
LocalRange(pic, size) == IF HasBlocks(size) THEN pic.local ELSE pic.range
TopSharpness(pic, size) == IF HasBlocks(size) THEN pic.top ELSE pic.sharp
FlatPatchStd(sigma, size) == IF HasBlocks(size) THEN sigma ELSE 0

\* How far the near-neutral pixels are off grey; None below 2 % of them.
NeutralCast(pic) ==
    IF pic.neutral >= 20 THEN Larger(Apart(pic.rg, 1000), Apart(pic.bg, 1000)) ELSE None

Measured(pic, size) ==
    LET e == ExposureMetrics(pic.zones)
    IN [mean |-> e.mean, shadow |-> e.shadow, highlight |-> e.highlight,
        deviation |-> e.deviation, range |-> pic.range, local |-> LocalRange(pic, size),
        cast |-> pic.cast, neutralCast |-> NeutralCast(pic), saturation |-> pic.saturation,
        oversaturated |-> pic.oversaturated, chroma |-> pic.chroma,
        sharp |-> pic.sharp, top |-> TopSharpness(pic, size),
        noise |-> Larger(FlatPatchStd(pic.lumaNoise, size),
                         FlatPatchStd(pic.chromaNoise, size) \div 2)]

-----------------------------------------------------------------------------
(* Scores.                                                                 *)

ScoreExposure(r) ==
    LET off == IF r.mean < 90 THEN 90 - r.mean ELSE Larger(0, r.mean - 170)
    IN Larger(0, 100000 - (1500 * r.shadow + 1500 * r.highlight + 30 * r.deviation
                           + Smaller(25000, 300 * off)))

ScoreDynamicRange(r) ==
    IF r.range < 80 THEN 1000 * r.range
    ELSE IF r.range <= 150 THEN 100000 - (10000 * Apart(r.range, 115)) \div 35
    ELSE Larger(70000, 100000 - 300 * (r.range - 150))

ScoreColor(r) ==
    LET saturation == IF r.saturation < 250 THEN 250 - r.saturation
                      ELSE Larger(0, r.saturation - 550)
    IN Larger(0, 100000 - 400 * Larger(0, r.cast - 50) - 100 * saturation
                        - 200 * Larger(0, r.oversaturated - 50))

ScoreSharpness(r) ==
    IF r.sharp >= 150 THEN Larger(75000, 100000 - 50 * Larger(0, r.sharp - 400))
    ELSE IF r.sharp >= 50 THEN 50000 + 500 * (r.sharp - 50)
    ELSE 1000 * r.sharp

\* Mutant of ScoreNoise: no floor under the last segment.
ScoreNoiseUnfloored(r) ==
    IF r.noise <= 20 THEN 100000 - 250 * r.noise
    ELSE IF r.noise <= 50 THEN 95000 - 1000 * (r.noise - 20)
    ELSE IF r.noise <= 100 THEN 65000 - 800 * (r.noise - 50)
    ELSE 25000 - 200 * (r.noise - 100)
ScoreNoise(r) ==
    IF r.noise <= 20 THEN 100000 - 250 * r.noise
    ELSE IF r.noise <= 50 THEN 95000 - 1000 * (r.noise - 20)
    ELSE IF r.noise <= 100 THEN 65000 - 800 * (r.noise - 50)
    ELSE Larger(0, 25000 - 200 * (r.noise - 100))

Score(r) == (25 * ScoreExposure(r) + 20 * ScoreDynamicRange(r) + 25 * ScoreColor(r)
             + 15 * ScoreSharpness(r) + 15 * ScoreNoise(r)) \div 100

-----------------------------------------------------------------------------
(* Amounts of the steps, in 1/1000.                                        *)

Deficit(metric, low, high) == Clip((1000 * (metric - low)) \div (high - low), 0, 1000)

Gain(r) == IF r.mean < 90 THEN Smaller(600, (800 * (90 - r.mean)) \div 90)
           ELSE -Smaller(400, (500 * (r.mean - 200)) \div 55)
ShadowLift(r) == Deficit(r.shadow, 20, 150) \div 2
Rolloff(r) == 300 + (400 * Deficit(r.range, 150, 220)) \div 1000
Grey(r) == Smaller(500, (5 * (r.neutralCast - 120)) \div 2)
Oversaturated(r) == r.oversaturated > 50 \/ r.saturation > 550
Saturation(r) ==
    IF Oversaturated(r)
    THEN Larger(700, 1000 - (3 * Larger(r.oversaturated - 50, Larger(0, r.saturation - 550))) \div 2)
    ELSE Smaller(1250, 1000 + 250 - r.saturation)
DenoiseStrength(r, s) == Larger((600 * s.denoiseStrength) \div 1000, Smaller(950, 500 + 5 * (r.noise - 20)))
Unsharp(r) == 200 + (800 * Deficit(150 - r.top, 0, 120)) \div 1000
ClaheClip(r) ==
    IF r.local < 80 THEN Smaller(2000, 1600 + (1400 * Deficit(80 - r.local, 0, 50)) \div 1000)
    ELSE 1500

-----------------------------------------------------------------------------
(* The plan.  `faces` are the boxes of the faces with their sharpness.     *)

Noisy(r, iso) == r.noise > 40 \/ (r.noise > 20 /\ (iso = None \/ iso >= 800))
Enlarging(s, native) == LongEdge(Target(s.target, native)) > LongEdge(native)
NeedsSr(s, native) == Enlarging(s, native) \/ LongEdge(native) < s.srMinLongEdge
Degraded(f, r, iso, s) ==
    Larger(f.box.w, f.box.h) < s.faceMaxPx \/ f.sharp < 100 \/ Noisy(r, iso)

LocalContrast(r, faces) == faces = {} /\ r.range < 150

\* Which steps a report asks for ...
Wanted(r, faces, iso, native, s) ==
    [backlit_recover |-> s.backlit /\ r.shadow >= 180 /\ r.highlight >= 100,
     exposure_gamma |-> r.mean < 90 \/ r.mean > 200,
     shadow_lift |-> r.shadow > 20 /\ r.mean >= 90,
     highlight_recover |-> r.highlight > 10,
     highlight_rolloff |-> r.range > 150,
     white_balance |-> r.neutralCast > 120,
     saturation_adjust |-> Oversaturated(r) \/ (r.saturation < 250 /\ r.chroma >= 10),
     scunet_denoise |-> s.denoise /\ Noisy(r, iso),
     realesrgan_upscale |-> NeedsSr(s, native),
     codeformer_restore |-> s.faceRestore /\ \E f \in faces : Degraded(f, r, iso, s),
     unsharp_mask |-> r.top < 150,
     clahe_local_contrast |-> LocalContrast(r, faces)]
PlanFromReport(r, faces, iso, native, s) ==
    LET wanted == Wanted(r, faces, iso, native, s) IN {n \in DOMAIN wanted : wanted[n]}

\* ... how strongly ...
Amount(r, s) ==
    [exposure_gamma |-> Gain(r), shadow_lift |-> ShadowLift(r),
     highlight_recover |-> Deficit(r.highlight, 10, 100), highlight_rolloff |-> Rolloff(r),
     white_balance |-> Grey(r), saturation_adjust |-> Saturation(r),
     scunet_denoise |-> DenoiseStrength(r, s), unsharp_mask |-> Unsharp(r),
     clahe_local_contrast |-> ClaheClip(r)]

\* ... and in which order the plan lists them.
Step(n, plan) == IF n \in plan THEN <<n>> ELSE <<>>
Listed(plan) ==
    Step("backlit_recover", plan) \o Step("exposure_gamma", plan) \o Step("shadow_lift", plan)
      \o Step("highlight_recover", plan) \o Step("highlight_rolloff", plan)
      \o Step("white_balance", plan) \o Step("saturation_adjust", plan)
      \o Step("scunet_denoise", plan) \o Step("realesrgan_upscale", plan)
      \o Step("codeformer_restore", plan)
      \o Step("unsharp_mask", plan) \o Step("clahe_local_contrast", plan)

-----------------------------------------------------------------------------
(* Which part of the chain runs a step.                                    *)

PRE_AI == {"exposure_gamma", "shadow_lift", "highlight_recover", "backlit_recover",
           "highlight_rolloff", "white_balance", "saturation_adjust"}
AI == {"scunet_denoise", "realesrgan_upscale", "codeformer_restore"}
POST_AI == {"unsharp_mask", "clahe_local_contrast"}
SAFE_STEPS == {"exposure_gamma", "shadow_lift", "highlight_recover", "backlit_recover",
               "highlight_rolloff"}

PreAi(plan) == Listed(plan \cap PRE_AI)
\* The batch goes through the models in an order of its own, AI_ORDER.
Models(plan) ==
    Step("scunet_denoise", plan) \o Step("realesrgan_upscale", plan)
      \o Step("codeformer_restore", plan)
PostAi(plan) == Listed(plan \cap POST_AI)
SafePlan(plan) == plan \cap SAFE_STEPS
=============================================================================
