---------------------------- MODULE FrameProofs ----------------------------
(***************************************************************************)
(* Proofs about Frame: the arithmetic of windows and boxes, for every      *)
(* length, tile, overlap and frame; the numbers of the planning engine,    *)
(* for every picture; the steps and sizes of a frame, the boxes of its     *)
(* faces, and the formats of its file.                                     *)
(***************************************************************************)
EXTENDS Frame, FiniteSetTheorems, SequenceTheorems, WellFoundedInduction, TLAPS

(***************************************************************************)
(* Geometry                                                                *)
(***************************************************************************)

\* Euclid: the multiple of d at or below n.
LEMMA Division ==
    ASSUME NEW n \in Nat, NEW d \in Nat, d > 0
    PROVE  /\ n \div d \in Nat /\ n % d \in 0..(d - 1)
           /\ n = d * (n \div d) + (n % d) /\ n \div d <= n
<1>1. n \div d \in Nat /\ n % d \in 0..(d - 1) /\ n = d * (n \div d) + (n % d)
  OBVIOUS
<1>2. \A q \in Nat : q <= d * q
  OBVIOUS
<1> QED BY <1>1, <1>2

\* The windows Real-ESRGAN runs on leave no pixel of the frame out
\* (tiling.py, _starts): the shifted last one closes the gap the strides leave.
THEOREM WindowsCover ==
    ASSUME NEW length \in Nat, length > 0, NEW tile \in Nat, tile > 0, NEW overlap \in Nat
    PROVE  \A p \in 0..(length - 1) :
               \E v \in Windows(length, tile, overlap) : p \in Pixels(v, length, tile)
<1> DEFINE stride == Stride(tile, overlap)
<1>1. stride \in 1..tile
  BY DEF Stride, Larger
<1> HIDE DEF stride
<1> SUFFICES ASSUME NEW p \in 0..(length - 1)
             PROVE \E v \in Starts(length, tile, stride) : p \in Pixels(v, length, tile)
  BY DEF Windows, stride
<1>2. CASE length <= tile
  BY <1>2 DEF Starts, Pixels, Smaller
<1>3. CASE length > tile /\ p >= length - tile
  BY <1>3 DEF Starts, Pixels, Smaller
<1>4. CASE length > tile /\ p < length - tile
  <2> DEFINE k == p \div stride
  <2>1. k \in 0..length /\ p = stride * k + (p % stride) /\ p % stride \in 0..(stride - 1)
    BY <1>1, Division
  <2> HIDE DEF k
  <2>2. k * stride \in Int /\ k * stride <= p /\ p < k * stride + stride /\ 0 <= k * stride
    BY <1>1, <2>1
  <2>3. k * stride \in Starts(length, tile, stride)
    BY <1>4, <2>1, <2>2 DEF Starts
  <2>4. p \in Pixels(k * stride, length, tile)
    BY <1>1, <1>4, <2>2 DEF Pixels, Smaller
  <2> QED BY <2>3, <2>4
<1> QED BY <1>2, <1>3, <1>4

\* A window never leaves the frame and holds exactly `tile` pixels unless the
\* whole frame holds fewer: peak memory is that of one tile (tiling.py:5).
THEOREM WindowsFit ==
    ASSUME NEW length \in Nat, length > 0, NEW tile \in Nat, tile > 0, NEW overlap \in Nat,
           NEW v \in Windows(length, tile, overlap)
    PROVE  /\ v \in 0..(length - 1)
           /\ Pixels(v, length, tile) = v .. (v + Smaller(tile, length) - 1)
           /\ v + Smaller(tile, length) <= length
<1>1. CASE length <= tile
  BY <1>1 DEF Windows, Starts, Pixels, Smaller
<1>2. CASE length > tile
  <2>1. v \in 0..(length - tile)
    BY <1>2 DEF Windows, Starts
  <2> QED BY <1>2, <2>1 DEF Pixels, Smaller
<1> QED BY <1>1, <1>2

\* No weight is zero or above one, so that with WindowsCover no pixel is
\* divided by an empty sum (tiling.py:66).
THEOREM RampPositive ==
    ASSUME NEW n \in Nat, NEW i \in 0..(n - 1), NEW k \in 0..n,
           NEW first \in BOOLEAN, NEW last \in BOOLEAN
    PROVE  Ramp(i, n, k, first, last) \in 1..(k + 1)
BY DEF Ramp, Smaller

\* SCUNet writes every pixel of its output exactly once (denoise.py:43-62).
THEOREM CoresPartition ==
    ASSUME NEW length \in Nat, NEW tile \in Nat, tile > 0
    PROVE  \A p \in 0..(length - 1) :
               /\ \E t \in Cores(length, tile) : p \in Core(t, length, tile)
               /\ \A t, u \in Cores(length, tile) :
                      p \in Core(t, length, tile) /\ p \in Core(u, length, tile) => t = u
<1> TAKE p \in 0..(length - 1)
<1>1. \E t \in Cores(length, tile) : p \in Core(t, length, tile)
  <2> DEFINE k == p \div tile
  <2>1. k \in 0..length /\ p = tile * k + (p % tile) /\ p % tile \in 0..(tile - 1)
    BY Division
  <2> HIDE DEF k
  <2>2. k * tile \in Int /\ k * tile <= p /\ p < k * tile + tile /\ 0 <= k * tile
    BY <2>1
  <2>3. k * tile \in Cores(length, tile) /\ p \in Core(k * tile, length, tile)
    BY <2>1, <2>2 DEF Cores, Core, Smaller
  <2> QED BY <2>3
<1>2. ASSUME NEW t \in Cores(length, tile), NEW u \in Cores(length, tile),
             p \in Core(t, length, tile), p \in Core(u, length, tile)
      PROVE  t = u
  <2>1. PICK a \in 0..length : t = a * tile
    BY DEF Cores
  <2>2. PICK b \in 0..length : u = b * tile
    BY DEF Cores
  <2>3. a * tile <= p /\ p < a * tile + tile /\ b * tile <= p /\ p < b * tile + tile
    BY <1>2, <2>1, <2>2 DEF Core, Smaller
  <2>4. ~(a < b) /\ ~(b < a)
    <3>1. \A c, d \in Nat : c < d => c * tile + tile <= d * tile
      OBVIOUS
    <3> QED BY <2>3, <3>1
  <2> QED BY <2>1, <2>2, <2>4
<1> QED BY <1>1, <1>2

\* What a tile hands to the output lies inside what the model was given.
THEOREM CoreInContext ==
    ASSUME NEW length \in Nat, NEW tile \in Nat, tile > 0, NEW pad \in Nat,
           NEW t \in Cores(length, tile)
    PROVE  Core(t, length, tile) \subseteq ContextStart(t, pad) .. (ContextEnd(t, length, tile, pad) - 1)
<1>1. t \in 0..(length - 1)
  BY DEF Cores
<1> QED BY <1>1 DEF Core, ContextStart, ContextEnd, Smaller, Larger

\* Half a multiple of context is enough to reflect any tile up to a multiple,
\* whatever the tile, on a frame longer than the context (denoise.py:54).
THEOREM ContextReflects ==
    ASSUME NEW length \in Nat, NEW tile \in Nat, tile > 0, NEW pad \in Nat, length > pad,
           NEW multiple \in Nat, multiple > 0, 2 * pad >= multiple,
           NEW t \in Cores(length, tile)
    PROVE  CanReflect(ContextEnd(t, length, tile, pad) - ContextStart(t, pad), multiple)
<1> DEFINE n == ContextEnd(t, length, tile, pad) - ContextStart(t, pad)
<1>1. t \in 0..(length - 1)
  BY DEF Cores
<1>2. n \in Nat /\ n > pad
  BY <1>1 DEF ContextStart, ContextEnd, Smaller, Larger
<1> HIDE DEF n
<1>3. n % multiple \in 0..(multiple - 1) /\ (n < multiple => n % multiple = n)
  BY <1>2
<1>4. Reflected(n, multiple) <= multiple - 1
      /\ (n < multiple => Reflected(n, multiple) = multiple - n)
  BY <1>2, <1>3 DEF Reflected
<1>5. CanReflect(n, multiple)
  BY <1>2, <1>3, <1>4 DEF CanReflect, Reflected
<1> QED BY <1>5 DEF n

\* Rounding stays next to the quotient.
LEMMA RoundedInt ==
    ASSUME NEW n \in Int, NEW d \in Nat, d > 0
    PROVE  Rounded(n, d) \in Int
BY DEF Rounded

\* A scaled face box starts inside the new frame and ends inside it, wherever
\* the detector put it (geometry.py:17-24).
THEOREM BoxInFrame ==
    ASSUME NEW b \in [x : Int, y : Int, w : Nat, h : Nat],
           NEW src \in [w : Nat, h : Nat], NEW dst \in [w : Nat, h : Nat],
           dst.w > 0, dst.h > 0
    PROVE  LET c == ScaledBox(b, src, dst)
           IN /\ c.x \in 0..(dst.w - 1) /\ c.x + c.w <= dst.w
              /\ c.y \in 0..(dst.h - 1) /\ c.y + c.h <= dst.h
<1> DEFINE rx == Rounded(b.x * dst.w, Larger(src.w, 1))
           ry == Rounded(b.y * dst.h, Larger(src.h, 1))
           rw == Rounded(b.w * dst.w, Larger(src.w, 1))
           rh == Rounded(b.h * dst.h, Larger(src.h, 1))
<1>1. Larger(src.w, 1) \in Nat /\ Larger(src.w, 1) > 0
      /\ Larger(src.h, 1) \in Nat /\ Larger(src.h, 1) > 0
  BY DEF Larger
<1>2. rx \in Int /\ ry \in Int /\ rw \in Int /\ rh \in Int
  <2>1. /\ b.x * dst.w \in Int /\ b.w * dst.w \in Int
        /\ b.y * dst.h \in Int /\ b.h * dst.h \in Int
    OBVIOUS
  <2> HIDE DEF rx, ry, rw, rh
  <2>2. rx \in Int
    BY <1>1, <2>1, RoundedInt DEF rx
  <2>3. ry \in Int
    BY <1>1, <2>1, RoundedInt DEF ry
  <2>4. rw \in Int
    BY <1>1, <2>1, RoundedInt DEF rw
  <2>5. rh \in Int
    BY <1>1, <2>1, RoundedInt DEF rh
  <2> QED BY <2>2, <2>3, <2>4, <2>5
<1>3. ScaledBox(b, src, dst) =
        [x |-> Clamped(rx, dst.w), y |-> Clamped(ry, dst.h),
         w |-> Smaller(rw, dst.w - Clamped(rx, dst.w)), h |-> Smaller(rh, dst.h - Clamped(ry, dst.h))]
  BY DEF ScaledBox
<1> HIDE DEF rx, ry, rw, rh
<1>4. Clamped(rx, dst.w) \in 0..(dst.w - 1) /\ Clamped(ry, dst.h) \in 0..(dst.h - 1)
  BY <1>2 DEF Clamped, Smaller, Larger
<1> QED BY <1>2, <1>3, <1>4 DEF Smaller

(***************************************************************************)
(* Numbers                                                                 *)
(***************************************************************************)

LEMMA Share ==
    ASSUME NEW a \in Nat, NEW b \in Nat, NEW c \in Nat, b > 0, a <= b * c
    PROVE  a \div b \in 0..c
  <1>1. a \div b \in Nat /\ a = b * (a \div b) + (a % b) /\ a % b \in 0..(b - 1)
    BY Division
  <1>2. ASSUME a \div b > c PROVE FALSE
    <2>1. \A q \in Nat : q >= c + 1 => b * q >= b * (c + 1)
      OBVIOUS
    <2>2. b * (a \div b) >= b * (c + 1)
      BY <1>1, <1>2, <2>1
    <2>3. b * (c + 1) = b * c + b /\ b * c \in Nat
      OBVIOUS
    <2>4. QED
      BY <1>1, <2>2, <2>3
  <1>3. QED
    BY <1>1, <1>2

Reports == [mean : 0..255, shadow : 0..1000, highlight : 0..1000, deviation : 0..1000,
            range : 0..255, local : Nat, cast : Nat, neutralCast : Nat \union {None},
            saturation : 0..1000, oversaturated : 0..1000, chroma : Nat, sharp : Nat, top : Nat,
            noise : Nat]

LEMMA ExposureTyped ==
    ASSUME NEW h \in Histogram
    PROVE  LET e == ExposureMetrics(h)
           IN /\ e.mean \in 0..255 /\ e.shadow \in 0..1000 /\ e.highlight \in 0..1000
              /\ e.deviation \in 0..1000
  <1> DEFINE part(z) == (1000 * h[z]) \div Total(h)
             sum == h.black * Luma.black + h.shadow * Luma.shadow + h.mid * Luma.mid
                      + h.bright * Luma.bright + h.blown * Luma.blown
  <1>1. /\ h.black \in Nat /\ h.shadow \in Nat /\ h.mid \in Nat /\ h.bright \in Nat
        /\ h.blown \in Nat
    BY DEF Histogram
  <1>2. CASE Total(h) = 0
    BY <1>2 DEF ExposureMetrics
  <1>3. CASE Total(h) # 0
    <2>1. Total(h) \in Nat /\ Total(h) > 0
      BY <1>1, <1>3 DEF Total
    <2>2. ASSUME NEW n \in Nat, n <= Total(h) PROVE (1000 * n) \div Total(h) \in 0..1000
      <3>1. 1000 * n \in Nat /\ 1000 * n <= Total(h) * 1000
        BY <2>1, <2>2
      <3>2. QED
        BY <2>1, <3>1, Share
    <2> HIDE DEF sum
    <2>3. part("black") \in 0..1000 /\ part("mid") \in 0..1000 /\ part("blown") \in 0..1000
      <3>1. h.black <= Total(h) /\ h.mid <= Total(h) /\ h.blown <= Total(h)
        BY <1>1 DEF Total
      <3>2. (1000 * h.black) \div Total(h) \in 0..1000
        BY <1>1, <2>2, <3>1
      <3>3. (1000 * h.mid) \div Total(h) \in 0..1000
        BY <1>1, <2>2, <3>1
      <3>4. (1000 * h.blown) \div Total(h) \in 0..1000
        BY <1>1, <2>2, <3>1
      <3>5. QED
        BY <3>2, <3>3, <3>4
    <2>4. sum \div Total(h) \in 0..255
      <3>1. sum \in Nat /\ sum <= Total(h) * 255
        BY <1>1 DEF sum, Luma, Total
      <3>2. QED
        BY <2>1, <3>1, Share
    <2>5. ExposureMetrics(h) =
            [mean |-> sum \div Total(h), shadow |-> part("black"), highlight |-> part("blown"),
             deviation |-> IF part("mid") \in 500..750 THEN 0
                           ELSE Smaller(1000, 8 * Apart(part("mid"), 625))]
      BY <1>3 DEF ExposureMetrics, sum
    <2> HIDE DEF part
    <2>6. (IF part("mid") \in 500..750 THEN 0 ELSE Smaller(1000, 8 * Apart(part("mid"), 625)))
            \in 0..1000
      BY <2>3 DEF Smaller, Apart
    <2>7. QED
      BY <2>3, <2>4, <2>5, <2>6
  <1>4. QED
    BY <1>2, <1>3

LEMMA MeasuredTyped ==
    ASSUME NEW pic \in Pictures, NEW n \in [w : Nat \ {0}, h : Nat \ {0}]
    PROVE  Measured(pic, n) \in Reports
  <1>1. /\ pic.zones \in Histogram /\ pic.range \in 0..255 /\ pic.local \in Nat
        /\ pic.cast \in Nat /\ pic.rg \in Nat /\ pic.bg \in Nat /\ pic.saturation \in 0..1000
        /\ pic.oversaturated \in 0..1000 /\ pic.chroma \in Nat /\ pic.sharp \in Nat
        /\ pic.top \in Nat /\ pic.lumaNoise \in Nat /\ pic.chromaNoise \in Nat
    BY DEF Pictures
  <1>2. NeutralCast(pic) \in Nat \union {None}
    BY <1>1 DEF NeutralCast, Larger, Apart
  <1>3. LocalRange(pic, n) \in Nat /\ TopSharpness(pic, n) \in Nat
    BY <1>1 DEF LocalRange, TopSharpness
  <1>4. Larger(FlatPatchStd(pic.lumaNoise, n), FlatPatchStd(pic.chromaNoise, n) \div 2) \in Nat
    BY <1>1 DEF FlatPatchStd, Larger
  <1> DEFINE e == ExposureMetrics(pic.zones)
  <1>5. /\ e.mean \in 0..255 /\ e.shadow \in 0..1000 /\ e.highlight \in 0..1000
        /\ e.deviation \in 0..1000
    BY <1>1, ExposureTyped
  <1> HIDE DEF e
  <1>6. QED
    BY <1>1, <1>2, <1>3, <1>4, <1>5 DEF Measured, Reports, e

Percentage(x) == x \in Int /\ 0 <= x /\ x <= 100000

(* Every score lies in 0..100, of whatever report (scoring.py).            *)
THEOREM ScoresInRange ==
    ASSUME NEW r \in Reports
    PROVE  /\ Percentage(ScoreExposure(r)) /\ Percentage(ScoreDynamicRange(r))
           /\ Percentage(ScoreColor(r)) /\ Percentage(ScoreSharpness(r))
           /\ Percentage(ScoreNoise(r)) /\ Percentage(Score(r))
  <1>1. /\ r.mean \in 0..255 /\ r.shadow \in 0..1000 /\ r.highlight \in 0..1000
        /\ r.deviation \in 0..1000 /\ r.range \in 0..255 /\ r.cast \in Nat
        /\ r.saturation \in 0..1000 /\ r.oversaturated \in 0..1000 /\ r.sharp \in Nat
        /\ r.noise \in Nat
    BY DEF Reports
  <1>2. Percentage(ScoreExposure(r))
    <2> DEFINE m == r.mean
               a == r.shadow
               b == r.highlight
               c == r.deviation
               off == IF m < 90 THEN 90 - m ELSE Larger(0, m - 170)
               loss == 1500 * a + 1500 * b + 30 * c + Smaller(25000, 300 * off)
    <2>1. m \in 0..255 /\ a \in 0..1000 /\ b \in 0..1000 /\ c \in 0..1000
      BY <1>1
    <2>2. ScoreExposure(r) = Larger(0, 100000 - loss)
      BY DEF ScoreExposure
    <2> HIDE DEF m, a, b, c
    <2>3. loss \in Nat
      BY <2>1 DEF Larger, Smaller
    <2> HIDE DEF loss
    <2>4. QED
      BY <2>2, <2>3 DEF Percentage, Larger
  <1>3. Percentage(ScoreDynamicRange(r))
    BY <1>1 DEF Percentage, ScoreDynamicRange, Larger, Apart
  <1>4. Percentage(ScoreColor(r))
    <2> DEFINE a == r.cast
               b == r.saturation
               c == r.oversaturated
               off == IF b < 250 THEN 250 - b ELSE Larger(0, b - 550)
               over == Larger(0, a - 50)
               loud == Larger(0, c - 50)
    <2>1. a \in Nat /\ b \in 0..1000 /\ c \in 0..1000
      BY <1>1
    <2>2. ScoreColor(r) = Larger(0, 100000 - 400 * over - 100 * off - 200 * loud)
      BY DEF ScoreColor
    <2> HIDE DEF a, b, c
    <2>3. off \in Nat /\ over \in Nat /\ loud \in Nat
      BY <2>1 DEF Larger
    <2> HIDE DEF off, over, loud
    <2>4. QED
      BY <2>2, <2>3 DEF Percentage, Larger
  <1>5. Percentage(ScoreSharpness(r))
    BY <1>1 DEF Percentage, ScoreSharpness, Larger
  <1>6. Percentage(ScoreNoise(r))
    BY <1>1 DEF Percentage, ScoreNoise, Larger
  <1>7. Percentage(Score(r))
    BY <1>2, <1>3, <1>4, <1>5, <1>6 DEF Percentage, Score
  <1>8. QED
    BY <1>2, <1>3, <1>4, <1>5, <1>6, <1>7

(***************************************************************************)
(* Amounts                                                                 *)
(***************************************************************************)

Bands(steps, a) ==
    /\ "exposure_gamma" \in steps => a.exposure_gamma \in -400..600
    /\ "shadow_lift" \in steps => a.shadow_lift \in 0..500
    /\ "saturation_adjust" \in steps => a.saturation_adjust \in 700..1250
    /\ "white_balance" \in steps => a.white_balance \in 1..500
    /\ "scunet_denoise" \in steps => a.scunet_denoise \in 0..950
    /\ a.highlight_rolloff \in 300..700 /\ a.unsharp_mask \in 200..1000
    /\ a.clahe_local_contrast \in 1500..2000

(* The amounts that grow with a deficit, which lies in 0..1000.            *)
LEMMA ShadowBand ==
    ASSUME NEW r \in Reports
    PROVE  ShadowLift(r) \in 0..500
  <1>1. PICK x \in Nat : x = r.shadow
    BY DEF Reports
  <1>2. Deficit(x, 20, 150) \in 0..1000
    BY DEF Deficit, Clip, Larger, Smaller
  <1>3. QED
    BY <1>1, <1>2 DEF ShadowLift

LEMMA RolloffBand ==
    ASSUME NEW r \in Reports
    PROVE  Rolloff(r) \in 300..700
  <1>1. PICK x \in Nat : x = r.range
    BY DEF Reports
  <1>2. Deficit(x, 150, 220) \in 0..1000
    BY DEF Deficit, Clip, Larger, Smaller
  <1>3. QED
    BY <1>1, <1>2 DEF Rolloff

LEMMA UnsharpBand ==
    ASSUME NEW r \in Reports
    PROVE  Unsharp(r) \in 200..1000
  <1>1. PICK x \in Nat : x = r.top
    BY DEF Reports
  <1>2. Deficit(150 - x, 0, 120) \in 0..1000
    BY DEF Deficit, Clip, Larger, Smaller
  <1>3. QED
    BY <1>1, <1>2 DEF Unsharp

LEMMA ClaheBand ==
    ASSUME NEW r \in Reports
    PROVE  ClaheClip(r) \in 1500..2000
  <1>1. PICK x \in Nat : x = r.local
    BY DEF Reports
  <1>2. Deficit(80 - x, 0, 50) \in 0..1000
    BY DEF Deficit, Clip, Larger, Smaller
  <1>3. QED
    BY <1>1, <1>2 DEF ClaheClip, Smaller

LEMMA AmountsInBand ==
    ASSUME NEW r \in Reports, NEW set, set.denoiseStrength \in 0..1000,
           NEW infos, NEW iso, NEW native,
           NEW steps, steps \subseteq PlanFromReport(r, infos, iso, native, set)
    PROVE  Bands(steps, Amount(r, set))
  <1>1. /\ r.mean \in 0..255 /\ r.shadow \in 0..1000 /\ r.range \in 0..255 /\ r.local \in Nat
        /\ r.neutralCast \in Int /\ r.saturation \in 0..1000 /\ r.oversaturated \in 0..1000
        /\ r.top \in Nat /\ r.noise \in Nat
    BY DEF Reports, None
  <1>2. /\ "exposure_gamma" \in steps => r.mean < 90 \/ r.mean > 200
        /\ "white_balance" \in steps => r.neutralCast > 120
        /\ "saturation_adjust" \in steps => Oversaturated(r) \/ r.saturation < 250
    BY DEF PlanFromReport, Wanted
  <1>3. r.mean < 90 \/ r.mean > 200 => Gain(r) \in -400..600
    BY <1>1 DEF Gain, Smaller
  <1>4. ShadowLift(r) \in 0..500
    BY ShadowBand
  <1>5. Oversaturated(r) \/ r.saturation < 250 => Saturation(r) \in 700..1250
    <2> DEFINE x == r.saturation
               y == r.oversaturated
               over == Larger(y - 50, Larger(0, x - 550))
    <2>2. Saturation(r) = IF y > 50 \/ x > 550 THEN Larger(700, 1000 - (3 * over) \div 2)
                          ELSE Smaller(1250, 1000 + 250 - x)
      BY DEF Saturation, Oversaturated
    <2>1. x \in 0..1000 /\ y \in 0..1000
      BY <1>1
    <2>0. Oversaturated(r) \/ r.saturation < 250 => y > 50 \/ x > 550 \/ x < 250
      BY DEF Oversaturated
    <2> HIDE DEF x, y
    <2>3. CASE y > 50 \/ x > 550
      <3>1. over \in Nat
        BY <2>1, <2>3 DEF Larger
      <3> HIDE DEF over
      <3>2. (3 * over) \div 2 \in Nat
        BY <3>1
      <3>3. QED
        BY <2>2, <2>3, <3>2 DEF Larger
    <2>4. CASE ~(y > 50 \/ x > 550) /\ x < 250
      BY <2>1, <2>2, <2>4 DEF Smaller
    <2>5. QED
      BY <2>0, <2>3, <2>4
  <1>6. r.neutralCast > 120 => Grey(r) \in 1..500
    BY <1>1 DEF Grey, Smaller
  <1>7. DenoiseStrength(r, set) \in 0..950
    <2>1. (600 * set.denoiseStrength) \div 1000 \in 0..600
      OBVIOUS
    <2>2. /\ Smaller(950, 500 + 5 * (r.noise - 20)) \in Int
          /\ Smaller(950, 500 + 5 * (r.noise - 20)) <= 950
      BY <1>1 DEF Smaller
    <2>3. QED
      BY <2>1, <2>2 DEF DenoiseStrength, Larger
  <1>8. Rolloff(r) \in 300..700
    BY RolloffBand
  <1>9. Unsharp(r) \in 200..1000
    BY UnsharpBand
  <1>10. ClaheClip(r) \in 1500..2000
    BY ClaheBand
  <1>11. QED
    BY <1>2, <1>3, <1>4, <1>5, <1>6, <1>7, <1>8, <1>9, <1>10 DEF Bands, Amount

(* Exactly the plan's steps have to be in their bands, and dropping steps  *)
(* from a plan leaves the others where they are.                           *)
NumbersInv == shot \in Shots /\ Bands(plan, Amount(Measures, s))

LEMMA ShotMeasures ==
    ASSUME shot \in Shots
    PROVE  Measures \in Reports /\ s.denoiseStrength \in 0..1000
BY FrameAssumption, MeasuredTyped DEF Measures, s

LEMMA NumbersInit == Init => NumbersInv
<1> SUFFICES ASSUME Init PROVE NumbersInv
  OBVIOUS
<1>1. shot \in Shots /\ plan = {}
  BY DEF Init
<1>2. plan \subseteq PlanFromReport(Measures, {}, 0, 0, s)
  BY <1>1
<1>3. Bands(plan, Amount(Measures, s))
  BY <1>1, <1>2, ShotMeasures, AmountsInBand
<1> QED BY <1>1, <1>3 DEF NumbersInv

LEMMA NumbersStep == NumbersInv /\ [Next]_vars => NumbersInv'
<1> SUFFICES ASSUME NumbersInv, [Next]_vars PROVE NumbersInv'
  OBVIOUS
<1>1. shot' = shot /\ shot \in Shots
  BY DEF NumbersInv, Next, vars, frame, Ingest, LosePreview, Phase1, NextModel, Denoise, Upscale,
         RestoreFaces, ModelRaises, Finish, Retry, Export
<1>2. Measures' = Measures /\ s' = s
  BY <1>1 DEF Measures, s
<1>3. ASSUME plan' \subseteq plan PROVE NumbersInv'
  BY <1>1, <1>2, <1>3 DEF NumbersInv, Bands
<1>4. CASE Phase1
  <2>1. plan' = PlanFromReport(Measures, FaceInfos, shot.iso, shot.native, s)
    BY <1>4 DEF Phase1, Measures
  <2>2. Bands(plan', Amount(Measures, s))
    BY <1>1, <2>1, ShotMeasures, AmountsInBand
  <2> QED BY <1>1, <1>2, <2>2 DEF NumbersInv
<1>5. CASE Retry
  BY <1>3, <1>5 DEF Retry, RetryPlan, SafePlan
<1>6. CASE Ingest \/ LosePreview \/ Denoise \/ Upscale \/ RestoreFaces \/ ModelRaises \/ Finish
           \/ Export \/ UNCHANGED vars
  <2>1. plan' = plan
    BY <1>6 DEF vars, frame, Ingest, LosePreview, NextModel, Denoise, Upscale, RestoreFaces,
                ModelRaises, Finish, Export
  <2> QED BY <1>3, <2>1
<1> QED BY <1>4, <1>5, <1>6 DEF Next

(* Whatever picture was measured, every score lies in 0..100 and every     *)
(* amount of a planned step in the band of its step (scoring.py,           *)
(* decision.py), in the plan and in what the safe retry keeps of it.       *)
THEOREM NumbersHold == Spec => []NumbersInRange
<1>1. NumbersInv => NumbersInRange
  <2> SUFFICES ASSUME NumbersInv PROVE NumbersInRange
    OBVIOUS
  <2>1. InBand(Measures)
    BY DEF NumbersInv, Bands, InBand
  <2>2. Measures \in Reports
    BY ShotMeasures DEF NumbersInv
  <2>3. /\ Percentage(ScoreExposure(Measures)) /\ Percentage(ScoreDynamicRange(Measures))
        /\ Percentage(ScoreColor(Measures)) /\ Percentage(ScoreSharpness(Measures))
        /\ Percentage(ScoreNoise(Measures)) /\ Percentage(Score(Measures))
    BY <2>2, ScoresInRange
  <2> QED BY <2>1, <2>3 DEF NumbersInRange, Percentage
<1> QED BY <1>1, NumbersInit, NumbersStep, PTL DEF Spec

(***************************************************************************)
(* Boxes                                                                   *)
(***************************************************************************)

Frames == [w : Nat, h : Nat]
Boxes == [x : Int, y : Int, w : Nat, h : Nat]

LEMMA RoundedNat ==
    ASSUME NEW n \in Nat, NEW d \in Nat, d > 0
    PROVE  Rounded(n, d) \in Nat
BY Division DEF Rounded

LEMMA ScaledFrame ==
    ASSUME NEW f \in Frames, NEW n \in Nat, NEW d \in Nat, d > 0
    PROVE  Scaled(f, n, d) \in Frames
<1>1. f.w * n \in Nat /\ f.h * n \in Nat
  BY DEF Frames
<1>2. Rounded(f.w * n, d) \in Nat /\ Rounded(f.h * n, d) \in Nat
  BY <1>1, RoundedNat
<1> QED BY <1>2 DEF Scaled, Frames

LEMMA CappedFrame ==
    ASSUME NEW f \in [w : Nat \ {0}, h : Nat \ {0}], NEW cap \in Nat
    PROVE  CapLongEdge(f, cap) \in Frames
<1>1. f \in Frames
  BY DEF Frames
<1>2. LongEdge(f) \in Nat /\ LongEdge(f) > 0
  BY DEF LongEdge, Larger
<1>3. Scaled(f, cap, LongEdge(f)) \in Frames
  BY <1>1, <1>2, ScaledFrame
<1>4. AtLeastOne(Scaled(f, cap, LongEdge(f))) \in Frames
  BY <1>3 DEF AtLeastOne, Larger, Frames
<1> QED BY <1>1, <1>4 DEF CapLongEdge

(* Where a scaled box lies, and that its extent is none the less a number  *)
(* of pixels: it starts before the edge it is cut at.                      *)
LEMMA ScaledBoxInside ==
    ASSUME NEW b \in Boxes, NEW src \in Frames, NEW dst \in Frames, dst.w > 0, dst.h > 0
    PROVE  ScaledBox(b, src, dst) \in Boxes /\ BoxInside(ScaledBox(b, src, dst), dst)
<1> DEFINE c == ScaledBox(b, src, dst)
           rw == Rounded(b.w * dst.w, Larger(src.w, 1))
           rh == Rounded(b.h * dst.h, Larger(src.h, 1))
<1>1. c.x \in 0..(dst.w - 1) /\ c.x + c.w <= dst.w /\ c.y \in 0..(dst.h - 1) /\ c.y + c.h <= dst.h
  BY BoxInFrame DEF Boxes, Frames
<1>2. rw \in Nat /\ rh \in Nat
  <2>1. b.w * dst.w \in Nat /\ b.h * dst.h \in Nat
    BY DEF Boxes, Frames
  <2>2. Larger(src.w, 1) \in Nat /\ Larger(src.w, 1) > 0
        /\ Larger(src.h, 1) \in Nat /\ Larger(src.h, 1) > 0
    BY DEF Larger, Frames
  <2> QED BY <2>1, <2>2, RoundedNat
<1>3. c = [x |-> c.x, y |-> c.y, w |-> Smaller(rw, dst.w - c.x), h |-> Smaller(rh, dst.h - c.y)]
  BY DEF ScaledBox
<1>4. dst.w \in Nat /\ dst.h \in Nat
  BY DEF Frames
<1> HIDE DEF c, rw, rh
<1>5. Smaller(rw, dst.w - c.x) \in Nat /\ Smaller(rh, dst.h - c.y) \in Nat
  BY <1>1, <1>2, <1>4 DEF Smaller
<1>6. c \in Boxes
  BY <1>1, <1>3, <1>4, <1>5 DEF Boxes
<1>7. c \in Boxes /\ BoxInside(c, dst)
  BY <1>1, <1>6 DEF BoxInside
<1> QED BY <1>7 DEF c

(* A box is in the developed frame from Phase1 on; while models run, the   *)
(* frame they are given has a size.                                        *)
BoxesInv ==
    /\ shot \in Shots
    /\ preview \in Frames
    /\ \A i \in DOMAIN boxes : boxes[i] \in Boxes /\ BoxInside(boxes[i], shot.native)
    /\ at = "planned" => size \in Frames

LEMMA ShrunkFrame ==
    ASSUME shot \in Shots, size \in Frames
    PROVE  Shrunk \in Frames
<1>1. s.aiScale \in Nat
  BY FrameAssumption DEF s
<1>2. Scaled(size, s.aiScale, 1000) \in Frames
  BY <1>1, ScaledFrame
<1> QED BY <1>2 DEF Shrunk

LEMMA NativeFrame == ASSUME shot \in Shots
                     PROVE  shot.native \in Frames /\ shot.native.w > 0 /\ shot.native.h > 0
BY FrameAssumption DEF Frames

LEMMA BoxesInit == Init => BoxesInv
BY DEF Init, BoxesInv, NoPreview, Frames

LEMMA BoxesStep == BoxesInv /\ [Next]_vars => BoxesInv'
<1> SUFFICES ASSUME BoxesInv, [Next]_vars PROVE BoxesInv'
  OBVIOUS
<1>0. shot \in Shots /\ preview \in Frames
  BY DEF BoxesInv
<1>1. CASE Ingest
  <2>1. CapLongEdge(shot.native, PreviewEdge) \in Frames
    BY <1>0, FrameAssumption, CappedFrame
  <2>2. preview' \in Frames /\ at' # "planned" /\ shot' = shot /\ boxes' = boxes
    BY <1>0, <1>1, <2>1 DEF Ingest, frame
  <2> QED BY <2>2 DEF BoxesInv
<1>2. CASE LosePreview
  BY <1>2 DEF BoxesInv, LosePreview, frame, NoPreview, Frames
<1>3. CASE Phase1
  <2>1. boxes' = FaceBoxes /\ size' = shot.native /\ UNCHANGED <<shot, preview>>
    BY <1>3 DEF Phase1
  <2>2. ASSUME NEW i \in DOMAIN FaceBoxes
        PROVE  FaceBoxes[i] \in Boxes /\ BoxInside(FaceBoxes[i], shot.native)
    <3>1. i \in FaceIds /\ FaceBoxes[i] = ScaledBox(shot.faces[i].box, preview, shot.native)
      BY <2>2 DEF FaceBoxes
    <3>2. shot.faces[i].box \in Boxes
      BY <1>0, <3>1, FrameAssumption DEF FaceIds, Boxes
    <3> QED BY <1>0, <3>1, <3>2, NativeFrame, ScaledBoxInside
  <2> QED BY <1>0, <2>1, <2>2, NativeFrame DEF BoxesInv
<1>4. CASE Denoise \/ Upscale \/ RestoreFaces
  <2>1. at = "planned" /\ UNCHANGED <<shot, preview, boxes>>
        /\ (size' = Shrunk \/ size' = [w |-> 2 * Shrunk.w, h |-> 2 * Shrunk.h])
    BY <1>4 DEF Denoise, Upscale, RestoreFaces, NextModel
  <2>2. Shrunk \in Frames
    BY <1>0, <2>1, ShrunkFrame DEF BoxesInv
  <2>3. size' \in Frames
    BY <2>1, <2>2 DEF Frames
  <2> QED BY <2>1, <2>3 DEF BoxesInv
<1>5. CASE ModelRaises \/ Finish \/ Retry \/ Export
  <2>1. at' # "planned" /\ UNCHANGED <<shot, preview, boxes>>
    BY <1>5 DEF ModelRaises, Finish, Retry, Export, frame
  <2> QED BY <2>1 DEF BoxesInv
<1>6. CASE UNCHANGED vars
  BY <1>6 DEF BoxesInv, vars
<1> QED BY <1>1, <1>2, <1>3, <1>4, <1>5, <1>6 DEF Next

(* Wherever the detector put a face, its box lies in the developed frame   *)
(* and in the frame each model is given, at every scale (geometry.py:17).  *)
THEOREM BoxesStay == Spec => []BoxesInFrame
<1>1. BoxesInv => BoxesInFrame
  <2> SUFFICES ASSUME BoxesInv, NEW i \in DOMAIN boxes
               PROVE  /\ BoxInside(boxes[i], shot.native)
                      /\ at = "planned" /\ Shrunk.w > 0 /\ Shrunk.h > 0
                            => BoxInside(GuardBox(i), Shrunk)
    BY DEF BoxesInFrame
  <2>1. shot \in Shots /\ boxes[i] \in Boxes /\ BoxInside(boxes[i], shot.native)
    BY DEF BoxesInv
  <2>2. ASSUME at = "planned", Shrunk.w > 0, Shrunk.h > 0 PROVE BoxInside(GuardBox(i), Shrunk)
    <3>1. Shrunk \in Frames
      BY <2>1, <2>2, ShrunkFrame DEF BoxesInv
    <3> QED BY <2>1, <2>2, <3>1, NativeFrame, ScaledBoxInside DEF GuardBox
  <2> QED BY <2>1, <2>2
<1> QED BY <1>1, BoxesInit, BoxesStep, PTL DEF Spec

(***************************************************************************)
(* Steps and sizes                                                         *)
(***************************************************************************)

Names == PRE_AI \union AI \union POST_AI

LEMMA StepSeq == ASSUME NEW n \in Names, NEW p PROVE Step(n, p) \in Seq(Names)
BY DEF Step

LEMMA NoStep == ASSUME NEW n, NEW p, n \notin p PROVE Step(n, p) = <<>>
BY DEF Step

LEMMA SameStep == ASSUME NEW n, NEW p, NEW S, n \in S PROVE Step(n, p \intersect S) = Step(n, p)
BY DEF Step

\* The steps of the plan before the models, as the plan lists them.
Classical(p) ==
    Step("backlit_recover", p) \o Step("exposure_gamma", p) \o Step("shadow_lift", p)
      \o Step("highlight_recover", p) \o Step("highlight_rolloff", p)
      \o Step("white_balance", p) \o Step("saturation_adjust", p)

LEMMA ClassicalSeq == ASSUME NEW p PROVE Classical(p) \in Seq(Names)
<1>1. /\ Step("backlit_recover", p) \in Seq(Names) /\ Step("exposure_gamma", p) \in Seq(Names)
      /\ Step("shadow_lift", p) \in Seq(Names) /\ Step("highlight_recover", p) \in Seq(Names)
      /\ Step("highlight_rolloff", p) \in Seq(Names) /\ Step("white_balance", p) \in Seq(Names)
      /\ Step("saturation_adjust", p) \in Seq(Names)
  BY StepSeq DEF Names, PRE_AI
<1> QED BY <1>1, ConcatProperties DEF Classical

LEMMA ModelsSeq == ASSUME NEW p PROVE Models(p) \in Seq(Names)
<1>1. /\ Step("scunet_denoise", p) \in Seq(Names) /\ Step("realesrgan_upscale", p) \in Seq(Names)
      /\ Step("codeformer_restore", p) \in Seq(Names)
  BY StepSeq DEF Names, AI
<1> QED BY <1>1, ConcatProperties DEF Models

LEMMA PreAiIs == ASSUME NEW p PROVE PreAi(p) = Classical(p)
<1> DEFINE q == p \intersect PRE_AI
<1>1. /\ Step("backlit_recover", q) = Step("backlit_recover", p)
      /\ Step("exposure_gamma", q) = Step("exposure_gamma", p)
      /\ Step("shadow_lift", q) = Step("shadow_lift", p)
      /\ Step("highlight_recover", q) = Step("highlight_recover", p)
      /\ Step("highlight_rolloff", q) = Step("highlight_rolloff", p)
      /\ Step("white_balance", q) = Step("white_balance", p)
      /\ Step("saturation_adjust", q) = Step("saturation_adjust", p)
  BY SameStep DEF PRE_AI
<1>2. /\ Step("scunet_denoise", q) = <<>> /\ Step("realesrgan_upscale", q) = <<>>
      /\ Step("codeformer_restore", q) = <<>> /\ Step("unsharp_mask", q) = <<>>
      /\ Step("clahe_local_contrast", q) = <<>>
  BY DEF PRE_AI, Step
<1>3. PreAi(p) = Classical(p) \o <<>> \o <<>> \o <<>> \o <<>> \o <<>>
  BY <1>1, <1>2 DEF PreAi, Listed, Classical
<1> QED BY <1>3, ClassicalSeq, ConcatEmptySeq

LEMMA PostAiIs ==
    ASSUME NEW p
    PROVE  PostAi(p) = Step("unsharp_mask", p) \o Step("clahe_local_contrast", p)
<1> DEFINE q == p \intersect POST_AI
<1>1. /\ Step("unsharp_mask", q) = Step("unsharp_mask", p)
      /\ Step("clahe_local_contrast", q) = Step("clahe_local_contrast", p)
  BY SameStep DEF POST_AI
<1>2. /\ Step("backlit_recover", q) = <<>> /\ Step("exposure_gamma", q) = <<>>
      /\ Step("shadow_lift", q) = <<>> /\ Step("highlight_recover", q) = <<>>
      /\ Step("highlight_rolloff", q) = <<>> /\ Step("white_balance", q) = <<>>
      /\ Step("saturation_adjust", q) = <<>> /\ Step("scunet_denoise", q) = <<>>
      /\ Step("realesrgan_upscale", q) = <<>> /\ Step("codeformer_restore", q) = <<>>
  BY DEF POST_AI, Step
<1>3. <<>> \o <<>> = <<>>
  BY EmptySeq, ConcatEmptySeq
<1>4. PostAi(p) = <<>> \o Step("unsharp_mask", p) \o Step("clahe_local_contrast", p)
  BY <1>1, <1>2, <1>3 DEF PostAi, Listed
<1>5. Step("unsharp_mask", p) \in Seq(Names)
  BY StepSeq DEF Names, POST_AI
<1> QED BY <1>4, <1>5, ConcatEmptySeq

(* Planner and phases agree on the order: what the phases do one after     *)
(* another is what the plan lists.                                         *)
LEMMA PhasesAsListed ==
    ASSUME NEW p
    PROVE  PreAi(p) \o Models(p) \o PostAi(p) = Listed(p)
<1> DEFINE a == Classical(p)
           b == Step("scunet_denoise", p)
           c == Step("realesrgan_upscale", p)
           d == Step("codeformer_restore", p)
           e == Step("unsharp_mask", p)
           f == Step("clahe_local_contrast", p)
<1>1. /\ a \in Seq(Names) /\ b \in Seq(Names) /\ c \in Seq(Names) /\ d \in Seq(Names)
      /\ e \in Seq(Names) /\ f \in Seq(Names)
  BY ClassicalSeq, StepSeq DEF Names, AI, POST_AI
<1>2. Models(p) = b \o c \o d /\ Listed(p) = a \o b \o c \o d \o e \o f
  BY DEF Models, Listed, Classical
<1>3. PreAi(p) = a /\ PostAi(p) = e \o f
  BY PreAiIs, PostAiIs
<1> HIDE DEF a, b, c, d, e, f
<1>4. (a \o (b \o c \o d)) \o (e \o f) = a \o b \o c \o d \o e \o f
  BY <1>1
<1> QED BY <1>2, <1>3, <1>4

LEMMA NoModels == ASSUME NEW p, p \intersect AI = {} PROVE Models(p) = <<>>
<1>1. /\ Step("scunet_denoise", p) = <<>> /\ Step("realesrgan_upscale", p) = <<>>
      /\ Step("codeformer_restore", p) = <<>>
  BY NoStep DEF AI
<1> QED BY <1>1, EmptySeq, ConcatEmptySeq DEF Models

(* The model at the head of the list is the one to run; the rest follow.   *)
LEMMA ModelsHead ==
    ASSUME NEW p \in SUBSET AI, p # {}
    PROVE  /\ Models(p) # <<>> /\ Head(Models(p)) \in p
           /\ Tail(Models(p)) = Models(p \ {Head(Models(p))})
           /\ Models(p) = <<Head(Models(p))>> \o Tail(Models(p))
<1> DEFINE a == "scunet_denoise"
           b == "realesrgan_upscale"
           c == "codeformer_restore"
<1>1. Step(a, p) \in Seq(Names) /\ Step(b, p) \in Seq(Names) /\ Step(c, p) \in Seq(Names)
  BY StepSeq DEF Names, AI
<1>2. ASSUME NEW n \in Names, NEW t \in Seq(Names), NEW m, m = <<n>> \o t
      PROVE  m # <<>> /\ Head(m) = n /\ Tail(m) = t
  BY <1>2
<1>0. a \in Names /\ b \in Names
  BY DEF Names, AI
<1>3. CASE a \in p
  <2>1. Models(p) = <<a>> \o (Step(b, p) \o Step(c, p))
    BY <1>1, <1>3, ConcatAssociative DEF Models, Step, Names, AI
  <2>2. Models(p \ {a}) = Step(b, p) \o Step(c, p)
    BY <1>1, ConcatEmptySeq DEF Models, Step
  <2>3. Step(b, p) \o Step(c, p) \in Seq(Names)
    BY <1>1, ConcatProperties
  <2>4. Models(p) # <<>> /\ Head(Models(p)) = a /\ Tail(Models(p)) = Models(p \ {a})
    BY <1>0, <1>2, <2>1, <2>2, <2>3
  <2>5. Models(p) = <<a>> \o Models(p \ {a})
    BY <2>1, <2>2
  <2> QED BY <1>3, <2>4, <2>5
<1>4. CASE a \notin p /\ b \in p
  <2>1. Models(p) = <<b>> \o Step(c, p)
    BY <1>1, <1>4, ConcatEmptySeq DEF Models, Step
  <2>2. Models(p \ {b}) = Step(c, p)
    <3>1. Models(p \ {b}) = <<>> \o <<>> \o Step(c, p)
      BY <1>4 DEF Models, Step
    <3> QED BY <1>1, <3>1, EmptySeq, ConcatEmptySeq
  <2> QED BY <1>0, <1>1, <1>2, <1>4, <2>1, <2>2
<1>5. CASE p = {c}
  <2>1. Models(p) = <<c>>
    <3>1. Models(p) = <<>> \o <<>> \o <<c>>
      BY <1>5 DEF Models, Step
    <3>2. <<c>> \in Seq(Names)
      BY DEF Names, AI
    <3> QED BY <3>1, <3>2, EmptySeq, ConcatEmptySeq
  <2>2. Models(p \ {c}) = <<>>
    BY <1>5, NoModels
  <2>3. <<c>> # <<>> /\ Head(<<c>>) = c /\ Tail(<<c>>) = <<>> /\ <<c>> = <<c>> \o <<>>
    OBVIOUS
  <2> QED BY <1>5, <2>1, <2>2, <2>3, Zenon
<1> QED BY <1>3, <1>4, <1>5 DEF AI

Elements(x) == {x[i] : i \in DOMAIN x}

LEMMA ElementsConcat ==
    ASSUME NEW S, NEW x \in Seq(S), NEW y \in Seq(S)
    PROVE  Elements(x \o y) = Elements(x) \union Elements(y)
<1>1. /\ Len(x) \in Nat /\ Len(y) \in Nat /\ DOMAIN x = 1..Len(x) /\ DOMAIN y = 1..Len(y)
      /\ DOMAIN (x \o y) = 1..(Len(x) + Len(y))
  BY LenProperties, ConcatProperties
<1>2. /\ \A i \in 1..Len(x) : (x \o y)[i] = x[i]
      /\ \A i \in 1..Len(y) : (x \o y)[Len(x) + i] = y[i]
  BY <1>1
<1>3. \A i \in 1..(Len(x) + Len(y)) :
          i \in 1..Len(x) \/ \E j \in 1..Len(y) : i = Len(x) + j
  <2>1. ASSUME NEW m \in Nat, NEW n \in Nat, NEW i \in 1..(m + n), i \notin 1..m
        PROVE  \E j \in 1..n : i = m + j
    <3>1. i - m \in 1..n /\ i = m + (i - m)
      BY <2>1
    <3> QED BY <3>1
  <2> QED BY <1>1, <2>1
<1>4. \A j \in 1..Len(y) : Len(x) + j \in 1..(Len(x) + Len(y))
  BY <1>1
<1>5. \A j \in 1..Len(x) : j \in 1..(Len(x) + Len(y))
  BY <1>1
<1>6. Elements(x \o y) \subseteq Elements(x) \union Elements(y)
  BY <1>1, <1>2, <1>3 DEF Elements
<1>7. Elements(x) \subseteq Elements(x \o y)
  BY <1>1, <1>2, <1>5 DEF Elements
<1>8. Elements(y) \subseteq Elements(x \o y)
  BY <1>1, <1>2, <1>4 DEF Elements
<1> QED BY <1>6, <1>7, <1>8

LEMMA ModelsElements == ASSUME NEW p \in SUBSET AI PROVE Elements(Models(p)) = p
<1> DEFINE a == Step("scunet_denoise", p)
           b == Step("realesrgan_upscale", p)
           c == Step("codeformer_restore", p)
<1>1. a \in Seq(Names) /\ b \in Seq(Names) /\ c \in Seq(Names)
  BY StepSeq DEF Names, AI
<1>2. ASSUME NEW n PROVE Elements(Step(n, p)) = {n} \intersect p
  BY DEF Elements, Step
<1>3. /\ Elements(a) = {"scunet_denoise"} \intersect p
      /\ Elements(b) = {"realesrgan_upscale"} \intersect p
      /\ Elements(c) = {"codeformer_restore"} \intersect p
  BY <1>2
<1>4. Models(p) = a \o b \o c
  BY DEF Models
<1> HIDE DEF a, b, c
<1>5. Elements(a \o b \o c) = Elements(a) \union Elements(b) \union Elements(c)
  <2>1. a \o b \in Seq(Names)
    BY <1>1, ConcatProperties
  <2>2. Elements((a \o b) \o c) = Elements(a \o b) \union Elements(c)
    BY <1>1, <2>1, ElementsConcat
  <2>3. Elements(a \o b) = Elements(a) \union Elements(b)
    BY <1>1, ElementsConcat
  <2> QED BY <2>2, <2>3
<1> QED BY <1>3, <1>4, <1>5 DEF AI

LEMMA RoundedAtMost ==
    ASSUME NEW n \in Int, NEW d \in Nat, d > 0, NEW k \in Int, n <= d * k
    PROVE  Rounded(n, d) <= k
<1>1. PICK q \in Int, r \in 0..(d - 1) : q = n \div d /\ r = n % d /\ n = d * q + r
  OBVIOUS
<1>2. q > k => d * q >= d * k + d
  <2>1. \A x \in Nat : d * (k + 1 + x) >= d * k + d
    OBVIOUS
  <2>2. q > k => q - k - 1 \in Nat /\ q = k + 1 + (q - k - 1)
    OBVIOUS
  <2> QED BY <2>1, <2>2
<1>3. q <= k /\ (q = k => r = 0)
  BY <1>1, <1>2
<1> QED BY <1>1, <1>3 DEF Rounded

LEMMA RoundedAtLeast ==
    ASSUME NEW n \in Int, NEW d \in Nat, d > 0, NEW k \in Int, d * k <= n
    PROVE  Rounded(n, d) >= k
<1>1. PICK q \in Int, r \in 0..(d - 1) : q = n \div d /\ r = n % d /\ n = d * q + r
  OBVIOUS
<1>2. q < k => d * q + d <= d * k
  <2>1. \A x \in Nat : d * q + d <= d * (q + 1 + x)
    OBVIOUS
  <2>2. q < k => k - q - 1 \in Nat /\ k = q + 1 + (k - q - 1)
    OBVIOUS
  <2> QED BY <2>1, <2>2
<1>3. q >= k
  BY <1>1, <1>2
<1> QED BY <1>1, <1>3 DEF Rounded

\* An axis that a percentage of at least 100 leaves as it is keeps the shorter one too.
LEMMA PercentKeeps ==
    ASSUME NEW v \in Nat, NEW u \in 0..v, NEW p \in Int, p >= 100, Rounded(v * p, 100) <= v
    PROVE  Rounded(v * p, 100) = v /\ Rounded(u * p, 100) = u
<1>1. PICK x \in Nat : x = p - 100
  OBVIOUS
<1> DEFINE a == v * x
           b == u * x
<1>2. v * p = 100 * v + a /\ u * p = 100 * u + b
  BY <1>1
<1>3. a \in Nat /\ b \in Nat /\ b <= a
  <2>1. v * x = u * x + (v - u) * x /\ (v - u) \in Nat
    OBVIOUS
  <2>2. v * x \in Nat /\ u * x \in Nat /\ (v - u) * x \in Nat
    BY <1>1, <2>1
  <2> QED BY <2>1, <2>2
<1>4. a = b => u = v \/ a = 0
  <2>1. ASSUME u # v, x # 0 PROVE a # b
    <3>1. PICK y \in Nat : v = u + 1 + y
      <4>1. v - u - 1 \in Nat /\ v = u + 1 + (v - u - 1)
        BY <2>1
      <4> QED BY <4>1
    <3>2. v * x = u * x + x + y * x /\ y * x \in Nat /\ u * x \in Nat
      BY <1>1, <3>1
    <3> QED BY <1>1, <2>1, <3>2
  <2>2. x = 0 => a = 0
    OBVIOUS
  <2> QED BY <2>1, <2>2
<1> HIDE DEF a, b
<1>5. Rounded(100 * v + a, 100) = v /\ a <= 50
  BY <1>2, <1>3 DEF Rounded
<1>6. Rounded(100 * u + b, 100) = u
  BY <1>2, <1>3, <1>4, <1>5 DEF Rounded
<1> QED BY <1>2, <1>5, <1>6

\* The size a frame has while models run, of which those in `left` are still to
\* come: native or shrunk once, and doubled by Real-ESRGAN.
Base == IF aiScaled THEN Scaled(shot.native, s.aiScale, 1000) ELSE shot.native
SizeOn(left) ==
    size = IF "realesrgan_upscale" \in plan \ left THEN [w |-> 2 * Base.w, h |-> 2 * Base.h]
           ELSE Base

(* What the phases have done and have still to do is, in this order, what  *)
(* comes first in the plan; and a frame is shrunk by the first model.      *)
UnderWay(left) ==
    /\ pending = Models(left)
    /\ done \in Seq(Names) /\ done \o pending = PreAi(plan) \o Models(plan)
    /\ SizeOn(left)
    /\ aiScaled => Reduced /\ left # plan \intersect AI
    /\ Reduced /\ ~aiScaled => left = plan \intersect AI

Asked ==
    (s.target.kind = "native" \/ (s.target.kind = "percent" /\ s.target.percent >= 100))
        => size = Target(s.target, shot.native)

PlanInv ==
    /\ shot \in Shots /\ aiScaled \in BOOLEAN
    /\ at \in {"incoming", "ingested"} => ~aiScaled
    /\ at = "planned" =>
          /\ \E left \in SUBSET (plan \intersect AI) : UnderWay(left)
          /\ plan \subseteq Names
          /\ "realesrgan_upscale" \in plan <=> NeedsSr(s, shot.native)
    /\ at = "finished" => done = Listed(plan) /\ Asked
    /\ at = "retried" => done = Listed(plan) /\ size = shot.native /\ plan \intersect AI = {}

LEMMA PlanInit == Init => PlanInv
BY DEF Init, PlanInv

LEMMA ReportPlan ==
    ASSUME NEW r, NEW infos, NEW iso, NEW native, NEW set,
           NEW p, p = PlanFromReport(r, infos, iso, native, set)
    PROVE  /\ p \subseteq Names
           /\ "realesrgan_upscale" \in p <=> NeedsSr(set, native)
           /\ "clahe_local_contrast" \in p <=> LocalContrast(r, infos)
<1> DEFINE wanted == Wanted(r, infos, iso, native, set)
<1>1. /\ wanted.realesrgan_upscale <=> NeedsSr(set, native)
      /\ wanted.clahe_local_contrast <=> LocalContrast(r, infos)
      /\ DOMAIN wanted \subseteq Names
      /\ "realesrgan_upscale" \in DOMAIN wanted /\ "clahe_local_contrast" \in DOMAIN wanted
  BY DEF Wanted, Names, PRE_AI, AI, POST_AI
<1>2. p = {n \in DOMAIN wanted : wanted[n]}
  BY DEF PlanFromReport
<1> HIDE DEF wanted
<1> QED BY <1>1, <1>2, Zenon

LEMMA ModelsOf == ASSUME NEW p PROVE Models(p) = Models(p \intersect AI)
BY DEF Models, Step, AI

LEMMA PlanPhase1 == PlanInv /\ Phase1 => PlanInv'
<1> SUFFICES ASSUME PlanInv, Phase1 PROVE PlanInv'
  OBVIOUS
<1>1. /\ UNCHANGED <<shot, aiScaled>> /\ ~aiScaled /\ at' = "planned" /\ size' = shot.native
      /\ pending' = Models(plan') /\ done' = PreAi(plan')
      /\ plan' = PlanFromReport(Measured(shot.picture, shot.native), FaceInfos, shot.iso,
                                shot.native, s)
  BY DEF Phase1, PlanInv
<1>2. plan' \subseteq Names /\ ("realesrgan_upscale" \in plan' <=> NeedsSr(s, shot.native))
  BY <1>1, ReportPlan
<1> PICK left : left = plan' \intersect AI
  OBVIOUS
<1>3. pending' = Models(left)
  BY <1>1, ModelsOf
<1>4. done' \in Seq(Names)
  BY <1>1, PreAiIs, ClassicalSeq
<1>5. SizeOn(left)'
  BY <1>1 DEF SizeOn, Base, AI
<1>6. UnderWay(left)'
  BY <1>1, <1>3, <1>4, <1>5, ModelsOf DEF UnderWay
<1> QED BY <1>1, <1>2, <1>6 DEF PlanInv, s

LEMMA PlanModel ==
    ASSUME PlanInv, Denoise \/ Upscale \/ RestoreFaces
    PROVE  PlanInv'
<1>1. PICK name \in AI :
             /\ NextModel(name)
             /\ name = "realesrgan_upscale" => size' = [w |-> 2 * Shrunk.w, h |-> 2 * Shrunk.h]
             /\ name # "realesrgan_upscale" => size' = Shrunk
  <2>1. CASE Denoise
    BY <2>1 DEF Denoise, AI
  <2>2. CASE Upscale
    <3>1. "realesrgan_upscale" \in AI
      BY DEF AI
    <3>2. NextModel("realesrgan_upscale") /\ size' = [w |-> 2 * Shrunk.w, h |-> 2 * Shrunk.h]
      BY <2>2 DEF Upscale
    <3> WITNESS "realesrgan_upscale" \in AI
    <3> QED BY <3>2
  <2>3. CASE RestoreFaces
    BY <2>3 DEF RestoreFaces, AI
  <2> QED BY <2>1, <2>2, <2>3
<1>2. /\ at = "planned" /\ at' = "planned" /\ pending # <<>> /\ Head(pending) = name
      /\ pending' = Tail(pending) /\ done' = Append(done, name)
      /\ aiScaled' = (aiScaled \/ Reduced) /\ UNCHANGED <<shot, plan>>
  BY <1>1 DEF NextModel
<1>3. PICK left \in SUBSET (plan \intersect AI) : UnderWay(left)
  BY <1>2 DEF PlanInv
<1>4. left # {}
  BY <1>2, <1>3, NoModels DEF UnderWay
<1> DEFINE rest == left \ {name}
<1>5. /\ name \in left /\ pending' = Models(rest) /\ pending = <<name>> \o pending'
  BY <1>2, <1>3, <1>4, ModelsHead DEF UnderWay
<1>6. done' \in Seq(Names) /\ done' \o pending' = PreAi(plan') \o Models(plan')
  <2>1. done \in Seq(Names) /\ pending' \in Seq(Names) /\ name \in Names
    BY <1>3, <1>5, ModelsSeq DEF UnderWay, Names
  <2>2. Append(done, name) \in Seq(Names)
        /\ Append(done, name) \o pending' = done \o (<<name>> \o pending')
    BY <2>1
  <2> QED BY <1>2, <1>3, <1>5, <2>2 DEF UnderWay
<1>7. (aiScaled' => Reduced' /\ rest # plan' \intersect AI) /\ (Reduced' => aiScaled')
  BY <1>2, <1>3, <1>5 DEF UnderWay, Reduced, s
<1>8. SizeOn(rest)'
  <2>1. SizeOn(left)
    BY <1>3 DEF UnderWay
  <2>2. Shrunk = IF "realesrgan_upscale" \in plan \ left
                 THEN [w |-> 2 * Base'.w, h |-> 2 * Base'.h] ELSE Base'
    <3>1. CASE Reduced /\ ~aiScaled
      <4>1. size = shot.native /\ "realesrgan_upscale" \notin plan \ left
        BY <1>3, <2>1, <3>1 DEF UnderWay, SizeOn, Base, AI
      <4>2. Base' = Scaled(shot.native, s.aiScale, 1000)
        BY <1>2, <3>1 DEF Base, s
      <4> QED BY <3>1, <4>1, <4>2 DEF Shrunk
    <3>2. CASE ~(Reduced /\ ~aiScaled)
      <4>1. aiScaled' = aiScaled /\ Shrunk = size
        BY <1>2, <3>2 DEF Shrunk, PlanInv
      <4>2. Base' = Base
        BY <1>2, <4>1 DEF Base, s
      <4> QED BY <2>1, <4>1, <4>2 DEF SizeOn
    <3> QED BY <3>1, <3>2
  <2>3. CASE name = "realesrgan_upscale"
    <3>1. Shrunk = Base' /\ "realesrgan_upscale" \in plan' \ rest
      BY <1>2, <1>3, <1>5, <2>2, <2>3
    <3> QED BY <1>1, <2>3, <3>1 DEF SizeOn
  <2>4. CASE name # "realesrgan_upscale"
    <3>1. "realesrgan_upscale" \in plan' \ rest <=> "realesrgan_upscale" \in plan \ left
      BY <1>2, <2>4
    <3> QED BY <1>1, <2>2, <2>4, <3>1 DEF SizeOn
  <2> QED BY <2>3, <2>4
<1>9. UnderWay(rest)'
  BY <1>5, <1>6, <1>7, <1>8 DEF UnderWay
<1>10. rest \in SUBSET (plan' \intersect AI)
  BY <1>2
<1> QED BY <1>2, <1>9, <1>10 DEF PlanInv, s

LEMMA TargetInt ==
    ASSUME NEW t \in Targets, NEW n \in [w : Nat \ {0}, h : Nat \ {0}]
    PROVE  Target(t, n).w \in Int /\ Target(t, n).h \in Int
<1>1. CASE t.kind = "native"
  BY <1>1 DEF Target
<1>2. CASE t.kind = "percent"
  <2>1. t.percent \in Int
    BY <1>2 DEF Targets
  <2>2. n.w * t.percent \in Int /\ n.h * t.percent \in Int
    BY <2>1
  <2>3. Rounded(n.w * t.percent, 100) \in Int /\ Rounded(n.h * t.percent, 100) \in Int
    BY <2>2, RoundedInt
  <2> QED BY <1>2, <2>3 DEF Target, AtLeastOne, Scaled, Larger
<1>3. CASE t.kind = "size"
  <2>1. t.size.w \in Int /\ t.size.h \in Int
    BY <1>3 DEF Targets
  <2> QED BY <1>3, <2>1 DEF Target, AtLeastOne, Larger
<1> QED BY <1>1, <1>2, <1>3 DEF Targets

LEMMA TargetIfNotEnlarging ==
    ASSUME NEW t \in Targets, NEW n \in [w : Nat \ {0}, h : Nat \ {0}],
           LongEdge(Target(t, n)) <= LongEdge(n),
           t.kind = "native" \/ (t.kind = "percent" /\ t.percent >= 100)
    PROVE  Target(t, n) = n
<1>1. CASE t.kind = "native"
  BY <1>1 DEF Target
<1>2. CASE t.kind = "percent" /\ t.percent >= 100
  <2>1. t.percent \in Int
    BY <1>2 DEF Targets
  <2>2. PICK p \in Int, x \in Nat, y \in Nat : p = t.percent /\ x = n.w /\ y = n.h
    BY <2>1
  <2>3. n = [w |-> x, h |-> y] /\ x > 0 /\ y > 0 /\ p >= 100
    BY <1>2, <2>2
  <2> DEFINE rx == Rounded(x * p, 100)
             ry == Rounded(y * p, 100)
  <2>4. Target(t, n) = [w |-> Larger(1, rx), h |-> Larger(1, ry)]
    BY <1>2, <2>2 DEF Target, AtLeastOne, Scaled
  <2>5. rx \in Int /\ ry \in Int
    BY RoundedInt
  <2>6. Larger(Larger(1, rx), Larger(1, ry)) <= Larger(x, y)
    BY <2>3, <2>4 DEF LongEdge
  <2>7. rx <= Larger(x, y) /\ ry <= Larger(x, y)
    <3> HIDE DEF rx, ry
    <3> QED BY <2>5, <2>6 DEF Larger
  <2>8. rx = x /\ ry = y
    <3>1. CASE y <= x
      <4>1. rx <= x /\ y \in 0..x
        BY <2>3, <2>7, <3>1 DEF Larger
      <4> QED BY <2>3, <4>1, PercentKeeps
    <3>2. CASE x <= y
      <4>1. ry <= y /\ x \in 0..y
        BY <2>3, <2>7, <3>2 DEF Larger
      <4> QED BY <2>3, <4>1, PercentKeeps
    <3> QED BY <3>1, <3>2
  <2> HIDE DEF rx, ry
  <2> QED BY <2>3, <2>4, <2>8 DEF Larger
<1> QED BY <1>1, <1>2

LEMMA PlanFinish == PlanInv /\ Finish => PlanInv'
<1> SUFFICES ASSUME PlanInv, Finish PROVE PlanInv'
  OBVIOUS
<1>1. /\ at = "planned" /\ at' = "finished" /\ pending = <<>> /\ size' = Resized
      /\ done' = done \o PostAi(plan) /\ UNCHANGED <<shot, plan, aiScaled>>
  BY DEF Finish
<1>2. PICK left \in SUBSET (plan \intersect AI) : UnderWay(left)
  BY <1>1 DEF PlanInv
<1>3. left = {}
  BY <1>1, <1>2, ModelsHead DEF UnderWay
<1>4. done' = Listed(plan')
  <2>1. done = PreAi(plan) \o Models(plan)
    BY <1>1, <1>2, ConcatEmptySeq DEF UnderWay
  <2> QED BY <1>1, <2>1, PhasesAsListed
<1>5. Asked'
  <2>1. CASE plan \intersect AI # {}
    BY <1>1, <2>1 DEF Asked, Resized, s
  <2>2. CASE plan \intersect AI = {}
    <3>1. "realesrgan_upscale" \notin plan /\ ~NeedsSr(s, shot.native)
      BY <1>1, <2>2 DEF PlanInv, AI
    <3>2. ~aiScaled
      BY <1>2, <2>2 DEF UnderWay
    <3>3. size = shot.native
      BY <1>2, <3>1, <3>2 DEF UnderWay, SizeOn, Base
    <3>4. size' = shot.native
      BY <1>1, <2>2, <3>3 DEF Resized
    <3>5. /\ s.target \in Targets /\ shot.native \in [w : Nat \ {0}, h : Nat \ {0}]
          /\ s.target' = s.target
      BY <1>1, FrameAssumption DEF PlanInv, s
    <3>6. LongEdge(Target(s.target, shot.native)) <= LongEdge(shot.native)
      <4>1. ~(LongEdge(Target(s.target, shot.native)) > LongEdge(shot.native))
        BY <3>1 DEF NeedsSr, Enlarging
      <4>2. LongEdge(Target(s.target, shot.native)) \in Int /\ LongEdge(shot.native) \in Int
        BY <3>5, TargetInt DEF LongEdge, Larger
      <4> QED BY <4>1, <4>2
    <3> QED BY <1>1, <3>4, <3>5, <3>6, TargetIfNotEnlarging DEF Asked
  <2> QED BY <2>1, <2>2
<1> QED BY <1>1, <1>4, <1>5 DEF PlanInv

LEMMA PlanRetry == PlanInv /\ Retry => PlanInv'
<1> SUFFICES ASSUME PlanInv, Retry PROVE PlanInv'
  OBVIOUS
<1>1. /\ at' = "retried" /\ size' = shot.native /\ plan' = SafePlan(plan)
      /\ done' = PreAi(plan') \o PostAi(plan') /\ UNCHANGED <<shot, aiScaled>>
  BY DEF Retry, RetryPlan
<1>2. plan' \intersect AI = {}
  BY <1>1 DEF SafePlan, SAFE_STEPS, AI
<1>3. Models(plan') = <<>> /\ PreAi(plan') \in Seq(Names)
  BY <1>2, NoModels, PreAiIs, ClassicalSeq
<1>4. done' = Listed(plan')
  <2>1. PreAi(plan') \o Models(plan') = PreAi(plan')
    BY <1>3, ConcatEmptySeq
  <2>2. PreAi(plan') \o Models(plan') \o PostAi(plan') = Listed(plan')
    BY PhasesAsListed
  <2> QED BY <1>1, <2>1, <2>2
<1> QED BY <1>1, <1>2, <1>4 DEF PlanInv

LEMMA PlanStep == PlanInv /\ [Next]_vars => PlanInv'
<1> SUFFICES ASSUME PlanInv, [Next]_vars PROVE PlanInv'
  OBVIOUS
<1>1. CASE Ingest
  BY <1>1 DEF PlanInv, Ingest, frame
<1>2. CASE ModelRaises \/ Export
  BY <1>2 DEF PlanInv, ModelRaises, Export, frame
<1>3. CASE LosePreview \/ UNCHANGED vars
  <2>1. UNCHANGED <<shot, at, plan, size, done, pending, aiScaled>>
    BY <1>3 DEF LosePreview, frame, vars
  <2>2. \A left : UnderWay(left)' <=> UnderWay(left)
    BY <2>1 DEF UnderWay, SizeOn, Base, Reduced, s
  <2> QED BY <2>1, <2>2 DEF PlanInv, Asked, s
<1> QED BY <1>1, <1>2, <1>3, PlanPhase1, PlanModel, PlanFinish, PlanRetry DEF Next

(* Whatever was planned, a finished frame has been through the steps its   *)
(* plan lists, once and in order, is shrunk by the first of its models     *)
(* only, and has the size asked for (decision.py, batch.py:59, 214-247,    *)
(* 279).                                                                   *)
THEOREM FramesFollowPlans == Spec => []FinishedAsPlanned
<1>1. PlanInv => FinishedAsPlanned
  <2> SUFFICES ASSUME PlanInv PROVE FinishedAsPlanned
    OBVIOUS
  <2>1. DoneAsPlanned
    BY DEF PlanInv, DoneAsPlanned, Finished
  <2>2. ASSUME at = "planned", aiScaled
        PROVE  LET shrunk == Scaled(shot.native, s.aiScale, 1000)
               IN size = IF "realesrgan_upscale" \in plan \ {pending[i] : i \in DOMAIN pending}
                         THEN [w |-> 2 * shrunk.w, h |-> 2 * shrunk.h] ELSE shrunk
    <3>1. PICK left \in SUBSET (plan \intersect AI) : UnderWay(left)
      BY <2>2 DEF PlanInv
    <3>2. {pending[i] : i \in DOMAIN pending} = left
      BY <3>1, ModelsElements DEF UnderWay, Elements
    <3> QED BY <2>2, <3>1, <3>2 DEF UnderWay, SizeOn, Base
  <2>3. SizeAsAsked
    BY <2>2 DEF SizeAsAsked, PlanInv, Asked
  <2> QED BY <2>1, <2>3 DEF FinishedAsPlanned
<1> QED BY <1>1, PlanInit, PlanStep, PTL DEF Spec

(***************************************************************************)
(* Faces                                                                   *)
(***************************************************************************)

(* Along an axis that grows from m to n pixels, the part of a face that is *)
(* in the picture loses no pixel.                                          *)
LEMMA AxisKept ==
    ASSUME NEW x \in Int, NEW e \in Nat, NEW m \in Nat, NEW n \in Nat, m > 0, m <= n,
           NEW c \in Nat, c > 0, c = Smaller(x + e, m) - Larger(x, 0)
    PROVE  LET X == Clamped(Rounded(x * n, m), n)
           IN  Smaller(Rounded(e * n, m), n - X) >= c
<1> DEFINE X == Clamped(Rounded(x * n, m), n)
           L == Larger(x, 0)
<1>1. L \in 0..(m - 1) /\ c <= m - L /\ c <= e /\ (x < 0 => L = 0) /\ (x >= 0 => L = x)
  BY DEF Smaller, Larger
<1>2. PICK g \in Nat : n = m + g
  <2>1. n - m \in Nat /\ n = m + (n - m)
    OBVIOUS
  <2> QED BY <2>1
<1>3. Rounded(e * n, m) \in Int /\ Rounded(e * n, m) >= e
  <2>1. e * n = m * e + e * g /\ e * g \in Nat /\ e * n \in Int
    BY <1>2
  <2>2. m * e <= e * n
    BY <2>1
  <2> QED BY <2>1, <2>2, RoundedInt, RoundedAtLeast
<1>4. Rounded(x * n, m) \in Int
  BY RoundedInt
<1>5. Rounded(x * n, m) <= L + g
  <2>1. CASE x < 0
    <3>1. x * n = -((0 - x) * n) /\ (0 - x) * n \in Nat
      <4>1. (0 - x) \in Nat
        BY <2>1
      <4> QED BY <4>1
    <3>2. x * n \in Int /\ x * n <= m * 0
      BY <3>1
    <3>3. Rounded(x * n, m) <= 0
      BY <3>2, RoundedAtMost
    <3> QED BY <1>1, <1>2, <1>4, <3>3
  <2>2. CASE x >= 0
    <3>1. x * n = m * x + x * g
      BY <1>2
    <3>2. m * (x + g) = m * x + m * g
      BY <1>2
    <3>3. x * g <= m * g
      <4>1. PICK k \in Nat : m = x + k
        <5>1. m - x \in Nat /\ m = x + (m - x)
          BY <1>1, <2>2
        <5> QED BY <5>1
      <4>2. m * g = x * g + k * g /\ k * g \in Nat
        BY <1>2, <4>1
      <4> QED BY <1>2, <2>2, <4>2
    <3>4. x * n \in Int /\ m * x \in Int /\ x * g \in Int /\ m * g \in Int
      BY <1>2
    <3>5. x * n <= m * (x + g)
      BY <3>1, <3>2, <3>3, <3>4
    <3> QED BY <1>1, <1>2, <2>2, <3>4, <3>5, RoundedAtMost
  <2> QED BY <2>1, <2>2
<1> DEFINE R == Rounded(x * n, m)
           E == Rounded(e * n, m)
<1>6. R \in Int /\ R <= L + g /\ E \in Int /\ E >= e
  BY <1>3, <1>4, <1>5
<1> HIDE DEF R, E, L
<1>7. Smaller(E, n - Clamped(R, n)) >= c
  BY <1>1, <1>2, <1>6 DEF Smaller, Larger, Clamped
<1> QED BY <1>7 DEF R, E

LEMMA Halves ==
    ASSUME NEW i \in Nat, NEW j \in Nat, NEW e \in Nat, NEW n \in Nat,
           2000 * i + 1000 * e >= 2 * j, j >= 1000 * n, e < n
    PROVE  2 * i > n
OBVIOUS

LEMMA HalfUp ==
    ASSUME NEW v \in Nat, NEW n \in Nat, n > 0, 2 * v > n
    PROVE  Rounded(v, n) >= 1
<1>1. PICK q \in Nat, r \in 0..(n - 1) : q = v \div n /\ r = v % n /\ v = n * q + r
  BY Division
<1>2. q = 0 => v = r
  BY <1>1
<1> QED BY <1>1, <1>2 DEF Rounded

(* At the scale of the models, a of 1000, at least half a pixel is left of *)
(* an extent of 1000 / a pixels; a frame of this extent becomes one pixel. *)
ScaledExtent(e, n, a, y, t, k, v) ==
    /\ e <= n /\ e > 0 /\ a < 1000 /\ e * a >= 1000
    /\ y = n * a /\ t = Rounded(y, 1000) /\ k \in {1, 2} /\ v = e * (k * t)

LEMMA AxisLeft ==
    ASSUME NEW e \in Nat, NEW n \in Nat, NEW a \in Nat, NEW y \in Nat, NEW t \in Nat,
           NEW k \in Nat, NEW v \in Nat, ScaledExtent(e, n, a, y, t, k, v)
    PROVE  Rounded(v, n) >= 1
<1>0. /\ e <= n /\ e > 0 /\ a < 1000 /\ e * a >= 1000
      /\ y = n * a /\ t = Rounded(y, 1000) /\ k \in {1, 2} /\ v = e * (k * t)
  BY DEF ScaledExtent
<1>1. PICK z \in Nat : z = e * a /\ z >= 1000
  BY <1>0
<1>2. 2000 * t >= 2 * y - 1000
  BY <1>0 DEF Rounded
<1>3. n * z = e * y
  BY <1>0, <1>1
<1>4. CASE e = n
  <2>1. y >= 1000
    BY <1>0, <1>4
  <2>2. t >= 1
    BY <1>0, <2>1, RoundedAtLeast
  <2>3. v >= n * 1
    <3>1. PICK u \in Nat : k * t = 1 + u
      <4>1. k * t - 1 \in Nat /\ k * t = 1 + (k * t - 1)
        BY <1>0, <2>2
      <4> QED BY <4>1
    <3>2. e * (1 + u) = e + e * u /\ e * u \in Nat
      BY <3>1
    <3> QED BY <1>0, <1>4, <3>1, <3>2
  <2> QED BY <1>0, <2>3, RoundedAtLeast
<1>5. CASE e < n
  <2>1. 2 * v > n
    <3>1. PICK u \in Nat, f \in Nat, h \in Nat : u = e * t /\ f = e * y /\ h = n * z
      BY <1>1
    <3>2. 2000 * u + 1000 * e >= 2 * f
      <4>1. PICK x \in Nat : 2000 * t + 1000 = 2 * y + x
        <5>1. PICK x \in Int : x = 2000 * t + 1000 - 2 * y
          OBVIOUS
        <5>2. x \in Nat /\ 2000 * t + 1000 = 2 * y + x
          BY <1>2, <5>1
        <5> QED BY <5>2
      <4>2. e * (2000 * t + 1000) = e * (2 * y + x)
        BY <4>1
      <4>3. e * (2000 * t + 1000) = 2000 * (e * t) + 1000 * e
        OBVIOUS
      <4>4. e * (2 * y + x) = 2 * (e * y) + e * x /\ e * x \in Nat
        BY <1>1, <4>1
      <4> QED BY <3>1, <4>2, <4>3, <4>4
    <3>3. h >= 1000 * n
      <4>1. PICK x \in Nat : z = 1000 + x
        <5>1. z - 1000 \in Nat /\ z = 1000 + (z - 1000)
          BY <1>1
        <5> QED BY <5>1
      <4>2. n * z = 1000 * n + n * x /\ n * x \in Nat
        BY <4>1
      <4> QED BY <3>1, <4>2
    <3>4. 2 * u > n
      <4>1. f = h
        BY <1>3, <3>1
      <4> QED BY <1>5, <3>1, <3>2, <3>3, <4>1, Halves
    <3>5. v = e * (k * t) /\ e > 0
      BY <1>0
    <3>6. e * (k * t) = u \/ e * (k * t) = 2 * u
      BY <1>0, <3>1
    <3> QED BY <3>1, <3>4, <3>5, <3>6
  <2> QED BY <1>0, <2>1, HalfUp
<1> QED BY <1>0, <1>4, <1>5

LEMMA PreviewFits ==
    ASSUME NEW f \in [w : Nat \ {0}, h : Nat \ {0}], NEW cap \in Nat
    PROVE  CapLongEdge(f, cap).w <= f.w /\ CapLongEdge(f, cap).h <= f.h
<1>1. PICK x \in Nat, y \in Nat, e \in Nat : x = f.w /\ y = f.h /\ e = LongEdge(f)
  BY DEF LongEdge, Larger
<1>2. x > 0 /\ y > 0 /\ x <= e /\ y <= e
  BY <1>1 DEF LongEdge, Larger
<1>3. CASE cap <= 0 \/ e <= cap
  BY <1>1, <1>3 DEF CapLongEdge
<1>4. CASE cap < e
  <2>1. ASSUME NEW v \in Nat, v > 0
        PROVE  Rounded(v * cap, e) \in Int /\ Larger(1, Rounded(v * cap, e)) <= v
    <3>1. v * cap \in Int /\ v * cap <= e * v
      <4>1. PICK d \in Nat : e = cap + d
        <5>1. e - cap \in Nat /\ e = cap + (e - cap)
          BY <1>4
        <5> QED BY <5>1
      <4>2. e * v = v * cap + d * v /\ d * v \in Nat /\ v * cap \in Nat
        BY <4>1
      <4> QED BY <4>2
    <3>2. Rounded(v * cap, e) \in Int /\ Rounded(v * cap, e) <= v
      BY <1>2, <3>1, RoundedInt, RoundedAtMost
    <3> HIDE DEF Rounded
    <3> QED BY <2>1, <3>2 DEF Larger
  <2>2. \/ CapLongEdge(f, cap) = f
        \/ CapLongEdge(f, cap) = [w |-> Larger(1, Rounded(x * cap, e)),
                                  h |-> Larger(1, Rounded(y * cap, e))]
    BY <1>1 DEF CapLongEdge, AtLeastOne, Scaled
  <2>3. Larger(1, Rounded(x * cap, e)) <= x /\ Larger(1, Rounded(y * cap, e)) <= y
    BY <1>2, <2>1
  <2> QED BY <1>1, <2>2, <2>3
<1> QED BY <1>3, <1>4

LEMMA InsideIsVisible ==
    ASSUME NEW b \in Boxes, NEW f \in Frames, BoxInside(b, f), b.w > 0, b.h > 0
    PROVE  Visible(b, f)
BY DEF Boxes, Frames, BoxInside, Visible, Cut, Larger, Smaller

(* From the preview to the frame: every pixel of a face that was in the    *)
(* picture stays.                                                          *)
LEMMA FaceKept ==
    ASSUME NEW b \in Boxes, NEW src \in Frames, NEW dst \in Frames,
           src.w <= dst.w, src.h <= dst.h, Visible(b, src)
    PROVE  /\ Cut(b, src).w \in Nat /\ Cut(b, src).w > 0 /\ Cut(b, src).w <= ScaledBox(b, src, dst).w
           /\ Cut(b, src).h \in Nat /\ Cut(b, src).h > 0 /\ Cut(b, src).h <= ScaledBox(b, src, dst).h
<1>1. PICK x \in Int, y \in Int, e \in Nat, f \in Nat : x = b.x /\ y = b.y /\ e = b.w /\ f = b.h
  BY DEF Boxes
<1>2. PICK m \in Nat, n \in Nat : m = src.w /\ n = dst.w
  BY DEF Frames
<1>3. PICK k \in Nat, l \in Nat : k = src.h /\ l = dst.h
  BY DEF Frames
<1>4. /\ Cut(b, src).w = Smaller(x + e, m) - Larger(x, 0)
      /\ Cut(b, src).h = Smaller(y + f, k) - Larger(y, 0)
  BY <1>1, <1>2, <1>3 DEF Cut
<1>5. PICK c \in Nat, d \in Nat : c = Cut(b, src).w /\ d = Cut(b, src).h /\ c > 0 /\ d > 0
  <2>1. Cut(b, src).w \in Int /\ Cut(b, src).h \in Int
    BY <1>4 DEF Smaller, Larger
  <2> QED BY <2>1 DEF Visible
<1>6. m > 0 /\ k > 0 /\ m <= n /\ k <= l
  <2>1. m > 0 /\ k > 0
    BY <1>4, <1>5 DEF Smaller, Larger
  <2> QED BY <1>2, <1>3, <2>1
<1>7. Smaller(Rounded(e * n, m), n - Clamped(Rounded(x * n, m), n)) >= c
  BY <1>4, <1>5, <1>6, AxisKept
<1>8. Smaller(Rounded(f * l, k), l - Clamped(Rounded(y * l, k), l)) >= d
  BY <1>4, <1>5, <1>6, AxisKept
<1>9. ScaledBox(b, src, dst)
        = [x |-> Clamped(Rounded(x * n, m), n), y |-> Clamped(Rounded(y * l, k), l),
           w |-> Smaller(Rounded(e * n, m), n - Clamped(Rounded(x * n, m), n)),
           h |-> Smaller(Rounded(f * l, k), l - Clamped(Rounded(y * l, k), l))]
  <2>1. Larger(src.w, 1) = m /\ Larger(src.h, 1) = k
    BY <1>2, <1>3, <1>6 DEF Larger
  <2> QED BY <1>1, <1>2, <1>3, <2>1 DEF ScaledBox
<1>10. ScaledBox(b, src, dst).w >= c /\ ScaledBox(b, src, dst).h >= d
  BY <1>7, <1>8, <1>9
<1>11. ScaledBox(b, src, dst).w \in Int /\ ScaledBox(b, src, dst).h \in Int
  BY <1>2, <1>3, <1>6, ScaledBoxInside DEF Boxes
<1> QED BY <1>5, <1>10, <1>11

(* What a model is given is the developed frame, shrunk if a scale is set, *)
(* or twice that.                                                          *)
ModelFrame == IF Reduced THEN Scaled(shot.native, s.aiScale, 1000) ELSE shot.native

LEMMA ShrunkIs ==
    ASSUME PlanInv, at = "planned"
    PROVE  \E k \in {1, 2} : Shrunk.w = k * ModelFrame.w /\ Shrunk.h = k * ModelFrame.h
<1>1. PICK left \in SUBSET (plan \intersect AI) : UnderWay(left)
  BY DEF PlanInv
<1>2. ModelFrame.w \in Nat /\ ModelFrame.h \in Nat
  <2>1. shot.native \in Frames /\ s.aiScale \in Nat
    BY NativeFrame, FrameAssumption DEF PlanInv, s
  <2>2. Scaled(shot.native, s.aiScale, 1000) \in Frames
    BY <2>1, ScaledFrame
  <2> QED BY <2>1, <2>2 DEF ModelFrame, Frames
<1>3. CASE Reduced /\ ~aiScaled
  <2>1. "realesrgan_upscale" \notin plan \ left
    BY <1>1, <1>3 DEF UnderWay, AI
  <2>2. size = shot.native
    BY <1>1, <1>3, <2>1 DEF UnderWay, SizeOn, Base
  <2>3. Shrunk = ModelFrame
    BY <1>3, <2>2 DEF Shrunk, ModelFrame
  <2> QED BY <1>2, <2>3
<1>4. CASE ~(Reduced /\ ~aiScaled)
  <2>1. Shrunk = size /\ Base = ModelFrame
    BY <1>1, <1>4 DEF Shrunk, Base, ModelFrame, UnderWay
  <2>2. size = [w |-> 2 * Base.w, h |-> 2 * Base.h] \/ size = Base
    BY <1>1 DEF UnderWay, SizeOn
  <2> QED BY <1>2, <2>1, <2>2
<1> QED BY <1>3, <1>4

LEMMA ExtentLeft ==
    ASSUME shot \in Shots, NEW e \in Nat, NEW n \in Nat, n > 0, e > 0, e <= n,
           e * Smaller(s.aiScale, 1000) >= 1000,
           NEW k \in {1, 2},
           NEW t, t = (IF Reduced THEN Rounded(n * s.aiScale, 1000) ELSE n)
    PROVE  Rounded(e * (k * t), n) >= 1
<1>1. PICK a \in Nat : a = s.aiScale
  BY FrameAssumption DEF s
<1>2. CASE Reduced
  <2>1. a < 1000 /\ Smaller(a, 1000) = a
    BY <1>1, <1>2 DEF Reduced, Smaller
  <2>2. t \in Nat /\ t = Rounded(n * a, 1000)
    BY <1>1, <1>2, RoundedNat
  <2>3. e * a >= 1000
    BY <1>1, <2>1
  <2>4. PICK x \in Nat, y \in Nat, v \in Nat : x = t /\ y = n * a /\ v = e * (k * t)
    BY <2>2
  <2>5. ScaledExtent(e, n, a, y, x, k, v)
    BY <2>1, <2>2, <2>3, <2>4 DEF ScaledExtent
  <2>6. Rounded(v, n) >= 1
    BY <2>5, AxisLeft
  <2> QED BY <2>4, <2>6
<1>3. CASE ~Reduced
  <2>1. t = n
    BY <1>3
  <2>2. PICK d \in Nat : e = 1 + d
    <3>1. e - 1 \in Nat /\ e = 1 + (e - 1)
      OBVIOUS
    <3> QED BY <3>1
  <2>3. n * 1 <= e * (k * t) /\ e * (k * t) \in Int
    <3>1. e * n = n + d * n /\ d * n \in Nat
      BY <2>2
    <3>2. e * (k * t) = e * n \/ e * (k * t) = 2 * (e * n)
      BY <2>1
    <3> QED BY <3>1, <3>2
  <2> QED BY <2>3, RoundedAtLeast
<1> QED BY <1>2, <1>3

(* From the frame to the scale of a model: a box of which a pixel's worth  *)
(* is left there can be found.                                             *)
LEMMA GuardBoxVisible ==
    ASSUME PlanInv, BoxesInv, at = "planned", Shrunk.w > 0, Shrunk.h > 0,
           NEW i \in DOMAIN boxes,
           boxes[i].w * Smaller(s.aiScale, 1000) >= 1000, boxes[i].w > 0,
           boxes[i].h * Smaller(s.aiScale, 1000) >= 1000, boxes[i].h > 0
    PROVE  Visible(GuardBox(i), Shrunk)
<1>1. /\ shot \in Shots /\ boxes[i] \in Boxes /\ BoxInside(boxes[i], shot.native)
      /\ Shrunk \in Frames /\ shot.native \in Frames /\ shot.native.w > 0 /\ shot.native.h > 0
  BY ShrunkFrame, NativeFrame DEF BoxesInv
<1>2. GuardBox(i) \in Boxes /\ BoxInside(GuardBox(i), Shrunk)
  BY <1>1, ScaledBoxInside DEF GuardBox
<1>3. PICK k \in {1, 2} : Shrunk.w = k * ModelFrame.w /\ Shrunk.h = k * ModelFrame.h
  BY ShrunkIs
<1>4. PICK n \in Nat, m \in Nat, e \in Nat, f \in Nat :
          n = shot.native.w /\ m = shot.native.h /\ e = boxes[i].w /\ f = boxes[i].h
  BY <1>1 DEF Boxes, Frames
<1>5. n > 0 /\ m > 0 /\ e > 0 /\ f > 0 /\ e <= n /\ f <= m
  BY <1>1, <1>4 DEF BoxInside, Boxes, Frames
<1>6. /\ ModelFrame.w = IF Reduced THEN Rounded(n * s.aiScale, 1000) ELSE n
      /\ ModelFrame.h = IF Reduced THEN Rounded(m * s.aiScale, 1000) ELSE m
  BY <1>4 DEF ModelFrame, Scaled
<1>7. /\ Rounded(e * (k * ModelFrame.w), n) >= 1
      /\ Rounded(f * (k * ModelFrame.h), m) >= 1
  BY <1>1, <1>4, <1>5, <1>6, ExtentLeft
<1>8. Larger(shot.native.w, 1) = n /\ Larger(shot.native.h, 1) = m
  BY <1>4, <1>5 DEF Larger
<1>9. /\ GuardBox(i).w = Smaller(Rounded(e * (k * ModelFrame.w), n), Shrunk.w - GuardBox(i).x)
      /\ GuardBox(i).h = Smaller(Rounded(f * (k * ModelFrame.h), m), Shrunk.h - GuardBox(i).y)
  BY <1>3, <1>4, <1>8 DEF GuardBox, ScaledBox
<1>10. Shrunk.w - GuardBox(i).x >= 1 /\ Shrunk.h - GuardBox(i).y >= 1
  BY <1>1, <1>2 DEF BoxInside, Boxes, Frames
<1>11. GuardBox(i).w > 0 /\ GuardBox(i).h > 0
  <2>1. ASSUME NEW v, NEW x, v >= 1, x >= 1 PROVE Smaller(v, x) >= 1
    BY <2>1 DEF Smaller
  <2>2. GuardBox(i).w >= 1 /\ GuardBox(i).h >= 1
    BY <1>7, <1>9, <1>10, <2>1
  <2> QED BY <1>2, <2>2 DEF Boxes
<1> QED BY <1>1, <1>2, <1>11, InsideIsVisible

(* The boxes are those of the preview the plan was made from; a face that  *)
(* was in it is in the plan's view of the frame, and a model that changed  *)
(* it has been overruled.                                                  *)
FacesInv ==
    /\ preview \in {NoPreview, CapLongEdge(shot.native, PreviewEdge)}
    /\ at \in {"incoming", "ingested"} => boxes = <<>> /\ face = Untouched
    /\ boxes # <<>> => boxes = FaceBoxes
    /\ SeenFaces # {} => "clahe_local_contrast" \notin plan
    /\ s.arcface => \A i \in SeenFaces :
           shot.faces[i].drifts /\ shot.faces[i].embeds /\ PixelLeft(Cut(shot.faces[i].box, preview))
               => face[i] # "restored"

LEMMA SeenFacesKept ==
    ASSUME shot \in Shots, NEW i \in FaceIds,
           preview \in {NoPreview, CapLongEdge(shot.native, PreviewEdge)},
           Visible(shot.faces[i].box, preview)
    PROVE  LET c == Cut(shot.faces[i].box, preview)
               b == ScaledBox(shot.faces[i].box, preview, shot.native)
           IN  /\ c.w \in Nat /\ c.h \in Nat /\ 0 < c.w /\ c.w <= b.w /\ 0 < c.h /\ c.h <= b.h
               /\ preview # NoPreview /\ b \in Boxes /\ BoxInside(b, shot.native)
<1>1. /\ shot.faces[i].box \in Boxes /\ shot.native \in [w : Nat \ {0}, h : Nat \ {0}]
      /\ PreviewEdge \in Nat
  BY FrameAssumption DEF FaceIds, Boxes
<1>2. preview # NoPreview
  BY <1>1 DEF Visible, Cut, NoPreview, Boxes, Larger, Smaller
<1>3. preview = CapLongEdge(shot.native, PreviewEdge)
  BY <1>2
<1>4. preview \in Frames /\ preview.w <= shot.native.w /\ preview.h <= shot.native.h
  BY <1>1, <1>3, CappedFrame, PreviewFits
<1>5. shot.native \in Frames /\ shot.native.w > 0 /\ shot.native.h > 0
  BY NativeFrame
<1>6. /\ ScaledBox(shot.faces[i].box, preview, shot.native) \in Boxes
      /\ BoxInside(ScaledBox(shot.faces[i].box, preview, shot.native), shot.native)
  BY <1>1, <1>4, <1>5, ScaledBoxInside
<1> QED BY <1>1, <1>2, <1>4, <1>5, <1>6, FaceKept

LEMMA FacesInit == Init => FacesInv
BY DEF Init, FacesInv, SeenFaces

LEMMA FacesPhase1 ==
    ASSUME BoxesInv, FacesInv, Phase1
    PROVE  FacesInv'
<1>1. /\ UNCHANGED <<shot, preview, face>> /\ boxes' = FaceBoxes /\ at = "ingested"
      /\ at' = "planned" /\ shot \in Shots /\ face = Untouched
      /\ preview \in {NoPreview, CapLongEdge(shot.native, PreviewEdge)}
      /\ plan' = PlanFromReport(Measured(shot.picture, shot.native), FaceInfos, shot.iso,
                                shot.native, s)
  BY DEF Phase1, FacesInv, BoxesInv
<1>2. FaceBoxes' = FaceBoxes
  BY <1>1 DEF FaceBoxes, FaceIds
<1>3. ASSUME NEW i \in SeenFaces'
      PROVE  i \in FaceIds /\ FaceInfos # {}
  <2>1. i \in DOMAIN FaceBoxes /\ Visible(shot.faces[i].box, preview)
    BY <1>1, <1>3 DEF SeenFaces
  <2>2. i \in FaceIds
    BY <2>1 DEF FaceBoxes
  <2>3. PICK b : b = ScaledBox(shot.faces[i].box, preview, shot.native)
    OBVIOUS
  <2>4. b \in Boxes /\ BoxInside(b, shot.native) /\ preview # NoPreview /\ b.w > 0 /\ b.h > 0
    <3>1. PICK c : c = Cut(shot.faces[i].box, preview)
      OBVIOUS
    <3>2. /\ c.w \in Nat /\ c.h \in Nat /\ 0 < c.w /\ c.w <= b.w /\ 0 < c.h /\ c.h <= b.h
          /\ b \in Boxes /\ BoxInside(b, shot.native) /\ preview # NoPreview
      BY <1>1, <2>1, <2>2, <2>3, <3>1, SeenFacesKept
    <3> QED BY <3>2 DEF Boxes
  <2>5. FaceBoxes[i] = b
    BY <2>2, <2>3, <2>4 DEF FaceBoxes
  <2>6. Visible(FaceBoxes[i], shot.native)
    BY <1>1, <2>4, <2>5, NativeFrame, InsideIsVisible
  <2> QED BY <2>1, <2>2, <2>6 DEF FaceInfos
<1>4. SeenFaces' # {} => "clahe_local_contrast" \notin plan'
  BY <1>1, <1>3, ReportPlan DEF LocalContrast
<1>5. \A i \in SeenFaces' : face'[i] # "restored"
  BY <1>1, <1>3 DEF Untouched
<1> QED BY <1>1, <1>2, <1>4, <1>5 DEF FacesInv, Untouched, FaceIds

LEMMA FacesRestore ==
    ASSUME PlanInv, BoxesInv, FacesInv, RestoreFaces
    PROVE  FacesInv'
<1>1. /\ UNCHANGED <<shot, at, preview, boxes, plan>> /\ at = "planned"
      /\ Shrunk.w > 0 /\ Shrunk.h > 0 /\ shot \in Shots
      /\ (face' = face \/ face' = [i \in FaceIds |-> Restored(i)])
  BY DEF RestoreFaces, NextModel, BoxesInv
<1>2. FaceBoxes' = FaceBoxes /\ s' = s /\ SeenFaces' = SeenFaces
  BY <1>1 DEF FaceBoxes, FaceIds, SeenFaces, s
<1>3. ASSUME s.arcface, NEW i \in SeenFaces, shot.faces[i].drifts, shot.faces[i].embeds,
             PixelLeft(Cut(shot.faces[i].box, preview))
      PROVE  face'[i] # "restored"
  <2>1. i \in DOMAIN boxes /\ Visible(shot.faces[i].box, preview)
    BY <1>3 DEF SeenFaces
  <2>2. boxes = FaceBoxes
    BY <2>1 DEF FacesInv
  <2>3. i \in FaceIds
    BY <2>1, <2>2 DEF FaceBoxes
  <2>4. PICK b, c : /\ b = ScaledBox(shot.faces[i].box, preview, shot.native)
                    /\ c = Cut(shot.faces[i].box, preview)
    OBVIOUS
  <2>5. /\ c.w \in Nat /\ c.h \in Nat /\ 0 < c.w /\ c.w <= b.w /\ 0 < c.h /\ c.h <= b.h
        /\ b \in Boxes /\ BoxInside(b, shot.native) /\ preview # NoPreview
    BY <1>1, <2>1, <2>3, <2>4, SeenFacesKept DEF FacesInv
  <2>6. boxes[i] = b
    BY <2>2, <2>3, <2>4, <2>5 DEF FaceBoxes
  <2>7. b.w * Smaller(s.aiScale, 1000) >= 1000 /\ b.h * Smaller(s.aiScale, 1000) >= 1000
    <3>1. PICK p \in Nat, q \in Nat, x \in Nat, y \in Nat, a \in Nat :
              p = c.w /\ q = c.h /\ x = b.w /\ y = b.h /\ a = Smaller(s.aiScale, 1000)
      <4>1. Smaller(s.aiScale, 1000) \in Nat
        BY <1>1, FrameAssumption DEF s, Smaller
      <4> QED BY <2>5, <4>1 DEF Boxes
    <3>2. Smaller(p, q) * a >= 1000
      BY <1>3, <2>4, <3>1 DEF PixelLeft
    <3>3. \A u, v \in Nat : u <= v /\ u * a >= 1000 => v * a >= 1000
      <4>1. \A u, d \in Nat : u * a >= 1000 => (u + d) * a >= 1000
        OBVIOUS
      <4>2. \A u, v \in Nat : u <= v => v - u \in Nat /\ v = u + (v - u)
        OBVIOUS
      <4> QED BY <4>1, <4>2
    <3>4. Smaller(p, q) \in Nat /\ Smaller(p, q) <= x /\ Smaller(p, q) <= y
      BY <2>5, <3>1 DEF Smaller
    <3>5. x * a >= 1000 /\ y * a >= 1000
      BY <3>2, <3>3, <3>4
    <3> QED BY <3>1, <3>5
  <2>8. Visible(GuardBox(i), Shrunk)
    <3>1. b.w > 0 /\ b.h > 0
      BY <2>5 DEF Boxes
    <3> QED BY <1>1, <2>1, <2>6, <2>7, <3>1, GuardBoxVisible
  <2>9. Restored(i) = "reverted"
    BY <1>3, <2>1, <2>8 DEF Restored, Recognised, Guarded
  <2> QED BY <1>1, <1>3, <2>3, <2>9 DEF FacesInv
<1>4. s'.arcface => \A i \in SeenFaces' :
          shot'.faces[i].drifts /\ shot'.faces[i].embeds /\ PixelLeft(Cut(shot.faces[i].box, preview))'
              => face'[i] # "restored"
  BY <1>1, <1>2, <1>3 DEF PixelLeft
<1>5. SeenFaces' # {} => "clahe_local_contrast" \notin plan'
  BY <1>1, <1>2 DEF FacesInv
<1> QED BY <1>1, <1>2, <1>4, <1>5 DEF FacesInv

LEMMA FacesStep == PlanInv /\ BoxesInv /\ FacesInv /\ [Next]_vars => FacesInv'
<1> SUFFICES ASSUME PlanInv, BoxesInv, FacesInv, [Next]_vars PROVE FacesInv'
  OBVIOUS
<1>1. ASSUME UNCHANGED <<shot, preview, boxes, plan, face>>, at' = at \/ at' \notin {"incoming", "ingested"}
      PROVE  FacesInv'
  <2>1. /\ FaceBoxes' = FaceBoxes /\ SeenFaces' = SeenFaces /\ s' = s /\ Untouched' = Untouched
        /\ NoPreview' = NoPreview
    BY <1>1 DEF FaceBoxes, FaceIds, SeenFaces, s, Untouched, NoPreview
  <2>2. \A i : PixelLeft(Cut(shot.faces[i].box, preview))' <=> PixelLeft(Cut(shot.faces[i].box, preview))
    BY <1>1, <2>1 DEF PixelLeft
  <2>3. s'.arcface => \A i \in SeenFaces' :
            shot'.faces[i].drifts /\ shot'.faces[i].embeds /\ PixelLeft(Cut(shot.faces[i].box, preview))'
                => face'[i] # "restored"
    BY <1>1, <2>1, <2>2 DEF FacesInv
  <2> QED BY <1>1, <2>1, <2>3 DEF FacesInv
<1>2. CASE Ingest
  <2>1. /\ UNCHANGED <<shot, boxes, plan, face>> /\ at = "incoming"
        /\ preview' \in {preview, CapLongEdge(shot.native, PreviewEdge)}
    BY <1>2 DEF Ingest, frame
  <2>2. boxes = <<>> /\ face = Untouched
    BY <2>1 DEF FacesInv
  <2>3. SeenFaces' = {}
    BY <2>1, <2>2 DEF SeenFaces
  <2> QED BY <2>1, <2>2, <2>3 DEF FacesInv, Untouched, FaceIds
<1>3. CASE LosePreview
  <2>1. UNCHANGED <<shot, boxes, plan, face, at>> /\ at = "ingested" /\ preview' = NoPreview
    BY <1>3 DEF LosePreview, frame
  <2>2. boxes = <<>> /\ face = Untouched
    BY <2>1 DEF FacesInv
  <2>3. SeenFaces' = {} /\ NoPreview' = NoPreview
    BY <2>1, <2>2 DEF SeenFaces, NoPreview
  <2> QED BY <2>1, <2>2, <2>3 DEF FacesInv, Untouched, FaceIds
<1>4. CASE Denoise \/ Upscale
  <2>1. UNCHANGED <<shot, preview, boxes, plan, face, at>>
    BY <1>4 DEF Denoise, Upscale, NextModel
  <2> QED BY <1>1, <2>1
<1>5. CASE ModelRaises \/ Finish \/ Export
  <2>1. UNCHANGED <<shot, preview, boxes, plan, face>> /\ at' \notin {"incoming", "ingested"}
    BY <1>5 DEF ModelRaises, Finish, Export, frame
  <2> QED BY <1>1, <2>1
<1>6. CASE Retry
  <2>1. /\ UNCHANGED <<shot, preview, boxes>> /\ at' = "retried" /\ face' = Untouched
        /\ plan' \subseteq plan
    BY <1>6 DEF Retry, RetryPlan, SafePlan
  <2>2. FaceBoxes' = FaceBoxes /\ SeenFaces' = SeenFaces
    BY <2>1 DEF FaceBoxes, FaceIds, SeenFaces
  <2>3. \A i \in SeenFaces : i \in FaceIds
    BY DEF SeenFaces, FacesInv, FaceBoxes
  <2>4. \A i \in SeenFaces : face'[i] # "restored"
    BY <2>1, <2>3 DEF Untouched
  <2> QED BY <2>1, <2>2, <2>4 DEF FacesInv
<1>7. CASE UNCHANGED vars
  BY <1>1, <1>7 DEF vars
<1> QED BY <1>2, <1>3, <1>4, <1>5, <1>6, <1>7, FacesPhase1, FacesRestore DEF Next

(* Local contrast never touches a frame with a face that was on its        *)
(* preview, and no restoration that made such a face another one stays, if *)
(* a pixel of it was left at the scale of the models (decision.py:235,     *)
(* face_restore.py:54, batch.py:241).                                      *)
THEOREM FacesStaySafe == Spec => []FacesAreSafe
<1>1. FacesInv /\ BoxesInFrame => FacesAreSafe
  BY DEF FacesInv, FacesAreSafe
<1> QED BY <1>1, PlanInit, PlanStep, BoxesInit, BoxesStep, BoxesStay, FacesInit, FacesStep, PTL
        DEF Spec

-----------------------------------------------------------------------------
(* Decoding.                                                               *)

LEMMA NoDecoderMadeIt == Broken # Upright
BY DEF Broken, Upright

(* What the walker takes in and a decoder reads comes out upright and in   *)
(* its own tones, unless it is a TIFF.                                     *)
LEMMA DecodedUpright ==
    ASSUME NEW f, NEW heicOk, DecodePreview(f, heicOk) # Broken, ClassifyKind(f, heicOk) # "tiff"
    PROVE  DecodePreview(f, heicOk) = Upright /\ ThumbOf(f, heicOk) = Upright
BY DEF DecodePreview, ThumbOf, DevelopRaw, LoadPillow, NoKind

LEMMA SharedUpright ==
    ASSUME NEW f, NEW heicOk, NEW e, DecodePreview(f, heicOk) # Broken,
           ClassifyKind(f, heicOk) # "tiff"
    PROVE  LET share1 == ConvertImage(f, heicOk, e)
           IN  share1.made = "jpeg" /\ ShownUpright(share1) /\ share1.tone = "display"
<1>1. CASE ClassifyKind(f, heicOk) = "jpeg" /\ e <= 0
  <2>1. DecodePreview(f, heicOk) = LoadPillow(f)
    BY <1>1 DEF DecodePreview, NoKind
  <2>2. f.content \in {"jpeg", "png", "heic"}
    BY <2>1 DEF LoadPillow
  <2>3. f.content = "jpeg"
    BY <1>1, <2>2 DEF ClassifyKind, SniffKind, NoKind
  <2> QED BY <1>1, <2>3 DEF ConvertImage, CopiedJpeg, ShownUpright
<1>2. CASE ~(ClassifyKind(f, heicOk) = "jpeg" /\ e <= 0)
  <2>1. ConvertImage(f, heicOk, e) = CopyExif(Upright)
    BY <1>2, DecodedUpright DEF ConvertImage
  <2> QED BY <2>1 DEF CopyExif, Upright, ShownUpright
<1> QED BY <1>1, <1>2

LEMMA RenderShown ==
    ASSUME shot \in Shots
    PROVE  /\ DecodePreview(Render, s.heicOk) # Broken
           /\ ClassifyKind(Render, s.heicOk) # "tiff"
<1>1. Render.content = "jpeg"
  BY FrameAssumption DEF Render, Files
<1>2. ClassifyKind(Render, s.heicOk) = "jpeg"
  BY <1>1 DEF ClassifyKind, SniffKind, NoKind
<1> QED BY <1>1, <1>2 DEF DecodePreview, LoadPillow, NoKind, Broken, Upright

(* A photo that was taken in can be decoded; one that was refused cannot.  *)
DecodedInv ==
    /\ shot \in Shots
    /\ at = "refused" => DecodePreview(shot.file, s.heicOk) = Broken
    /\ at = "ingested" \/ preview # NoPreview => DecodePreview(shot.file, s.heicOk) # Broken
    /\ share # NoShare /\ Kind # "tiff" =>
          share.made = "jpeg" /\ ShownUpright(share) /\ share.tone = "display"

LEMMA DecodedStep == DecodedInv /\ [Next]_vars => DecodedInv'
<1> SUFFICES ASSUME DecodedInv, [Next]_vars PROVE DecodedInv'
  OBVIOUS
<1> USE DEF DecodedInv
<1>0. shot' = shot /\ s' = s /\ Kind' = Kind /\ NoPreview' = NoPreview /\ NoShare' = NoShare
      /\ shot \in Shots
  <2>1. shot' = shot
    BY DEF Next, vars, frame, Ingest, LosePreview, Phase1, Denoise, Upscale, RestoreFaces,
           NextModel, ModelRaises, Finish, Retry, Export
  <2> QED BY <2>1 DEF s, Kind, NoPreview, NoShare
<1>1. CASE Ingest
  BY <1>0, <1>1 DEF Ingest
<1>2. CASE LosePreview
  BY <1>0, <1>2 DEF LosePreview
<1>3. ASSUME UNCHANGED <<preview, share>>, at' \notin {"refused", "ingested"}
      PROVE  DecodedInv'
  BY <1>0, <1>3
<1>4. CASE Phase1 \/ Denoise \/ Upscale \/ RestoreFaces \/ ModelRaises \/ Finish \/ Retry
  <2>1. UNCHANGED <<preview, share>> /\ at' \notin {"refused", "ingested"}
    BY <1>4 DEF Phase1, Denoise, Upscale, RestoreFaces, NextModel, ModelRaises, Finish, Retry,
                frame
  <2> QED BY <1>3, <2>1
<1>5. CASE Export
  <2>1. UNCHANGED preview /\ at' = "exported"
        /\ share' = ConvertImage(SourceJpeg, s.heicOk, s.jpegLongEdge)
    BY <1>5 DEF Export
  <2>2. CASE SourceJpeg = Render
    BY <1>0, <2>1, <2>2, RenderShown, SharedUpright
  <2>3. CASE SourceJpeg = shot.file /\ at = "ingested"
    BY <1>0, <2>1, <2>3, SharedUpright DEF Kind
  <2> QED BY <1>5, <2>2, <2>3 DEF Export, SourceJpeg
<1>6. CASE UNCHANGED vars
  BY <1>0, <1>6 DEF vars
<1> QED BY <1>1, <1>2, <1>4, <1>5, <1>6 DEF Next

(* Whatever a file is named, one whose bytes name its format is taken in,  *)
(* and its preview, its thumbnail and its share JPEG show it upright and   *)
(* in its own tones (decode.py, preview/jpeg_writer.py,                    *)
(* export/jpeg_writer.py).                                                 *)
THEOREM PhotosShownAsShot == Spec => []ShownAsShot
<1>1. Init => DecodedInv
  BY DEF Init, DecodedInv
<1>2. DecodedInv => ShownAsShot
  <2> SUFFICES ASSUME DecodedInv PROVE ShownAsShot
    OBVIOUS
  <2>1. at = "refused" => shot.file.content \notin {"jpeg", "png"}
    BY DEF DecodedInv, DecodePreview, ClassifyKind, SniffKind, LoadPillow, NoKind, Broken, Upright
  <2>2. preview # NoPreview /\ Kind # "tiff" =>
            DecodePreview(shot.file, s.heicOk) = Upright /\ ThumbOf(shot.file, s.heicOk) = Upright
    BY DecodedUpright DEF DecodedInv, Kind
  <2> QED BY <2>1, <2>2 DEF ShownAsShot, DecodedInv
<1> QED BY <1>1, <1>2, DecodedStep, PTL DEF Spec

-----------------------------------------------------------------------------
(* Failures.                                                               *)

LEMMA AxisReflects ==
    ASSUME NEW edge \in Nat, edge > ScunetPad
    PROVE  Axis(edge)
<1>1. /\ ScunetTile \in Nat /\ ScunetTile > 0 /\ Multiple \in Nat /\ Multiple > 0
      /\ ScunetPad \in Nat /\ 2 * ScunetPad >= Multiple
  BY FrameAssumption
<1> SUFFICES ASSUME NEW t \in Cores(edge, ScunetTile)
             PROVE  CanReflect(ContextEnd(t, edge, ScunetTile, ScunetPad)
                                   - ContextStart(t, ScunetPad), Multiple)
  BY DEF Axis
<1> QED BY <1>1, ContextReflects

\* A share of n that rounds to nothing was at most a half.
LEMMA RoundedToNothing ==
    ASSUME NEW n \in Nat, NEW d \in Nat, d > 0, Rounded(n, d) = 0
    PROVE  n < d
<1>1. /\ n \div d \in Nat /\ n % d \in 0..(d - 1) /\ n = d * (n \div d) + (n % d)
  BY Division
<1>2. n \div d = 0
  BY <1>1 DEF Rounded
<1>3. n = n % d
  BY <1>1, <1>2
<1> QED BY <1>1, <1>3

LEMMA CapLeavesNothing ==
    ASSUME NEW f \in Frames, f.w > 0, f.h > 0,
           CapForFaces(f, FaceEdge).w <= 0 \/ CapForFaces(f, FaceEdge).h <= 0
    PROVE  LongEdge(f) > FaceEdge * Smaller(f.w, f.h)
<1> DEFINE d == LongEdge(f)
<1>1. f.w \in Nat /\ f.h \in Nat /\ FaceEdge \in Nat /\ d \in Nat /\ d > 0
  BY FrameAssumption DEF Frames, LongEdge, Larger
<1> HIDE DEF d
<1>2. CapForFaces(f, FaceEdge) = Scaled(f, FaceEdge, d)
  BY <1>1 DEF CapForFaces, d
<1>3. f.w * FaceEdge \in Nat /\ f.h * FaceEdge \in Nat
  BY <1>1
<1>4. Rounded(f.w * FaceEdge, d) = 0 \/ Rounded(f.h * FaceEdge, d) = 0
  <2>1. Rounded(f.w * FaceEdge, d) \in Nat /\ Rounded(f.h * FaceEdge, d) \in Nat
    BY <1>1, <1>3, RoundedNat
  <2>2. Rounded(f.w * FaceEdge, d) <= 0 \/ Rounded(f.h * FaceEdge, d) <= 0
    BY <1>2 DEF Scaled
  <2> QED BY <2>1, <2>2
<1>5. f.w * FaceEdge < d \/ f.h * FaceEdge < d
  BY <1>1, <1>3, <1>4, RoundedToNothing
<1>6. FaceEdge * Smaller(f.w, f.h) <= f.w * FaceEdge /\ FaceEdge * Smaller(f.w, f.h) <= f.h * FaceEdge
  <2>1. \A a, b, c \in Nat : a <= b => c * a <= b * c
    <3>1. \A a, k, c \in Nat : c * a <= (a + k) * c
      OBVIOUS
    <3>2. \A a, b \in Nat : a <= b => b - a \in Nat /\ b = a + (b - a)
      OBVIOUS
    <3> QED BY <3>1, <3>2
  <2>2. Smaller(f.w, f.h) \in Nat /\ Smaller(f.w, f.h) <= f.w /\ Smaller(f.w, f.h) <= f.h
    BY <1>1 DEF Smaller
  <2> QED BY <1>1, <2>1, <2>2
<1>7. FaceEdge * Smaller(f.w, f.h) \in Nat
  BY <1>1 DEF Smaller
<1>8. d > FaceEdge * Smaller(f.w, f.h)
  BY <1>1, <1>3, <1>5, <1>6, <1>7
<1> QED BY <1>8 DEF d

LEMMA ModelFails ==
    ASSUME BoxesInv, ModelRaises
    PROVE  FailsWhenTooNarrow'
<1>1. /\ UNCHANGED <<shot, preview, frame, share>> /\ at = "planned"
      /\ \/ Shrunk.w = 0 \/ Shrunk.h = 0
         \/ ~(Axis(Shrunk.w) /\ Axis(Shrunk.h))
         \/ ~(CapForFaces(Shrunk, FaceEdge).w > 0 /\ CapForFaces(Shrunk, FaceEdge).h > 0)
  BY DEF ModelRaises, CanDenoise, CanRestore
<1>2. Shrunk \in Frames
  BY <1>1, ShrunkFrame DEF BoxesInv
<1>3. Shrunk' = Shrunk
  BY <1>1 DEF frame, Shrunk, Reduced, s
<1>4. Shrunk.w \in Nat /\ Shrunk.h \in Nat /\ ScunetPad \in Nat
  BY <1>2, FrameAssumption DEF Frames
<1>5. \/ Smaller(Shrunk.w, Shrunk.h) <= ScunetPad
      \/ LongEdge(Shrunk) > FaceEdge * Smaller(Shrunk.w, Shrunk.h)
  <2>1. CASE Smaller(Shrunk.w, Shrunk.h) <= ScunetPad
    BY <2>1
  <2>2. CASE Shrunk.w > ScunetPad /\ Shrunk.h > ScunetPad
    <3>1. Axis(Shrunk.w) /\ Axis(Shrunk.h)
      BY <1>4, <2>2, AxisReflects
    <3>2. Shrunk.w > 0 /\ Shrunk.h > 0
      BY <1>4, <2>2
    <3>3. Scaled(Shrunk, FaceEdge, LongEdge(Shrunk)) \in Frames
      <4>1. LongEdge(Shrunk) \in Nat /\ LongEdge(Shrunk) > 0 /\ FaceEdge \in Nat
        BY <1>4, <3>2, FrameAssumption DEF LongEdge, Larger
      <4> QED BY <1>2, <4>1, ScaledFrame
    <3>4. CapForFaces(Shrunk, FaceEdge) \in Frames
      BY <1>2, <3>3 DEF CapForFaces
    <3>5. CapForFaces(Shrunk, FaceEdge).w <= 0 \/ CapForFaces(Shrunk, FaceEdge).h <= 0
      BY <1>1, <1>4, <3>1, <3>2, <3>4 DEF Frames
    <3> QED BY <1>2, <3>2, <3>5, CapLeavesNothing
  <2> QED BY <1>4, <2>1, <2>2 DEF Smaller
<1> QED BY <1>3, <1>5 DEF FailsWhenTooNarrow

(* The half of NoSeams about failures: a model step raises for the frame's *)
(* shape only when an edge is no longer than a tile's context or the cap   *)
(* for the face detector leaves nothing of it, whatever the tile           *)
(* (denoise.py, face_restore.py).                                          *)
THEOREM FailuresAreNarrow == Spec => []FailsWhenTooNarrow
<1>1. Init => FailsWhenTooNarrow
  BY DEF Init, FailsWhenTooNarrow
<1>2. BoxesInv /\ FailsWhenTooNarrow /\ [Next]_vars => FailsWhenTooNarrow'
  <2> SUFFICES ASSUME BoxesInv, FailsWhenTooNarrow, [Next]_vars PROVE FailsWhenTooNarrow'
    OBVIOUS
  <2>1. CASE ModelRaises
    BY <2>1, ModelFails
  <2>2. CASE UNCHANGED vars
    BY <2>2 DEF vars, FailsWhenTooNarrow, Shrunk, Reduced, s
  <2>3. CASE /\ ~ModelRaises
             /\ Next
    <3>1. at' # "failed"
      BY <2>3 DEF Next, frame, Ingest, LosePreview, Phase1, Denoise, Upscale, RestoreFaces,
             NextModel, Finish, Retry, Export
    <3> QED BY <3>1 DEF FailsWhenTooNarrow
  <2> QED BY <2>1, <2>2, <2>3
<1> QED BY <1>1, <1>2, BoxesInit, BoxesStep, PTL DEF Spec

-----------------------------------------------------------------------------
(* Seams.                                                                  *)

\* The weight of a window, or of what is none.
WeightIfAny(p, w, length) ==
    IF w \in Windows(length, Tile, Overlap) THEN Weight(p, w, length) ELSE 0

\* The sum of the weights at a pixel that three windows hold at most: the fold
\* is the one function that the equation of its steps allows, by the
\* well-foundedness of inclusion.
LEMMA SumOfThree ==
    ASSUME NEW p, NEW length, IsFiniteSet(Windows(length, Tile, Overlap)),
           \A w \in Windows(length, Tile, Overlap) : Weight(p, w, length) \in Int,
           NEW u, NEW v, NEW z, u # v, u # z, v # z,
           \A w \in Windows(length, Tile, Overlap) \ {u, v, z} : Weight(p, w, length) = 0
    PROVE  SumOfWeights(p, length) =
               WeightIfAny(p, u, length) + WeightIfAny(p, v, length) + WeightIfAny(p, z, length)
<1> DEFINE W == Windows(length, Tile, Overlap)
           wt(w) == Weight(p, w, length)
           part(w, V) == IF w \in V THEN wt(w) ELSE 0
           one(V) == CHOOSE x \in V : TRUE
           step(g) == [V \in SUBSET W |-> IF V = {} THEN 0 ELSE wt(one(V)) + g[V \ {one(V)}]]
           h == [V \in SUBSET W |-> part(u, V) + part(v, V) + part(z, V)]
<1>1. PICK g : SumOfWeights(p, length) = g[W] /\ ((\E f : f = step(f)) => g = step(g))
  BY DEF SumOfWeights, MapThenSumSet, MapThenFoldSet
<1>2. \A w \in W : wt(w) \in Int /\ (w \notin {u, v, z} => wt(w) = 0)
  OBVIOUS
<1>3. IsFiniteSet(W)
  OBVIOUS
<1> HIDE DEF W, wt
<1>4. \A V \in SUBSET W : V # {} => one(V) \in V /\ one(V) \in W /\ V \ {one(V)} \in SUBSET W
  OBVIOUS
<1> HIDE DEF one
<1>5. \A V \in SUBSET W : V # {} => h[V] = wt(one(V)) + h[V \ {one(V)}]
  <2> SUFFICES ASSUME NEW V \in SUBSET W, V # {} PROVE h[V] = wt(one(V)) + h[V \ {one(V)}]
    OBVIOUS
  <2> DEFINE c == one(V)
  <2>1. c \in V /\ c \in W /\ V \ {c} \in SUBSET W
    BY <1>4
  <2> HIDE DEF c
  <2>2. \A w : part(w, V) = IF w = c THEN wt(c) ELSE part(w, V \ {c})
    BY <2>1
  <2>3. part(c, V \ {c}) = 0
    OBVIOUS
  <2>4. \A w, t : t \in SUBSET W => part(w, t) \in Int
    BY <1>2
  <2>5. h[V] = part(u, V) + part(v, V) + part(z, V)
        /\ h[V \ {c}] = part(u, V \ {c}) + part(v, V \ {c}) + part(z, V \ {c})
    BY <2>1
  <2> HIDE DEF part, h
  <2>6. h[V] = wt(c) + h[V \ {c}]
    <3>1. CASE c \notin {u, v, z}
      <4>1. wt(c) = 0
        BY <1>2, <2>1, <3>1
      <4> QED BY <2>1, <2>2, <2>4, <2>5, <3>1, <4>1
    <3>2. CASE c = u
      <4>1. part(u, V) = wt(c) /\ part(u, V \ {c}) = 0
        BY <2>2, <2>3, <3>2
      <4>2. v # c /\ z # c
        BY <3>2
      <4>3. part(v, V) = part(v, V \ {c}) /\ part(z, V) = part(z, V \ {c})
        BY <2>2, <4>2
      <4>4. part(v, V) \in Int /\ part(z, V) \in Int /\ wt(c) \in Int
        BY <1>2, <2>1, <2>4
      <4> QED BY <2>5, <4>1, <4>3, <4>4
    <3>3. CASE c = v
      <4>1. part(v, V) = wt(c) /\ part(v, V \ {c}) = 0
        BY <2>2, <2>3, <3>3
      <4>2. u # c /\ z # c
        BY <3>3
      <4>3. part(u, V) = part(u, V \ {c}) /\ part(z, V) = part(z, V \ {c})
        BY <2>2, <4>2
      <4>4. part(u, V) \in Int /\ part(z, V) \in Int /\ wt(c) \in Int
        BY <1>2, <2>1, <2>4
      <4> QED BY <2>5, <4>1, <4>3, <4>4
    <3>4. CASE c = z
      <4>1. part(z, V) = wt(c) /\ part(z, V \ {c}) = 0
        BY <2>2, <2>3, <3>4
      <4>2. u # c /\ v # c
        BY <3>4
      <4>3. part(u, V) = part(u, V \ {c}) /\ part(v, V) = part(v, V \ {c})
        BY <2>2, <4>2
      <4>4. part(u, V) \in Int /\ part(v, V) \in Int /\ wt(c) \in Int
        BY <1>2, <2>1, <2>4
      <4> QED BY <2>5, <4>1, <4>3, <4>4
    <3> QED BY <3>1, <3>2, <3>3, <3>4
  <2> QED BY <2>6 DEF c
<1>6. h = step(h)
  <2>1. h[{}] = 0
    OBVIOUS
  <2>2. \A V \in SUBSET W : h[V] = IF V = {} THEN 0 ELSE wt(one(V)) + h[V \ {one(V)}]
    BY <1>5, <2>1
  <2>3. h = [V \in SUBSET W |-> h[V]]
    OBVIOUS
  <2> HIDE DEF h
  <2> QED BY <2>2, <2>3
<1> HIDE DEF h
<1>7. g = step(g)
  <2>1. \E f : f = step(f)
    <3> HIDE DEF step
    <3> WITNESS h
    <3> QED BY <1>6
  <2> QED BY <1>1, <2>1 DEF W, wt, one
<1>8. \A V \in SUBSET W : g[V] = IF V = {} THEN 0 ELSE wt(one(V)) + g[V \ {one(V)}]
  BY <1>7
<1>9. \A V \in SUBSET W : h[V] = IF V = {} THEN 0 ELSE wt(one(V)) + h[V \ {one(V)}]
  <2> HIDE DEF step
  <2>1. \A V \in SUBSET W : step(h)[V] = IF V = {} THEN 0 ELSE wt(one(V)) + h[V \ {one(V)}]
    BY DEF step
  <2> QED BY <1>6, <2>1
<1>10. \A V \in SUBSET W : g[V] = h[V]
  <2> SUFFICES ASSUME NEW t \in SUBSET W, g[t] # h[t] PROVE FALSE
    OBVIOUS
  <2> DEFINE B == {V \in SUBSET W : g[V] # h[V]}
  <2>1. B \subseteq FiniteSubsetsOf(W) /\ B # {}
    BY <1>3, FS_Subset DEF FiniteSubsetsOf
  <2>2. IsWellFoundedOn(StrictSubsetOrdering(W), FiniteSubsetsOf(W))
    BY <1>3, FS_StrictSubsetOrderingWellFounded
  <2>3. PICK x \in B : \A y \in B : ~(<<y, x>> \in StrictSubsetOrdering(W))
    BY <2>1, <2>2, WFMin
  <2>4. x \in SUBSET W /\ g[x] # h[x] /\ x # {}
    BY <1>8, <1>9, <2>3
  <2>5. one(x) \in x /\ x \ {one(x)} \in SUBSET W
    BY <1>4, <2>4
  <2>6. <<x \ {one(x)}, x>> \in StrictSubsetOrdering(W)
    BY <2>4, <2>5 DEF StrictSubsetOrdering
  <2>7. g[x \ {one(x)}] = h[x \ {one(x)}]
    BY <2>3, <2>5, <2>6
  <2> QED BY <1>8, <1>9, <2>4, <2>7
<1>11. SumOfWeights(p, length) = h[W]
  BY <1>1, <1>10
<1> QED BY <1>11 DEF h, W, wt, WeightIfAny

\* How the share of a window changes from one pixel to the next.
LEMMA SharesApart ==
    ASSUME NEW k \in Nat, NEW a \in 0..(k + 1), NEW b \in 0..(k + 1),
           a - b \in -1..1, NEW m \in Nat, NEW n \in Nat, m >= k + 1, n >= k + 1, n - m \in -1..1
    PROVE  Apart(a * n, b * m) * (k + 1) < 2 * m * n
<1> DEFINE d == Apart(a * n, b * m)
<1>1. a * n - b * m = a * (n - m) + (a - b) * m
  OBVIOUS
<1>2. a * (n - m) \in {-a, 0, a} /\ (a - b) * m \in {-m, 0, m}
  OBVIOUS
<1>3. a * n \in Int /\ b * m \in Int
  OBVIOUS
<1>4. d \in Nat /\ d <= a + m
  BY <1>1, <1>2, <1>3 DEF Apart
<1> HIDE DEF d
<1>5. m * (k + 1) <= m * n /\ 0 < m * (k + 1)
  <2>1. n = k + 1 + (n - k - 1) /\ n - k - 1 \in Nat
    OBVIOUS
  <2>2. \A x \in Nat : m * (k + 1 + x) = m * (k + 1) + m * x /\ m * x >= 0
    OBVIOUS
  <2>3. m * n = m * (k + 1) + m * (n - k - 1) /\ m * (n - k - 1) >= 0
    BY <2>1, <2>2
  <2> QED BY <2>3
<1>6. CASE d < 2 * m
  <2>1. d * (k + 1) < 2 * m * (k + 1)
    BY <1>4, <1>6
  <2> QED BY <1>4, <1>5, <2>1 DEF d
<1>7. CASE d >= 2 * m
  <2>1. a = m /\ a = k + 1 /\ d = 2 * m
    BY <1>4, <1>7
  <2>2. a - b # -1
    BY <2>1
  <2>3. d = Apart(0, a * (n - m) + (a - b) * m)
    BY <1>1, <1>3 DEF Apart, d
  <2>4. n = k + 2
    BY <1>2, <2>1, <2>2, <2>3 DEF Apart
  <2>5. 2 * (k + 1) * (k + 1) < 2 * (k + 1) * (k + 2)
    OBVIOUS
  <2>6. d * (k + 1) < 2 * m * n
    BY <2>1, <2>4, <2>5
  <2> QED BY <2>6 DEF d
<1> QED BY <1>4, <1>6, <1>7

\* What one window weighs at a pixel of a frame longer than a tile.
LEMMA WeightIs ==
    ASSUME NEW length \in Nat, length > Tile, NEW p \in 0..(length - 1), NEW w \in 0..(length - Tile)
    PROVE  Weight(p, w, length) =
               IF w <= p /\ p < w + Tile
               THEN Smaller(IF w = 0 THEN Overlap + 1 ELSE Smaller(p - w + 1, Overlap + 1),
                            IF w + Tile = length THEN Overlap + 1 ELSE Smaller(w + Tile - p, Overlap + 1))
               ELSE 0
BY FrameAssumption DEF Weight, Pixels, Ramp, Smaller

LEMMA WeightSlope ==
    ASSUME NEW length \in Nat, length > Tile, NEW p \in 0..(length - 1), NEW w \in 0..(length - Tile)
    PROVE  /\ Weight(p, w, length) \in 0..(Overlap + 1)
           /\ p + 1 < length => Weight(p, w, length) - Weight(p + 1, w, length) \in -1..1
<1>1. Weight(p, w, length) \in 0..(Overlap + 1)
  BY WeightIs, FrameAssumption DEF Smaller
<1>2. ASSUME p + 1 < length PROVE Weight(p, w, length) - Weight(p + 1, w, length) \in -1..1
  <2>1. p + 1 \in 0..(length - 1)
    BY <1>2
  <2> QED BY <2>1, WeightIs, FrameAssumption DEF Smaller
<1> QED BY <1>1, <1>2

\* The windows of an axis longer than a tile: whole strides from 0 to the last
\* below the shifted window.
LEMMA WindowsAre ==
    ASSUME NEW length \in Nat, length > Tile
    PROVE  \E k \in Nat :
             /\ k * (Tile - Overlap) < length - Tile
             /\ length - Tile <= k * (Tile - Overlap) + (Tile - Overlap)
             /\ Windows(length, Tile, Overlap) =
                    {j * (Tile - Overlap) : j \in 0..k} \cup {length - Tile}
<1> DEFINE stride == Tile - Overlap
           z == length - Tile
           k == (z - 1) \div stride
<1>1. stride \in Nat \ {0} /\ z \in Nat \ {0} /\ stride = Stride(Tile, Overlap)
  BY FrameAssumption DEF Stride, Larger
<1>2. z - 1 = stride * k + ((z - 1) % stride) /\ (z - 1) % stride \in 0..(stride - 1) /\ k \in Nat
  <2>1. z - 1 \in Nat
    BY <1>1
  <2>2. stride \in Nat /\ stride > 0
    BY <1>1
  <2> HIDE DEF z, stride
  <2> DEFINE n == z - 1
  <2> HIDE DEF n
  <2>3. n \in Nat
    BY <2>1 DEF n
  <2>4. n = stride * (n \div stride) + (n % stride) /\ n % stride \in 0..(stride - 1) /\ n \div stride \in Nat
    BY <2>2, <2>3, Division
  <2> QED BY <2>4 DEF n
<1>3. z <= length /\ length \in Nat
  BY FrameAssumption
<1> HIDE DEF stride, k, z
<1>4. k * stride < z /\ z <= k * stride + stride
  BY <1>1, <1>2
<1>5. \A j \in Nat : j * stride \in Nat /\ j <= j * stride
  BY <1>1
<1>6. \A j \in Nat : j <= k <=> j * stride < z
  <2>1. \A i, j \in Nat : i <= j => i * stride <= j * stride
    BY <1>1
  <2>2. (k + 1) * stride = k * stride + stride
    BY <1>1, <1>2
  <2> SUFFICES ASSUME NEW j \in Nat PROVE j <= k <=> j * stride < z
    OBVIOUS
  <2>3. CASE j <= k
    BY <1>1, <1>2, <1>4, <1>5, <2>1, <2>3
  <2>4. CASE k + 1 <= j
    <3>1. (k + 1) * stride <= j * stride
      BY <1>2, <2>1, <2>4
    <3>2. z <= j * stride
      BY <1>1, <1>2, <1>4, <1>5, <2>2, <3>1
    <3> QED BY <1>1, <1>2, <1>5, <2>4, <3>2
  <2> QED BY <1>2, <2>3, <2>4
<1>7. {j * stride : j \in 0..k} = {j * stride : j \in 0..length} \cap 0..(z - 1)
  <2>1. \A j \in 0..k : j \in 0..length /\ j * stride \in 0..(z - 1)
    <3> SUFFICES ASSUME NEW j \in 0..k PROVE j \in 0..length /\ j * stride \in 0..(z - 1)
      OBVIOUS
    <3>1. j \in Nat /\ j * stride \in Nat /\ j <= j * stride /\ j * stride < z
      BY <1>2, <1>5, <1>6
    <3> QED BY <1>1, <1>3, <3>1
  <2>2. \A j \in 0..length : j * stride \in 0..(z - 1) => j \in 0..k
    <3> SUFFICES ASSUME NEW j \in 0..length, j * stride \in 0..(z - 1) PROVE j \in 0..k
      OBVIOUS
    <3>1. j \in Nat /\ j * stride < z
      BY <1>1, <1>3
    <3> QED BY <1>2, <1>6, <3>1
  <2> QED BY <2>1, <2>2
<1>8. Windows(length, Tile, Overlap) = {j * stride : j \in 0..k} \cup {z}
  BY <1>1, <1>7, FrameAssumption DEF Windows, Starts, z
<1> QED BY <1>2, <1>4, <1>8 DEF stride, z

\* Two neighbouring strides fade into each other to one whole; the shifted
\* window comes in before the last of them is over.
LEMMA SumIs ==
    ASSUME NEW length \in Nat, length > Tile, NEW p \in 0..(length - 1), NEW k \in Nat,
           k * (Tile - Overlap) < length - Tile,
           length - Tile <= k * (Tile - Overlap) + (Tile - Overlap),
           Windows(length, Tile, Overlap) = {j * (Tile - Overlap) : j \in 0..k} \cup {length - Tile}
    PROVE  SumOfWeights(p, length) =
               Smaller(Overlap + 1, Larger(0, k * (Tile - Overlap) + Tile - p))
                 + Smaller(Overlap + 1, Larger(0, p - (length - Tile) + 1))
<1> DEFINE stride == Tile - Overlap
           W == Windows(length, Tile, Overlap)
           y == k * stride
           z == length - Tile
           q == p \div stride
           j == Smaller(q, k)
           u == j * stride
           v == (j - 1) * stride
           part(w) == WeightIfAny(p, w, length)
<1>1. stride \in Nat \ {0} /\ z \in Nat \ {0} /\ z + Tile = length /\ Overlap \in Nat /\ Tile \in Nat
      /\ Overlap <= stride /\ stride + Overlap = Tile
  BY FrameAssumption
<1>2. y \in Nat /\ y < z /\ z <= y + stride /\ W = {i * stride : i \in 0..k} \cup {z}
  BY FrameAssumption
<1>3. q \in Nat /\ q * stride <= p /\ p < q * stride + stride
  <2>1. stride \in Nat /\ stride > 0 /\ p \in Nat
    BY <1>1
  <2> HIDE DEF stride
  <2>2. p = stride * q + (p % stride) /\ p % stride \in 0..(stride - 1) /\ q \in Nat
    BY <2>1, Division
  <2> QED BY <2>1, <2>2
<1> HIDE DEF stride, z, q, W
<1>4. \A a, b \in Int : a * stride \in Int /\ (a <= b => a * stride <= b * stride)
      /\ (a - 1) * stride = a * stride - stride /\ (a + 1) * stride = a * stride + stride
  BY <1>1
<1>5. j \in 0..k /\ (j = k \/ (j = q /\ q < k))
  <2>1. CASE q <= k
    <3>1. j = q
      BY <2>1 DEF Smaller
    <3> HIDE DEF j
    <3> QED BY <1>3, <2>1, <3>1
  <2>2. CASE ~(q <= k)
    <3>1. j = k
      BY <2>2 DEF Smaller
    <3> HIDE DEF j
    <3> QED BY <3>1
  <2> QED BY <2>1, <2>2
<1> HIDE DEF j
<1>6. u \in Int /\ v \in Int /\ v = u - stride /\ 0 <= u
  BY <1>1, <1>4, <1>5
<1>7. u <= p /\ (u = y \/ (p < u + stride /\ u + stride <= y))
  <2>1. CASE j = k
    <3>1. u = y
      BY <2>1
    <3>4. j <= q
      BY <1>3, <1>5, <2>1 DEF j, Smaller
    <3>5. u <= q * stride
      BY <1>3, <1>4, <1>5, <3>4
    <3> QED BY <1>3, <1>4, <1>6, <3>1, <3>5
  <2>2. CASE j = q /\ q < k
    <3>1. (j + 1) * stride <= k * stride /\ (j + 1) * stride = u + stride
      BY <1>3, <1>4, <2>2
    <3> QED BY <1>3, <2>2, <3>1
  <2> QED BY <1>5, <2>1, <2>2
<1>8. u \in W /\ z \in W /\ (v \in W <=> u # 0)
  <2>1. u \in W /\ z \in W
    BY <1>2, <1>5
  <2>2. ASSUME u # 0 PROVE v \in W
    <3>1. j # 0
      BY <1>1, <1>4, <2>2
    <3>2. j - 1 \in 0..k
      BY <1>5, <3>1
    <3> QED BY <1>2, <3>2
  <2>3. ASSUME u = 0 PROVE v \notin W
    <3>1. v < 0
      BY <1>1, <1>6, <2>3
    <3>2. \A w \in W : 0 <= w
      BY <1>1, <1>2, <1>4
    <3>3. ASSUME v \in W PROVE FALSE
      <4>1. 0 <= v
        BY <3>2, <3>3
      <4> QED BY <1>6, <3>1, <4>1
    <3> QED BY <3>3
  <2> QED BY <2>1, <2>2, <2>3
<1>9. \A w \in W : w \in 0..z
  <2>1. \A i \in 0..k : i * stride \in 0..y
    BY <1>1, <1>4
  <2> QED BY <1>1, <1>2, <2>1
<1>10. \A w \in W : Weight(p, w, length) =
               IF w <= p /\ p < w + Tile
               THEN Smaller(IF w = 0 THEN Overlap + 1 ELSE Smaller(p - w + 1, Overlap + 1),
                            IF w = z THEN Overlap + 1 ELSE Smaller(w + Tile - p, Overlap + 1))
               ELSE 0
  <2> SUFFICES ASSUME NEW w \in W PROVE Weight(p, w, length) =
               IF w <= p /\ p < w + Tile
               THEN Smaller(IF w = 0 THEN Overlap + 1 ELSE Smaller(p - w + 1, Overlap + 1),
                            IF w = z THEN Overlap + 1 ELSE Smaller(w + Tile - p, Overlap + 1))
               ELSE 0
    OBVIOUS
  <2>1. w \in 0..(length - Tile)
    BY <1>9 DEF z
  <2>2. w + Tile = length <=> w = z
    BY <1>1, <2>1 DEF z
  <2> QED BY <2>1, <2>2, WeightIs
<1>11. \A w \in W \ {u, v, z} : Weight(p, w, length) = 0
  <2> SUFFICES ASSUME NEW w \in W \ {u, v, z} PROVE Weight(p, w, length) = 0
    OBVIOUS
  <2>1. PICK i \in 0..k : w = i * stride
    BY <1>2
  <2>2. i # j /\ i # j - 1
    BY <2>1
  <2>3. CASE i >= j + 1
    <3>1. (j + 1) * stride <= w
      BY <1>4, <1>5, <2>1, <2>3
    <3>2. j # k
      BY <1>5, <2>3
    <3>3. j = q
      BY <1>5, <3>2
    <3>4. p < u + stride /\ u + stride <= w
      BY <1>3, <1>4, <1>5, <3>1, <3>3
    <3>5. w \in Int /\ u + stride \in Int /\ p \in Int
      BY <1>1, <1>4, <1>6, <2>1
    <3>6. ~(w <= p)
      BY <3>4, <3>5
    <3> QED BY <1>10, <3>6
  <2>4. CASE i <= j - 2
    <3>1. w <= (j - 2) * stride
      BY <1>4, <1>5, <2>1, <2>4
    <3>2. (j - 2) * stride = u - stride - stride
      BY <1>1, <1>5
    <3>3. w + Tile <= p
      BY <1>1, <1>4, <1>6, <1>7, <2>1, <3>1, <3>2
    <3> QED BY <1>1, <1>9, <1>10, <3>3
  <2> QED BY <1>5, <2>2, <2>3, <2>4
<1>12. IsFiniteSet(W)
  <2>1. W \subseteq 0..z
    BY <1>9
  <2>2. IsFiniteSet(0..z)
    BY <1>1, FS_Interval
  <2> QED BY <2>1, <2>2, FS_Subset
<1>13. \A w \in W : Weight(p, w, length) \in Int
  BY <1>1, <1>9, <1>10 DEF Smaller
<1> HIDE DEF u, v, y
<1>14. SumOfWeights(p, length) = part(u) + part(v) + part(z)
  <2>1. u # v /\ u # z /\ v # z
    BY <1>1, <1>2, <1>6, <1>7
  <2>2. IsFiniteSet(Windows(length, Tile, Overlap))
        /\ (\A w \in Windows(length, Tile, Overlap) : Weight(p, w, length) \in Int)
        /\ (\A w \in Windows(length, Tile, Overlap) \ {u, v, z} : Weight(p, w, length) = 0)
    BY <1>11, <1>12, <1>13 DEF W
  <2> QED BY <2>1, <2>2, SumOfThree
<1>15. \A w : part(w) = IF w \in W THEN Weight(p, w, length) ELSE 0
  BY DEF WeightIfAny, W
<1> HIDE DEF part
<1>16. u \in 0..z /\ u < z
  BY <1>1, <1>2, <1>6, <1>7
<1>17. part(z) = Smaller(Overlap + 1, Larger(0, p - z + 1))
  BY <1>1, <1>8, <1>10, <1>15 DEF Smaller, Larger
<1>18. part(u) + part(v) = Smaller(Overlap + 1, Larger(0, y + Tile - p))
  <2>1. CASE u = 0
    <3>1. part(v) = 0
      BY <1>8, <1>15, <2>1
    <3>2. part(u) = IF p < Tile THEN Smaller(Tile - p, Overlap + 1) ELSE 0
      BY <1>1, <1>8, <1>10, <1>16, <1>15, <2>1 DEF Smaller
    <3>3. p < Tile => Smaller(Tile - p, Overlap + 1) = Smaller(Overlap + 1, Larger(0, y + Tile - p))
      BY <1>1, <1>2, <1>7, <2>1 DEF Smaller, Larger
    <3>4. ~(p < Tile) => 0 = Smaller(Overlap + 1, Larger(0, y + Tile - p))
      BY <1>1, <1>2, <1>7, <2>1 DEF Smaller, Larger
    <3>5. part(u) \in Int
      BY <1>1, <3>2 DEF Smaller
    <3> QED BY <3>1, <3>2, <3>3, <3>4, <3>5
  <2>2. CASE u # 0
    <3>1. part(u) = IF p < u + Tile
                    THEN Smaller(Smaller(p - u + 1, Overlap + 1), Smaller(u + Tile - p, Overlap + 1)) ELSE 0
      BY <1>1, <1>7, <1>8, <1>10, <1>16, <1>15, <2>2
    <3>2. v \in W /\ v # z /\ v <= p
      BY <1>1, <1>2, <1>6, <1>7, <1>8, <1>16, <2>2
    <3>3. part(v) = IF p < u + Overlap THEN u + Overlap - p ELSE 0
      BY <1>1, <1>6, <1>7, <1>10, <1>15, <3>2 DEF Smaller
    <3> QED BY <1>1, <1>2, <1>6, <1>7, <2>2, <3>1, <3>3 DEF Smaller, Larger
  <2> QED BY <2>1, <2>2
<1>19. part(u) \in Int /\ part(v) \in Int /\ part(z) \in Int
  BY <1>13, <1>15
<1> QED BY <1>14, <1>17, <1>18, <1>19 DEF y, z, stride

\* On an axis longer than a tile no pixel is worth less than one window in
\* full, and the sum moves in single steps.
LEMMA SumSlope ==
    ASSUME NEW length \in Nat, length > Tile, NEW p \in 0..(length - 1)
    PROVE  /\ SumOfWeights(p, length) \in Nat /\ SumOfWeights(p, length) >= Overlap + 1
           /\ p + 1 < length => SumOfWeights(p + 1, length) - SumOfWeights(p, length) \in -1..1
<1>1. PICK k \in Nat :
        /\ k * (Tile - Overlap) < length - Tile
        /\ length - Tile <= k * (Tile - Overlap) + (Tile - Overlap)
        /\ Windows(length, Tile, Overlap) = {j * (Tile - Overlap) : j \in 0..k} \cup {length - Tile}
  BY WindowsAre
<1> DEFINE y == k * (Tile - Overlap)
           z == length - Tile
           sum(i) == Smaller(Overlap + 1, Larger(0, y + Tile - i)) + Smaller(Overlap + 1, Larger(0, i - z + 1))
<1>2. \A i \in 0..(length - 1) : SumOfWeights(i, length) = sum(i)
  BY <1>1, SumIs
<1>3. y \in Int /\ z \in Int /\ y < z /\ z <= y + Tile - Overlap
      /\ Overlap \in Nat /\ Tile \in Nat /\ 2 * Overlap <= Tile
  BY <1>1, FrameAssumption
<1> HIDE DEF y, z
<1>4. \A i \in Int : sum(i) \in Nat /\ sum(i) >= Overlap + 1 /\ sum(i + 1) - sum(i) \in -1..1
  BY <1>3 DEF Smaller, Larger
<1> HIDE DEF sum
<1>5. SumOfWeights(p, length) = sum(p) /\ p \in Int
  BY <1>2
<1>6. ASSUME p + 1 < length PROVE SumOfWeights(p + 1, length) = sum(p + 1)
  <2>1. p + 1 \in 0..(length - 1)
    BY <1>6
  <2> QED BY <1>2, <2>1
<1> QED BY <1>4, <1>5, <1>6

\* An axis that one tile holds has one window, which weighs the same everywhere.
LEMMA OneWindow ==
    ASSUME NEW length \in Nat \ {0}, length <= Tile
    PROVE  /\ Windows(length, Tile, Overlap) = {0}
           /\ \E c \in Nat \ {0} : \A p \in 0..(length - 1) :
                 Weight(p, 0, length) = c /\ SumOfWeights(p, length) = c
<1>1. Windows(length, Tile, Overlap) = {0}
  BY DEF Windows, Starts
<1> DEFINE c == Smaller(Overlap, length) + 1
<1>2. c \in Nat \ {0}
  BY FrameAssumption DEF Smaller
<1>3. ASSUME NEW p \in 0..(length - 1) PROVE Weight(p, 0, length) = c /\ SumOfWeights(p, length) = c
  <2>1. Weight(p, 0, length) = c
    BY FrameAssumption DEF Weight, Pixels, Ramp, Smaller
  <2> HIDE DEF c
  <2>2. IsFiniteSet(Windows(length, Tile, Overlap))
    <3>1. IsFiniteSet({0})
      BY FS_Singleton
    <3> QED BY <1>1, <3>1
  <2>3. \A w \in Windows(length, Tile, Overlap) : Weight(p, w, length) \in Int
    BY <1>1, <1>2, <2>1
  <2>4. \A w \in Windows(length, Tile, Overlap) \ {0, -1, -2} : Weight(p, w, length) = 0
    BY <1>1
  <2>5. SumOfWeights(p, length) =
            WeightIfAny(p, 0, length) + WeightIfAny(p, -1, length) + WeightIfAny(p, -2, length)
    BY <2>2, <2>3, <2>4, SumOfThree
  <2> QED BY <1>1, <1>2, <2>1, <2>5 DEF WeightIfAny
<1> QED BY <1>1, <1>2, <1>3

\* No tile shows on an axis of any length.
THEOREM SeamsFade == ASSUME NEW length \in Nat PROVE SeamFree(length)
<1>1. ASSUME NEW p \in 0..(length - 1)
      PROVE  \E w \in Windows(length, Tile, Overlap) : p \in Pixels(w, length, Tile)
  <2>1. length > 0 /\ Tile \in Nat /\ Tile > 0 /\ Overlap \in Nat
    BY FrameAssumption
  <2> QED BY <2>1, WindowsCover
<1>2. ASSUME NEW p \in 0..(length - 1), p + 1 < length, NEW w \in Windows(length, Tile, Overlap)
      PROVE  Apart(Weight(p, w, length) * SumOfWeights(p + 1, length),
                   Weight(p + 1, w, length) * SumOfWeights(p, length)) * (Overlap + 1)
               < 2 * SumOfWeights(p, length) * SumOfWeights(p + 1, length)
  <2>1. p + 1 \in 0..(length - 1) /\ length # 0
    BY <1>2
  <2>2. CASE length <= Tile
    <3>1. w = 0
      BY <2>1, <2>2, OneWindow
    <3>2. PICK c \in Nat \ {0} : \A i \in 0..(length - 1) :
                Weight(i, 0, length) = c /\ SumOfWeights(i, length) = c
      BY <2>1, <2>2, OneWindow
    <3>3. Apart(c * c, c * c) * (Overlap + 1) = 0 /\ 0 < 2 * c * c
      BY FrameAssumption DEF Apart
    <3> QED BY <2>1, <3>1, <3>2, <3>3
  <2>3. CASE length > Tile
    <3> DEFINE m == SumOfWeights(p, length)
               n == SumOfWeights(p + 1, length)
               a == Weight(p, w, length)
               b == Weight(p + 1, w, length)
    <3>1. w \in 0..(length - Tile)
      BY <2>3, FrameAssumption DEF Windows, Starts
    <3>2. a \in 0..(Overlap + 1) /\ b \in 0..(Overlap + 1) /\ a - b \in -1..1
      BY <1>2, <2>1, <2>3, <3>1, WeightSlope
    <3>3. m \in Nat /\ m >= Overlap + 1 /\ n \in Nat /\ n >= Overlap + 1 /\ n - m \in -1..1
      BY <1>2, <2>1, <2>3, SumSlope
    <3>4. Overlap \in Nat
      BY FrameAssumption
    <3> HIDE DEF m, n, a, b
    <3>5. Apart(a * n, b * m) * (Overlap + 1) < 2 * m * n
      BY <3>2, <3>3, <3>4, SharesApart
    <3> QED BY <3>5 DEF m, n, a, b
  <2> QED BY <2>1, <2>2, <2>3, FrameAssumption
<1> QED BY <1>1, <1>2 DEF SeamFree

(* No tile of Real-ESRGAN shows: whatever the size of the frame it is      *)
(* given, its windows cover each axis, and between two neighbouring pixels *)
(* the share of a window changes by less than two steps of the fade, when  *)
(* the tile is at least two overlaps wide, as upscale.py has it; and a     *)
(* model step fails for the shape of a frame only if that is too narrow.   *)
THEOREM NoTileShows == Spec => []NoSeams
<1>1. BoxesInv /\ FailsWhenTooNarrow => NoSeams
  <2> SUFFICES ASSUME BoxesInv, FailsWhenTooNarrow, at = "planned"
               PROVE  SeamFree(Shrunk.w) /\ SeamFree(Shrunk.h)
    BY DEF NoSeams
  <2>1. Shrunk \in Frames
    BY ShrunkFrame DEF BoxesInv
  <2> QED BY <2>1, SeamsFade DEF Frames
<1> QED BY <1>1, BoxesInit, BoxesStep, FailuresAreNarrow, PTL DEF Spec
=============================================================================
