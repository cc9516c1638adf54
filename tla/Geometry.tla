------------------------------ MODULE Geometry ------------------------------
(***************************************************************************)
(* The integer arithmetic of frames, windows and boxes under the           *)
(* enhancement chain (src/app/enhancement/tiling.py, denoise.py,           *)
(* geometry.py, upsample_final.py, preview/jpeg_writer.py).  A size is     *)
(* [w, h], a box [x, y, w, h], both in pixels.  Tiling works on each axis  *)
(* by itself: the weight of a window at a pixel is the product of its      *)
(* weights along the two axes, and so is the sum over all windows, so that *)
(* one axis says everything.  FrameProofs proves what the operators        *)
(* guarantee for every length, tile and overlap.                           *)
(***************************************************************************)
EXTENDS Integers, FiniteSets

Smaller(a, b) == IF a <= b THEN a ELSE b
Larger(a, b) == IF a >= b THEN a ELSE b
LongEdge(s) == Larger(s.w, s.h)

\* Python's round() of n / d: halves go to the even neighbour.
Rounded(n, d) ==
    LET q == n \div d  r == n % d
    IN IF 2 * r < d \/ (2 * r = d /\ q % 2 = 0) THEN q ELSE q + 1

-----------------------------------------------------------------------------
(* Real-ESRGAN: windows of exactly `tile` pixels, the last one shifted back *)
(* to the edge, cross-faded over `overlap`.                                 *)

\* Mutant of Starts: only whole strides.
StartsWhole(length, tile, stride) ==
    IF length <= tile THEN {0}
    ELSE {k * stride : k \in 0..length} \cap 0..(length - tile - 1)
Starts(length, tile, stride) ==
    IF length <= tile THEN {0}
    ELSE ({k * stride : k \in 0..length} \cap 0..(length - tile - 1)) \cup {length - tile}

Stride(tile, overlap) == Larger(1, tile - overlap)
Windows(length, tile, overlap) == Starts(length, tile, Stride(tile, overlap))
Pixels(s, length, tile) == s .. (Smaller(s + tile, length) - 1)

\* The weight of pixel i of a window of n pixels, in units of 1 / (k + 1).
Ramp(i, n, k, first, last) ==
    Smaller(IF first THEN k + 1 ELSE Smaller(i + 1, k + 1),
            IF last THEN k + 1 ELSE Smaller(n - i, k + 1))

-----------------------------------------------------------------------------
(* SCUNet: abutting output tiles, each computed with `pad` pixels of        *)
(* context and reflected up to a multiple of `multiple`.                    *)

Cores(length, tile) == {k * tile : k \in 0..length} \cap 0..(length - 1)
Core(t, length, tile) == t .. (Smaller(t + tile, length) - 1)
ContextStart(t, pad) == Larger(0, t - pad)
ContextEnd(t, length, tile, pad) == Smaller(length, t + tile + pad)
Reflected(n, multiple) == (multiple - (n % multiple)) % multiple
\* torch reflects at most n - 1 of n pixels
CanReflect(n, multiple) == Reflected(n, multiple) < n

-----------------------------------------------------------------------------
(* Boxes, targets and caps.                                                *)

\* One axis of a scaled box: its start and its extent.
Clamped(x, length) == Smaller(Larger(x, 0), length - 1)
ScaledBox(b, src, dst) ==
    LET x == Clamped(Rounded(b.x * dst.w, Larger(src.w, 1)), dst.w)
        y == Clamped(Rounded(b.y * dst.h, Larger(src.h, 1)), dst.h)
    IN [x |-> x, y |-> y,
        w |-> Smaller(Rounded(b.w * dst.w, Larger(src.w, 1)), dst.w - x),
        h |-> Smaller(Rounded(b.h * dst.h, Larger(src.h, 1)), dst.h - y)]

\* The part of a box that lies in the frame, and whether there is one.
Cut(b, s) ==
    LET x == Larger(b.x, 0)  y == Larger(b.y, 0)
    IN [x |-> x, y |-> y, w |-> Smaller(b.x + b.w, s.w) - x, h |-> Smaller(b.y + b.h, s.h) - y]
Visible(b, s) == Cut(b, s).w > 0 /\ Cut(b, s).h > 0

Scaled(s, n, d) == [w |-> Rounded(s.w * n, d), h |-> Rounded(s.h * n, d)]
AtLeastOne(s) == [w |-> Larger(1, s.w), h |-> Larger(1, s.h)]

\* enhance_target_res: "native", a percentage, or a size.
Target(spec, native) ==
    IF spec.kind = "native" THEN native
    ELSE IF spec.kind = "percent" THEN AtLeastOne(Scaled(native, spec.percent, 100))
    ELSE AtLeastOne(spec.size)

\* No positive cap means native resolution; never larger than the source.
CapLongEdge(s, cap) ==
    IF cap <= 0 \/ LongEdge(s) <= cap THEN s
    ELSE AtLeastOne(Scaled(s, cap, LongEdge(s)))

\* CodeFormer's own cap has no lower bound of one pixel.
CapForFaces(s, cap) == IF LongEdge(s) <= cap THEN s ELSE Scaled(s, cap, LongEdge(s))
=============================================================================
