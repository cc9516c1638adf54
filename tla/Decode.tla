------------------------------- MODULE Decode -------------------------------
(***************************************************************************)
(* Which decoder a file goes to and what comes out of it, at ingest and at *)
(* export (src/app/ingest/decode.py, walker.py, preview/jpeg_writer.py,    *)
(* export/jpeg_writer.py).  A file is                                      *)
(*   [ext, content, turned, embedded, samples, depth, profile]             *)
(* where an extension is named by the kind it stands for, `turned` says    *)
(* that the pixels are stored rotated and an Orientation tag says how, and *)
(* a picture is [turned, tone]: its pixels, and whether they are display   *)
(* values ("display"), all black ("black"), or no picture at all ("none"). *)
(* LibRaw, Pillow, tifffile and exiftool are modelled by what the code     *)
(* asks of them.                                                           *)
(***************************************************************************)
EXTENDS Integers

Kinds == {"raw", "jpeg", "tiff", "heic", "png"}
NoKind == "no kind"

KindFromExt(f) == IF f.ext \in Kinds THEN f.ext ELSE NoKind
\* TIFF magic is ambiguous: most RAW formats have it too.
SniffKind(f) == IF f.content \in {"jpeg", "png", "heic"} THEN f.content ELSE NoKind

\* Mutant of ClassifyKind: the extension is believed.
ClassifyKindByName(f, heicOk) ==
    IF KindFromExt(f) = "heic" /\ ~heicOk THEN NoKind ELSE KindFromExt(f)
ClassifyKind(f, heicOk) ==
    LET kind == IF SniffKind(f) # NoKind THEN SniffKind(f) ELSE KindFromExt(f)
    IN IF kind = "heic" /\ ~heicOk THEN NoKind ELSE kind

SupportedExts(heicOk) == IF heicOk THEN Kinds ELSE Kinds \ {"heic"}
Walked(f, heicOk) == f.ext \in SupportedExts(heicOk)

-----------------------------------------------------------------------------

Broken == [turned |-> FALSE, tone |-> "none"]
Upright == [turned |-> FALSE, tone |-> "display"]

DevelopRaw(f) == IF f.content = "raw" THEN Upright ELSE Broken

\* Only the display-referred encodings of 8 and 16 bits come out as they
\* should: two samples cannot be written as JPEG, and a float image that is
\* not a linear master is clipped to 0..255 as if it were of 8 bits.
LoadTiff(f) ==
    IF f.content # "tiff" \/ f.samples = 2 THEN Broken
    ELSE [turned |-> f.turned,
          tone |-> IF f.profile # "linear" /\ f.depth = "float" THEN "black" ELSE "display"]

LoadPillow(f) == IF f.content \in {"jpeg", "png", "heic"} THEN Upright ELSE Broken

\* What decode_preview returns, Broken for what it raises.
DecodePreview(f, heicOk) ==
    CASE ClassifyKind(f, heicOk) = NoKind -> Broken
      [] ClassifyKind(f, heicOk) = "raw"  -> DevelopRaw(f)
      [] ClassifyKind(f, heicOk) = "tiff" -> LoadTiff(f)
      [] OTHER                            -> LoadPillow(f)

\* The embedded JPEG of a RAW, its own tag honoured, else the preview.
ThumbOf(f, heicOk) ==
    IF ClassifyKind(f, heicOk) = "raw" /\ f.embedded = "jpeg" THEN Upright
    ELSE DecodePreview(f, heicOk)

-----------------------------------------------------------------------------
(* A share JPEG is [made, turned, tag, tone]: `tag` is an Orientation that *)
(* viewers apply.                                                          *)

NoShare == [made |-> "nothing", turned |-> FALSE, tag |-> FALSE, tone |-> "none"]

\* exiftool copies every tag but Orientation and sets that to 1.
CopyExif(picture) ==
    [made |-> "jpeg", turned |-> picture.turned, tag |-> FALSE, tone |-> picture.tone]

CopiedJpeg(f) ==
    [made |-> f.content, turned |-> f.turned, tag |-> f.turned, tone |-> "display"]

ConvertImage(f, heicOk, longEdge) ==
    IF ClassifyKind(f, heicOk) = "jpeg" /\ longEdge <= 0 THEN CopiedJpeg(f)
    ELSE IF DecodePreview(f, heicOk) = Broken THEN NoShare
    ELSE CopyExif(DecodePreview(f, heicOk))

\* What a viewer shows of a share JPEG is upright.
ShownUpright(share) == share.turned = share.tag
=============================================================================
