------------------------------- MODULE MCExport -------------------------------
(* Instances of Export for TLC: two photos, r a RAW file and j a JPEG.     *)
EXTENDS Export, TLC

CONSTANTS r, j
MCPhoto == {r, j}
MCRaw == {r}
\* the photos have JPEG paths of their own
MCDest == (r :> "r.jpg") @@ (j :> "j.jpg")
MCPath == {"r.jpg", "j.jpg", "same.jpg"}
\* a RAW file and a JPEG of the same name, as cameras write them
MCSameDest == [p \in MCPhoto |-> "same.jpg"]
=============================================================================
