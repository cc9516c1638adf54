-------------------------------- MODULE Export --------------------------------
(***************************************************************************)
(* The export stage (export/export_job.py) and the requests that stage     *)
(* decisions while it runs (api/routes/decide.py, decision/bulk.py).       *)
(*                                                                         *)
(* run_export is one database transaction around a loop over files: the    *)
(* rows are read once, the files of each photo are changed at once, and    *)
(* the rows are written by the commit at the end.  A request reads rows,   *)
(* decides which columns to write from what it read, and writes only those *)
(* columns when it commits: another request, or the export, may commit in  *)
(* between.  The export runs in a process of its own, which may be killed  *)
(* or fail to commit at any point: what it did to files then stays, what   *)
(* it would have written to the rows is lost.                              *)
(*                                                                         *)
(* A file is what a path holds: the picture of a photo, complete or not.   *)
(* How the picture was rendered and encoded is left out.                   *)
(***************************************************************************)
EXTENDS Naturals, FiniteSets

CONSTANTS
    Photo,        \* the photos of the batch, each with one original file
    RawPhoto,     \* those whose original is a RAW file: enhance develops them
    Path,         \* paths below photos/jpeg/
    Dest,         \* _dest_for: the path of the share JPEG of a photo
    Occupied,     \* photos whose path in library/ holds some other file
    Cluster,      \* the photos of one cluster
    Recommended,  \* those of them that are recommended
    KeepDefault,  \* settings.keep_raw_default
    Request,      \* requests to /decide that may be in progress at once
    Overlap,      \* whether requests and exports overlap in time
    MaxDeaths     \* bound on the number of exports that die

ASSUME PhotoAssumption == RawPhoto \subseteq Photo /\ Occupied \subseteq Photo
ASSUME DestAssumption == Dest \in [Photo -> Path]
ASSUME ClusterAssumption == Recommended \subseteq Cluster /\ Cluster \subseteq Photo
ASSUME SwitchAssumption == KeepDefault \in BOOLEAN /\ Overlap \in BOOLEAN
ASSUME MaxDeathsAssumption == MaxDeaths \in Nat
ASSUME PlaceholderAssumption == {"none", "partial"} \cap Photo = {}

VARIABLES
    \* the rows of photos and decisions: export_choice ("absent" without a
    \* row), the rows with keep_raw, with applied, and the photos whose
    \* source_path lies in library/
    choice, keepRaw, applied, archived,
    \* the files: where the original of a photo is, which photos have a
    \* developed render, and what a path below photos/jpeg/ holds
    original, developed, jpeg,
    \* run_export: whether it runs, the photos still to do, the one it has
    \* converted, those it has set applied = 1 and source_path for, and the
    \* keep_raw it read
    exporting, todo, at, marked, moved, seenKeep,
    \* a request: whether it is about to commit, the rows it inserts, and the
    \* columns it writes
    reqPc, inserted, newChoice, newKeep,
    deaths

rowVars == <<choice, keepRaw, applied, archived>>
fileVars == <<original, developed, jpeg>>
exportVars == <<exporting, todo, at, marked, moved, seenKeep>>
requestVars == <<reqPc, inserted, newChoice, newKeep>>
vars == <<choice, keepRaw, applied, archived, original, developed, jpeg, exporting, todo,
          at, marked, moved, seenKeep, reqPc, inserted, newChoice, newKeep, deaths>>

EXPORT_CHOICES == {"undecided", "discard", "original", "enhanced"}
KEEP_CHOICES == {"original", "enhanced"}
Same == "same"   \* a column that is not written
Flags == {"yes", "no", Same}

TypeOK ==
    /\ choice \in [Photo -> EXPORT_CHOICES \union {"absent"}]
    /\ keepRaw \subseteq Photo
    /\ applied \subseteq Photo
    /\ archived \subseteq Photo
    /\ original \in [Photo -> {"incoming", "library", "deleted"}]
    /\ developed \subseteq RawPhoto
    /\ jpeg \in [Path -> Photo \union {"none", "partial"}]
    /\ exporting \in BOOLEAN
    /\ todo \subseteq Photo
    /\ at \in Photo \union {"none"}
    /\ marked \subseteq Photo
    /\ moved \subseteq marked
    /\ seenKeep \subseteq Photo
    /\ reqPc \in [Request -> {"idle", "staged"}]
    /\ inserted \in [Request -> SUBSET Photo]
    /\ newChoice \in [Request -> [Photo -> EXPORT_CHOICES \union {Same}]]
    /\ newKeep \in [Request -> [Photo -> Flags]]
    /\ deaths \in 0..MaxDeaths

(* After ingest: every original in incoming/, no decision, no JPEG.        *)
Init ==
    /\ choice = [p \in Photo |-> "absent"]
    /\ keepRaw = {}
    /\ applied = {}
    /\ archived = {}
    /\ original = [p \in Photo |-> "incoming"]
    /\ developed = {}
    /\ jpeg = [f \in Path |-> "none"]
    /\ exporting = FALSE
    /\ todo = {}
    /\ at = "none"
    /\ marked = {}
    /\ moved = {}
    /\ seenKeep = {}
    /\ reqPc = [c \in Request |-> "idle"]
    /\ inserted = [c \in Request |-> {}]
    /\ newChoice = [c \in Request |-> [p \in Photo |-> Same]]
    /\ newKeep = [c \in Request |-> [p \in Photo |-> Same]]
    /\ deaths = 0

(***************************************************************************)
(* The requests of decide.py                                               *)
(***************************************************************************)

(* Mutant of ChoiceToWrite: applied rows are not locked.                   *)
ChoiceToWriteUnlocked(p, want) ==
    IF want = choice[p] THEN Same
    ELSE IF choice[p] = "absent" /\ want = Same THEN "undecided"
    ELSE want

(* The columns a request would write: those of unlocked rows it changes.   *)
(* A new row gets the defaults of its columns.                             *)
ChoiceToWrite(p, want) ==
    IF p \in applied \/ want = choice[p] THEN Same
    ELSE IF choice[p] = "absent" /\ want = Same THEN "undecided"
    ELSE want

KeepToWrite(p, want) ==
    IF p \in applied THEN Same
    ELSE IF choice[p] = "absent"
         THEN IF want # Same THEN want ELSE IF KeepDefault THEN "yes" ELSE "no"
    ELSE IF want = (IF p \in keepRaw THEN "yes" ELSE "no") THEN Same
    ELSE want

(* A request has read the rows of these photos and changed its copies.     *)
Load(c, photos, want, keep) ==
    /\ reqPc[c] = "idle"
    /\ Overlap \/ ~exporting
    /\ reqPc' = [reqPc EXCEPT ![c] = "staged"]
    /\ inserted' = [inserted EXCEPT ![c] = {p \in photos : choice[p] = "absent"}]
    /\ newChoice' = [newChoice EXCEPT ![c] = [p \in Photo |->
                        IF p \in photos THEN ChoiceToWrite(p, want[p]) ELSE Same]]
    /\ newKeep' = [newKeep EXCEPT ![c] = [p \in Photo |->
                        IF p \in photos THEN KeepToWrite(p, keep) ELSE Same]]
    /\ UNCHANGED <<rowVars, fileVars, exportVars, deaths>>

(* POST /decide: without a choice or a flag it may still set the stars.    *)
StageDecision(c, p, ch, keep) ==
    Load(c, {p}, [q \in Photo |-> ch], keep)

(* POST /decide/all                                                        *)
StageAll(c, ch, keep) ==
    /\ ch # Same \/ keep # Same
    /\ Load(c, Photo, [q \in Photo |-> ch], keep)

(* POST /decide/cluster                                                    *)
ClusterChoice(mode, p) ==
    IF mode = "keep_all" \/ (mode = "keep_recommended" /\ p \in Recommended)
    THEN "enhanced" ELSE "discard"

StageCluster(c, mode) ==
    Load(c, Cluster, [q \in Photo |-> ClusterChoice(mode, q)], Same)

(* The commit; an insert of a row that has been inserted since is an       *)
(* IntegrityError, and the transaction is rolled back.                     *)
Stage(c) ==
    /\ reqPc[c] = "staged"
    /\ reqPc' = [reqPc EXCEPT ![c] = "idle"]
    /\ inserted' = [inserted EXCEPT ![c] = {}]
    /\ newChoice' = [newChoice EXCEPT ![c] = [p \in Photo |-> Same]]
    /\ newKeep' = [newKeep EXCEPT ![c] = [p \in Photo |-> Same]]
    /\ IF \E p \in inserted[c] : choice[p] # "absent"
       THEN UNCHANGED <<choice, keepRaw>>
       ELSE /\ choice' = [p \in Photo |-> IF newChoice[c][p] = Same THEN choice[p]
                                          ELSE newChoice[c][p]]
            /\ keepRaw' = {p \in Photo : \/ newKeep[c][p] = "yes"
                                         \/ newKeep[c][p] = Same /\ p \in keepRaw}
    /\ UNCHANGED <<applied, archived, fileVars, exportVars, deaths>>

(***************************************************************************)
(* The files                                                               *)
(***************************************************************************)

(* Path(photo.source_path).exists()                                        *)
RawExists(p) == original[p] = IF p \in archived THEN "library" ELSE "incoming"

(* Mutant of HasSource: no fallback for an enhanced photo without render.   *)
HasSourceNoFallback(p) ==
    IF choice[p] = "enhanced" THEN p \in developed ELSE p \in developed \/ RawExists(p)

(* _source_jpeg(...).exists(): a developed render, or the original itself  *)
HasSource(p) == p \in developed \/ RawExists(p)

(* The enhance stage wrote the renders of a RAW photo.                     *)
Enhance(p) ==
    /\ ~exporting
    /\ p \in RawPhoto
    /\ RawExists(p)
    /\ developed' = developed \union {p}
    /\ UNCHANGED <<rowVars, original, jpeg, exportVars, requestVars, deaths>>

(***************************************************************************)
(* run_export                                                              *)
(***************************************************************************)

Keepers == {p \in Photo : choice[p] \in KEEP_CHOICES}

(* Mutant of ExportStart: the rows are not selected by applied = 0.        *)
ExportStartAgain ==
    /\ ~exporting
    /\ Overlap \/ \A c \in Request : reqPc[c] = "idle"
    /\ Keepers # {}
    /\ exporting' = TRUE
    /\ todo' = Keepers
    /\ seenKeep' = keepRaw \intersect Keepers
    /\ UNCHANGED <<rowVars, fileVars, at, marked, moved, requestVars, deaths>>

(* The rows are read; without any to do the job ends.                      *)
ExportStart ==
    /\ ~exporting
    /\ Overlap \/ \A c \in Request : reqPc[c] = "idle"
    /\ Keepers \ applied # {}
    /\ exporting' = TRUE
    /\ todo' = Keepers \ applied
    /\ seenKeep' = keepRaw \intersect (Keepers \ applied)
    /\ UNCHANGED <<rowVars, fileVars, at, marked, moved, requestVars, deaths>>

(* "skip: source render missing"                                           *)
Skip(p) ==
    /\ exporting /\ at = "none" /\ p \in todo
    /\ ~HasSource(p)
    /\ todo' = todo \ {p}
    /\ UNCHANGED <<rowVars, fileVars, exporting, at, marked, moved, seenKeep, requestVars,
                   deaths>>

(* convert_image_to_jpeg has written the JPEG.                             *)
Convert(p) ==
    /\ exporting /\ at = "none" /\ p \in todo
    /\ HasSource(p)
    /\ jpeg' = [jpeg EXCEPT ![Dest[p]] = p]
    /\ at' = p
    /\ UNCHANGED <<rowVars, original, developed, exporting, todo, marked, moved, seenKeep,
                   requestVars, deaths>>

(* Mutant of ConvertFail: the exception is swallowed, retention follows.   *)
ConvertFailSwallowed(p) ==
    /\ exporting /\ at = "none" /\ p \in todo
    /\ HasSource(p)
    /\ at' = p
    /\ UNCHANGED <<rowVars, fileVars, exporting, todo, marked, moved, seenKeep,
                   requestVars, deaths>>

(* It raised: before the JPEG was opened, or while it was being written.   *)
ConvertFail(p) ==
    /\ exporting /\ at = "none" /\ p \in todo
    /\ HasSource(p)
    /\ \E content \in {jpeg[Dest[p]], "partial"} :
            jpeg' = [jpeg EXCEPT ![Dest[p]] = content]
    /\ todo' = todo \ {p}
    /\ UNCHANGED <<rowVars, original, developed, exporting, at, marked, moved, seenKeep,
                   requestVars, deaths>>

(* Mutant of Retain: the row is not set to applied.                        *)
RetainUnmarked(p) ==
    /\ exporting /\ at = p
    /\ RawExists(p) /\ p \in seenKeep => p \notin Occupied
    /\ original' = [original EXCEPT ![p] =
                        IF ~RawExists(p) THEN @
                        ELSE IF p \in seenKeep THEN "library" ELSE "deleted"]
    /\ moved' = IF RawExists(p) /\ p \in seenKeep THEN moved \union {p} ELSE moved
    /\ at' = "none"
    /\ todo' = todo \ {p}
    /\ UNCHANGED <<rowVars, developed, jpeg, exporting, marked, seenKeep, requestVars,
                   deaths>>

(* Mutant of Retain: source_path is not updated after the move.            *)
RetainKeepsPath(p) ==
    /\ exporting /\ at = p
    /\ RawExists(p) /\ p \in seenKeep => p \notin Occupied
    /\ original' = [original EXCEPT ![p] =
                        IF ~RawExists(p) THEN @
                        ELSE IF p \in seenKeep THEN "library" ELSE "deleted"]
    /\ marked' = marked \union {p}
    /\ at' = "none"
    /\ todo' = todo \ {p}
    /\ UNCHANGED <<rowVars, developed, jpeg, exporting, moved, seenKeep, requestVars,
                   deaths>>

(* Retention, then applied = 1 on the row in memory.  Without a file at    *)
(* source_path there is nothing to retain.                                 *)
Retain(p) ==
    /\ exporting /\ at = p
    /\ RawExists(p) /\ p \in seenKeep => p \notin Occupied
    /\ original' = [original EXCEPT ![p] =
                        IF ~RawExists(p) THEN @
                        ELSE IF p \in seenKeep THEN "library" ELSE "deleted"]
    /\ moved' = IF RawExists(p) /\ p \in seenKeep THEN moved \union {p} ELSE moved
    /\ marked' = marked \union {p}
    /\ at' = "none"
    /\ todo' = todo \ {p}
    /\ UNCHANGED <<rowVars, developed, jpeg, exporting, seenKeep, requestVars, deaths>>

(* The move or the delete raised: library/ holds such a file already, or   *)
(* the file system refuses.                                                *)
RetainFail(p) ==
    /\ exporting /\ at = p
    /\ RawExists(p)
    /\ at' = "none"
    /\ todo' = todo \ {p}
    /\ UNCHANGED <<rowVars, fileVars, exporting, marked, moved, seenKeep, requestVars,
                   deaths>>

Stopped ==
    /\ exporting' = FALSE
    /\ todo' = {}
    /\ at' = "none"
    /\ marked' = {}
    /\ moved' = {}
    /\ seenKeep' = {}

(* The commit of session_scope at the end of the loop.                     *)
Commit ==
    /\ exporting /\ at = "none" /\ todo = {}
    /\ applied' = applied \union marked
    /\ archived' = archived \union moved
    /\ Stopped
    /\ UNCHANGED <<choice, keepRaw, fileVars, requestVars, deaths>>

(* The process is killed, possibly while it writes a JPEG, or the commit   *)
(* fails.                                                                  *)
ExportDies ==
    /\ exporting
    /\ deaths < MaxDeaths
    /\ deaths' = deaths + 1
    /\ \/ UNCHANGED jpeg
       \/ /\ at = "none"
          /\ \E p \in todo : HasSource(p) /\ jpeg' = [jpeg EXCEPT ![Dest[p]] = "partial"]
    /\ Stopped
    /\ UNCHANGED <<rowVars, original, developed, requestVars>>

(***************************************************************************)
(* The specification                                                       *)
(***************************************************************************)

RequestStep(c) ==
    \/ \E p \in Photo, ch \in EXPORT_CHOICES \union {Same}, keep \in Flags :
            StageDecision(c, p, ch, keep)
    \/ \E ch \in EXPORT_CHOICES \union {Same}, keep \in Flags : StageAll(c, ch, keep)
    \/ \E mode \in {"keep_recommended", "reject_all", "keep_all"} : StageCluster(c, mode)
    \/ Stage(c)

PhotoStep(p) ==
    \/ Enhance(p)
    \/ Skip(p)
    \/ Convert(p)
    \/ ConvertFail(p)
    \/ Retain(p)
    \/ RetainFail(p)

Next ==
    \/ \E c \in Request : RequestStep(c)
    \/ \E p \in Photo : PhotoStep(p)
    \/ ExportStart
    \/ Commit
    \/ ExportDies

Spec == Init /\ [][Next]_vars

(* The export is run again as long as there is something to export (one     *)
(* request at a time leaves it time to start); a run and a request come to *)
(* their end; and no conversion or move fails every time.                  *)
ExportProgress ==
    \/ \E p \in Photo : Skip(p) \/ Convert(p) \/ ConvertFail(p) \/ Retain(p) \/ RetainFail(p)
    \/ Commit

RerunSpec ==
    /\ Spec
    /\ \A c \in Request : WF_vars(Stage(c))
    /\ SF_vars(ExportStart)
    /\ WF_vars(ExportProgress)
    /\ \A p \in Photo : SF_vars(Convert(p)) /\ SF_vars(Retain(p))

(***************************************************************************)
(* Properties                                                              *)
(***************************************************************************)

DestInjective == \A p, q \in Photo : Dest[p] = Dest[q] => p = q

(* Whatever is killed and whatever fails, no picture is lost: the original *)
(* is somewhere, or the complete share JPEG is, or the developed render    *)
(* from which a re-run makes it again ("a failed export leaves the         *)
(* original in place", USER_GUIDE.md:390).                                 *)
PictureSurvives ==
    \A p \in Photo : original[p] # "deleted" \/ jpeg[Dest[p]] = p \/ p \in developed

(* "Keepers each yield a share JPEG" (progress.py:106): behind every row   *)
(* with applied = 1 is a complete JPEG of this very photo.                 *)
AppliedIsExported == \A p \in applied : jpeg[Dest[p]] = p

(* An applied row's original has left incoming/ for library/ or for good.  *)
AppliedIsRetained == \A p \in applied : original[p] # "incoming"

(* Between exports, a photo that was not exported has its original in      *)
(* incoming/ ("discard: RAW left untouched", export_rules.py:4).           *)
UnappliedUntouched ==
    ~exporting => \A p \in Photo \ applied : original[p] = "incoming" /\ p \notin archived

(* The row of an exported photo says what happened to its original, and    *)
(* source_path where it is.                                                *)
RetentionAsDecided ==
    \A p \in applied : IF p \in keepRaw THEN original[p] = "library" /\ p \in archived
                       ELSE original[p] = "deleted"

(* "An already-exported row is locked for export_choice/keep_raw"          *)
(* (decide.py:48).                                                         *)
RowLocked ==
    [][\A p \in applied : choice'[p] = choice[p] /\ (p \in keepRaw' <=> p \in keepRaw)]_rowVars

(* A render or an original to convert is left for every photo that is      *)
(* still to be exported: without one, "just rerun make export"             *)
(* (USER_GUIDE.md:562) can never export it.                                *)
PendingCanBeExported ==
    ~exporting => \A p \in Keepers \ applied : HasSource(p)

(* "just rerun make export" (USER_GUIDE.md:562): as long as no export is   *)
(* killed, re-runs export what failed, whatever is requested between them, *)
(* unless the choice is taken back, or the original is to be kept and its  *)
(* place in library/ is taken: that is refused every time (executor.py:21),*)
(* until keep_raw is taken back.                                           *)
RerunsExport ==
    \A p \in Photo :
        p \in Keepers \ applied
            ~> p \in applied \/ p \notin Keepers \/ p \in Occupied \intersect keepRaw

(***************************************************************************)
(* The inductive invariant behind the properties above.  ExportInv holds   *)
(* in every environment (with JPEG paths of their own for the photos),     *)
(* CalmInv when no export dies and no request overlaps one.                *)
(***************************************************************************)

(* What the export works on: unapplied rows, each of them at one place.    *)
LoopInv ==
    /\ todo \intersect applied = {}
    /\ marked \intersect applied = {}
    /\ todo \intersect marked = {}
    /\ at # "none" => at \in todo
    /\ ~exporting => todo = {} /\ marked = {} /\ moved = {} /\ at = "none"

(* The JPEG is complete from the end of the conversion on, and only then   *)
(* has the original been touched.                                          *)
FilesInv ==
    /\ \A p \in marked : jpeg[Dest[p]] = p /\ original[p] # "incoming"
    /\ at # "none" => jpeg[Dest[at]] = at
    /\ archived \subseteq applied

ExportInv ==
    /\ TypeOK
    /\ LoopInv
    /\ FilesInv
    /\ PictureSurvives
    /\ AppliedIsExported
    /\ AppliedIsRetained

(* Without deaths, what was not exported was not touched.                  *)
UntouchedInv ==
    \A p \in Photo : p \notin applied /\ p \notin marked => original[p] = "incoming"

(* Without overlap, the export works on the rows it has read, and requests *)
(* write no row that has been applied.                                     *)
RowsInv ==
    /\ exporting => \A c \in Request : reqPc[c] = "idle"
    /\ \A c \in Request, p \in Photo :
            p \in applied \/ reqPc[c] = "idle"
                => newChoice[c][p] = Same /\ newKeep[c][p] = Same
    /\ \A p \in todo : p \in seenKeep <=> p \in keepRaw
    /\ \A p \in marked : IF p \in keepRaw THEN original[p] = "library" /\ p \in moved
                          ELSE original[p] = "deleted"

CalmInv ==
    /\ ExportInv
    /\ UntouchedInv
    /\ RowsInv
    /\ RetentionAsDecided

=============================================================================
