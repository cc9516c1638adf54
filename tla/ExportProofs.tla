----------------------------- MODULE ExportProofs -----------------------------
(***************************************************************************)
(* Theorems about Export, for every batch of photos, every set of requests *)
(* and every number of exports that die.                                   *)
(***************************************************************************)
EXTENDS Export, TLAPS

(***************************************************************************)
(* Type correctness                                                        *)
(***************************************************************************)

(* Every variable has its type in the initial state.                       *)
LEMMA TypeInit == Init => TypeOK
  <1> SUFFICES ASSUME Init PROVE TypeOK
    OBVIOUS
  <1>1. newChoice \in [Request -> [Photo -> EXPORT_CHOICES \union {Same}]]
    BY DEF Init
  <1>2. newKeep \in [Request -> [Photo -> Flags]]
    BY DEF Init, Flags
  <1>3. exporting \in BOOLEAN
    BY Zenon DEF Init
  <1>4. inserted \in [Request -> SUBSET Photo]
    BY DEF Init
  <1>5. jpeg \in [Path -> Photo \union {"none", "partial"}]
    BY DEF Init
  <1>6. deaths \in 0..MaxDeaths
    BY MaxDeathsAssumption DEF Init
  <1>7. QED
    BY <1>1, <1>2, <1>3, <1>4, <1>5, <1>6 DEF Init, TypeOK

(* The columns a request would write have the types of the columns.        *)
LEMMA ChoiceType ==
    ASSUME TypeOK, NEW p \in Photo, NEW want \in EXPORT_CHOICES \union {Same}
    PROVE  ChoiceToWrite(p, want) \in EXPORT_CHOICES \union {Same}
  BY DEF TypeOK, ChoiceToWrite, EXPORT_CHOICES, Same

(* The flag a request writes, or Same.                                     *)
LEMMA KeepType ==
    ASSUME NEW p \in Photo, NEW want \in Flags
    PROVE  KeepToWrite(p, want) \in Flags
  BY DEF KeepToWrite, Flags, Same

(* Every request but a commit is a Load of some photos of the batch.       *)
LEMMA LoadType ==
    ASSUME TypeOK, NEW c \in Request, NEW photos \in SUBSET Photo,
           NEW want \in [Photo -> EXPORT_CHOICES \union {Same}], NEW keep \in Flags,
           Load(c, photos, want, keep)
    PROVE  TypeOK'
  <1>1. [p \in Photo |-> IF p \in photos THEN ChoiceToWrite(p, want[p]) ELSE Same]
            \in [Photo -> EXPORT_CHOICES \union {Same}]
    BY ChoiceType
  <1>2. [p \in Photo |-> IF p \in photos THEN KeepToWrite(p, keep) ELSE Same]
            \in [Photo -> Flags]
    BY KeepType DEF Flags
  <1>3. QED
    BY <1>1, <1>2 DEF TypeOK, Load, rowVars, fileVars, exportVars

(* The three routes read rows in the same way: each is a Load.             *)
LEMMA RequestIsLoad ==
    ASSUME NEW c \in Request, RequestStep(c), ~Stage(c)
    PROVE  \E photos \in SUBSET Photo, want \in [Photo -> EXPORT_CHOICES \union {Same}],
              keep \in Flags : Load(c, photos, want, keep)
  <1>1. ASSUME NEW p \in Photo, NEW ch \in EXPORT_CHOICES \union {Same},
               NEW keep \in Flags, StageDecision(c, p, ch, keep)
        PROVE  \E photos \in SUBSET Photo,
                  want \in [Photo -> EXPORT_CHOICES \union {Same}] :
                      Load(c, photos, want, keep)
    <2>1. [q \in Photo |-> ch] \in [Photo -> EXPORT_CHOICES \union {Same}]
      OBVIOUS
    <2>2. {p} \in SUBSET Photo
      OBVIOUS
    <2>3. QED
      BY <1>1, <2>1, <2>2 DEF StageDecision
  <1>2. ASSUME NEW ch \in EXPORT_CHOICES \union {Same}, NEW keep \in Flags,
               StageAll(c, ch, keep)
        PROVE  \E photos \in SUBSET Photo,
                  want \in [Photo -> EXPORT_CHOICES \union {Same}] :
                      Load(c, photos, want, keep)
    <2>1. [q \in Photo |-> ch] \in [Photo -> EXPORT_CHOICES \union {Same}]
      OBVIOUS
    <2>2. QED
      BY <1>2, <2>1 DEF StageAll
  <1>3. ASSUME NEW mode, StageCluster(c, mode)
        PROVE  \E photos \in SUBSET Photo,
                  want \in [Photo -> EXPORT_CHOICES \union {Same}] :
                      Load(c, photos, want, Same)
    <2>1. [q \in Photo |-> ClusterChoice(mode, q)]
            \in [Photo -> EXPORT_CHOICES \union {Same}]
      BY DEF ClusterChoice, EXPORT_CHOICES
    <2>2. QED
      BY <1>3, <2>1, ClusterAssumption DEF StageCluster
  <1>4. Same \in Flags
    BY DEF Flags
  <1>5. QED
    BY <1>1, <1>2, <1>3, <1>4 DEF RequestStep

(* The commit of a request keeps the type of the rows.                     *)
LEMMA StageType ==
    ASSUME TypeOK, NEW c \in Request, Stage(c)
    PROVE  TypeOK'
  <1>1. choice' \in [Photo -> EXPORT_CHOICES \union {"absent"}]
    <2>1. CASE UNCHANGED choice
      BY <2>1 DEF TypeOK
    <2>2. CASE choice' = [p \in Photo |-> IF newChoice[c][p] = Same THEN choice[p]
                                         ELSE newChoice[c][p]]
      <3>1. \A p \in Photo : newChoice[c][p] \in EXPORT_CHOICES \union {Same}
        BY DEF TypeOK
      <3>2. QED
        BY <2>2, <3>1 DEF TypeOK
    <2>3. QED
      BY <2>1, <2>2 DEF Stage
  <1>2. keepRaw' \subseteq Photo
    BY DEF TypeOK, Stage
  <1>3. QED
    BY <1>1, <1>2 DEF TypeOK, Stage, Flags, fileVars, exportVars

(* The steps of a photo, and of the export as a whole.                     *)
LEMMA TypePhotoStep ==
    ASSUME TypeOK, NEW p \in Photo, PhotoStep(p)
    PROVE  TypeOK'
  <1> USE DestAssumption DEF TypeOK, rowVars, fileVars, exportVars, requestVars
  <1>1. CASE Enhance(p)
    BY <1>1 DEF Enhance
  <1>2. CASE Skip(p)
    BY <1>2 DEF Skip
  <1>3. CASE Convert(p)
    BY <1>3 DEF Convert
  <1>4. CASE ConvertFail(p)
    BY <1>4 DEF ConvertFail
  <1>5. CASE Retain(p)
    BY <1>5 DEF Retain
  <1>6. CASE RetainFail(p)
    BY <1>6 DEF RetainFail
  <1>7. QED
    BY <1>1, <1>2, <1>3, <1>4, <1>5, <1>6 DEF PhotoStep

(* Type correctness of one step, action by action.                         *)
LEMMA TypeStep == TypeOK /\ [Next]_vars => TypeOK'
  <1> SUFFICES ASSUME TypeOK, [Next]_vars PROVE TypeOK'
    OBVIOUS
  <1> USE DestAssumption DEF rowVars, fileVars, exportVars, requestVars
  <1>1. ASSUME NEW c \in Request, RequestStep(c) PROVE TypeOK'
    BY <1>1, StageType, RequestIsLoad, LoadType
  <1>2. ASSUME NEW p \in Photo, PhotoStep(p) PROVE TypeOK'
    BY <1>2, TypePhotoStep
  <1>3. CASE ExportStart
    BY <1>3 DEF TypeOK, ExportStart, Keepers
  <1>4. CASE Commit
    BY <1>4 DEF TypeOK, Commit, Stopped
  <1>5. CASE ExportDies
    <2>1. jpeg' \in [Path -> Photo \union {"none", "partial"}]
      BY <1>5 DEF TypeOK, ExportDies
    <2>2. deaths' \in 0..MaxDeaths
      BY <1>5, MaxDeathsAssumption DEF TypeOK, ExportDies
    <2>3. QED
      BY <1>5, <2>1, <2>2 DEF TypeOK, ExportDies, Stopped
  <1>6. CASE UNCHANGED vars
    BY <1>6 DEF TypeOK, vars
  <1>7. QED
    BY <1>1, <1>2, <1>3, <1>4, <1>5, <1>6 DEF Next

(* Every variable keeps its type, whatever overlaps and whatever dies.     *)
THEOREM TypeCorrect == Spec => []TypeOK
  <1>1. QED
    BY TypeInit, TypeStep, PTL DEF Spec

(***************************************************************************)
(* No picture is lost.  The invariant needs that no two photos have the    *)
(* same JPEG path (DestInjective): without it run_export itself writes one *)
(* over the other.                                                         *)
(***************************************************************************)

(* Requests touch neither files nor what the export has in memory.         *)
LEMMA RequestFrame ==
    ASSUME NEW c \in Request, RequestStep(c)
    PROVE  UNCHANGED <<applied, archived, original, developed, jpeg, exporting, todo, at,
                       marked, moved, seenKeep, deaths>>
  BY DEF RequestStep, StageDecision, StageAll, StageCluster, Load, Stage, rowVars,
         fileVars, exportVars

(* No row is applied and no original has been touched in the initial       *)
(* state.                                                                  *)
LEMMA ExportInit == Init => ExportInv
  <1> SUFFICES ASSUME Init PROVE ExportInv
    OBVIOUS
  <1>1. LoopInv /\ FilesInv
    BY DEF Init, LoopInv, FilesInv
  <1>2. PictureSurvives /\ AppliedIsExported /\ AppliedIsRetained
    BY DEF Init, PictureSurvives, AppliedIsExported, AppliedIsRetained
  <1>3. QED
    BY <1>1, <1>2, TypeInit DEF ExportInv

(* The steps of the export on one photo keep the invariant: the JPEG is    *)
(* complete before the original is touched.                                *)
LEMMA ExportPhotoStep ==
    ASSUME DestInjective, ExportInv, NEW p \in Photo, PhotoStep(p)
    PROVE  (LoopInv /\ FilesInv /\ PictureSurvives /\ AppliedIsExported
                /\ AppliedIsRetained)'
  <1> USE DestAssumption, PlaceholderAssumption
      DEF ExportInv, TypeOK, rowVars, fileVars, exportVars, requestVars
  <1>1. CASE Enhance(p)
    BY <1>1 DEF Enhance, LoopInv, FilesInv, PictureSurvives, AppliedIsExported,
                AppliedIsRetained
  <1>2. CASE Skip(p)
    BY <1>2 DEF Skip, LoopInv, FilesInv, PictureSurvives, AppliedIsExported,
                AppliedIsRetained
  <1>3. CASE Convert(p)
    <2>1. \A q \in Photo : jpeg[Dest[q]] = q => jpeg'[Dest[q]] = q
      BY <1>3 DEF Convert, DestInjective
    <2>2. LoopInv'
      BY <1>3 DEF Convert, LoopInv
    <2>3. FilesInv'
      BY <1>3, <2>1 DEF Convert, FilesInv
    <2>4. PictureSurvives' /\ AppliedIsExported' /\ AppliedIsRetained'
      BY <1>3, <2>1 DEF Convert, PictureSurvives, AppliedIsExported, AppliedIsRetained
    <2>5. QED
      BY <2>2, <2>3, <2>4
  <1>4. CASE ConvertFail(p)
    <2>1. \A q \in Photo \ {p} : jpeg'[Dest[q]] = jpeg[Dest[q]]
      BY <1>4 DEF ConvertFail, DestInjective
    <2>2. original[p] # "deleted" \/ p \in developed
      BY <1>4 DEF ConvertFail, HasSource, RawExists
    <2>3. p \notin marked /\ p \notin applied
      BY <1>4 DEF ConvertFail, LoopInv
    <2>4. LoopInv'
      BY <1>4 DEF ConvertFail, LoopInv
    <2>5. FilesInv'
      BY <1>4, <2>1, <2>3 DEF ConvertFail, FilesInv
    <2>6. PictureSurvives' /\ AppliedIsExported' /\ AppliedIsRetained'
      BY <1>4, <2>1, <2>2, <2>3
         DEF ConvertFail, PictureSurvives, AppliedIsExported, AppliedIsRetained
    <2>7. QED
      BY <2>4, <2>5, <2>6
  <1>5. CASE Retain(p)
    <2>1. p \in todo /\ p \notin applied /\ p \notin archived /\ jpeg[Dest[p]] = p
      BY <1>5 DEF Retain, LoopInv, FilesInv
    <2>2. original'[p] # "incoming"
      BY <1>5, <2>1 DEF Retain, RawExists
    <2>3. \A q \in Photo \ {p} : original'[q] = original[q]
      BY <1>5 DEF Retain
    <2>4. LoopInv'
      BY <1>5, <2>1 DEF Retain, LoopInv
    <2>5. FilesInv'
      BY <1>5, <2>1, <2>2, <2>3 DEF Retain, FilesInv
    <2>6. PictureSurvives' /\ AppliedIsExported' /\ AppliedIsRetained'
      BY <1>5, <2>1, <2>2, <2>3
         DEF Retain, PictureSurvives, AppliedIsExported, AppliedIsRetained
    <2>7. QED
      BY <2>4, <2>5, <2>6
  <1>6. CASE RetainFail(p)
    BY <1>6 DEF RetainFail, LoopInv, FilesInv, PictureSurvives, AppliedIsExported,
                AppliedIsRetained
  <1>7. QED
    BY <1>1, <1>2, <1>3, <1>4, <1>5, <1>6 DEF PhotoStep

(* So do its start, its commit, its death and the requests.                *)
LEMMA ExportStep ==
    ASSUME DestInjective, ExportInv, [Next]_vars
    PROVE  ExportInv'
  <1> DEFINE Kept == (LoopInv /\ FilesInv /\ PictureSurvives /\ AppliedIsExported
                          /\ AppliedIsRetained)'
  <1> SUFFICES Kept
    BY TypeStep DEF ExportInv
  <1> USE DestAssumption, PlaceholderAssumption
      DEF ExportInv, TypeOK, rowVars, fileVars, exportVars, requestVars
  <1>1. ASSUME NEW c \in Request, RequestStep(c) PROVE Kept
    BY <1>1, RequestFrame DEF LoopInv, FilesInv, PictureSurvives, AppliedIsExported,
                              AppliedIsRetained
  <1>2. ASSUME NEW p \in Photo, PhotoStep(p) PROVE Kept
    BY <1>2, ExportPhotoStep
  <1>3. CASE ExportStart
    BY <1>3 DEF ExportStart, LoopInv, FilesInv, PictureSurvives, AppliedIsExported,
                AppliedIsRetained
  <1>4. CASE Commit
    BY <1>4 DEF Commit, Stopped, LoopInv, FilesInv, PictureSurvives, AppliedIsExported,
                AppliedIsRetained
  <1>5. CASE ExportDies
    <2>1. CASE UNCHANGED jpeg
      BY <1>5, <2>1 DEF ExportDies, Stopped, LoopInv, FilesInv, PictureSurvives,
                        AppliedIsExported, AppliedIsRetained
    <2>2. ASSUME NEW p \in todo, HasSource(p),
                 jpeg' = [jpeg EXCEPT ![Dest[p]] = "partial"]
          PROVE  Kept
      <3>1. \A q \in Photo \ {p} : jpeg'[Dest[q]] = jpeg[Dest[q]]
        BY <2>2 DEF DestInjective
      <3>2. original[p] # "deleted" \/ p \in developed
        BY <2>2 DEF HasSource, RawExists
      <3>3. p \notin applied
        BY DEF LoopInv
      <3>4. QED
        BY <1>5, <3>1, <3>2, <3>3 DEF ExportDies, Stopped, LoopInv, FilesInv,
           PictureSurvives, AppliedIsExported, AppliedIsRetained
    <2>3. QED
      BY <1>5, <2>1, <2>2 DEF ExportDies
  <1>6. CASE UNCHANGED vars
    BY <1>6 DEF vars, LoopInv, FilesInv, PictureSurvives, AppliedIsExported,
                AppliedIsRetained
  <1>7. QED
    BY <1>1, <1>2, <1>3, <1>4, <1>5, <1>6 DEF Next

(* If no two photos have the same JPEG path: whatever overlaps, fails or   *)
(* dies, no picture is lost, and behind every applied row is the complete  *)
(* JPEG of its photo and an original that has left incoming/.              *)
THEOREM ExportCorrect ==
    ASSUME DestInjective
    PROVE  Spec => []ExportInv
  <1>1. ExportInv /\ [Next]_vars => ExportInv'
    BY ExportStep
  <1>2. QED
    BY <1>1, ExportInit, PTL DEF Spec

(* ... in particular the photo itself survives.                            *)
THEOREM NoPictureLost ==
    ASSUME DestInjective
    PROVE  Spec => []PictureSurvives
  <1>1. ExportInv => PictureSurvives
    BY DEF ExportInv
  <1>2. QED
    BY <1>1, ExportCorrect, PTL

(* ... behind every applied row is the complete JPEG of this very photo    *)
(* ("Keepers each yield a share JPEG", progress.py:106), ...               *)
THEOREM KeepersHaveJpegs ==
    ASSUME DestInjective
    PROVE  Spec => []AppliedIsExported
  <1>1. ExportInv => AppliedIsExported
    BY DEF ExportInv
  <1>2. QED
    BY <1>1, ExportCorrect, PTL

(* ... and its original has left incoming/ (export_job.py:92).             *)
THEOREM KeepersAreRetained ==
    ASSUME DestInjective
    PROVE  Spec => []AppliedIsRetained
  <1>1. ExportInv => AppliedIsRetained
    BY DEF ExportInv
  <1>2. QED
    BY <1>1, ExportCorrect, PTL

(***************************************************************************)
(* Exports that do not die                                                 *)
(***************************************************************************)

(* Without deaths, an original moves only together with the mark that the  *)
(* commit turns into applied = 1.                                          *)
LEMMA UntouchedStep ==
    ASSUME MaxDeaths = 0, ExportInv, UntouchedInv, [Next]_vars
    PROVE  UntouchedInv'
  <1> USE DEF ExportInv, TypeOK, rowVars, fileVars, exportVars, requestVars
  <1>1. ASSUME NEW c \in Request, RequestStep(c) PROVE UntouchedInv'
    BY <1>1, RequestFrame DEF UntouchedInv
  <1>2. ASSUME NEW p \in Photo, PhotoStep(p) PROVE UntouchedInv'
    BY <1>2 DEF PhotoStep, Enhance, Skip, Convert, ConvertFail, Retain, RetainFail,
                UntouchedInv
  <1>3. CASE ExportStart \/ Commit \/ UNCHANGED vars
    BY <1>3 DEF ExportStart, Commit, Stopped, vars, UntouchedInv
  <1>4. ~ExportDies
    BY DEF ExportDies
  <1>5. QED
    BY <1>1, <1>2, <1>3, <1>4 DEF Next

(* If no export dies, a photo that was not exported has its original in    *)
(* incoming/ whenever no export runs, however requests overlap exports.    *)
THEOREM DiscardedUntouched ==
    ASSUME DestInjective, MaxDeaths = 0
    PROVE  Spec => []UnappliedUntouched
  <1>1. Init => UntouchedInv
    BY DEF Init, UntouchedInv
  <1>2. ExportInv /\ UntouchedInv /\ [Next]_vars => UntouchedInv'
    BY UntouchedStep
  <1>3. ExportInv /\ UntouchedInv => UnappliedUntouched
    BY DEF ExportInv, LoopInv, FilesInv, UntouchedInv, UnappliedUntouched
  <1>4. QED
    BY <1>1, <1>2, <1>3, ExportCorrect, PTL DEF Spec

(* ... so that every later export finds a picture of every keeper that is  *)
(* left, without which "just rerun make export" (USER_GUIDE.md:562) cannot *)
(* help.  That it does help is a liveness property: see RerunsExport.      *)
THEOREM RerunFindsPictures ==
    ASSUME DestInjective, MaxDeaths = 0
    PROVE  Spec => []PendingCanBeExported
  <1>1. Init => UntouchedInv
    BY DEF Init, UntouchedInv
  <1>2. ExportInv /\ UntouchedInv /\ [Next]_vars => UntouchedInv'
    BY UntouchedStep
  <1>3. ExportInv /\ UntouchedInv => PendingCanBeExported
    BY DEF ExportInv, LoopInv, FilesInv, UntouchedInv, PendingCanBeExported, HasSource,
           RawExists, Keepers
  <1>4. QED
    BY <1>1, <1>2, <1>3, ExportCorrect, PTL DEF Spec

(***************************************************************************)
(* Exports that do not die and that no request overlaps                    *)
(***************************************************************************)

Calm == DestInjective /\ MaxDeaths = 0 /\ ~Overlap

(* What a request does to the rows, and that it waits for the export.      *)
LEMMA CalmRequest ==
    ASSUME Calm, CalmInv, NEW c \in Request, RequestStep(c)
    PROVE  (RowsInv /\ RetentionAsDecided)'
  <1> USE DEF CalmInv, ExportInv, TypeOK
  <1>1. UNCHANGED <<applied, archived, original, developed, jpeg, exporting, todo, at,
                    marked, moved, seenKeep>>
    BY RequestFrame
  <1>2. CASE Stage(c)
    <2>1. ~exporting /\ marked = {} /\ todo = {}
      BY <1>2 DEF Stage, RowsInv, LoopInv
    <2>2. \A p \in applied : p \in keepRaw' <=> p \in keepRaw
      BY <1>2 DEF Stage, RowsInv, Same
    <2>3. RowsInv'
      BY <1>1, <1>2, <2>1 DEF Stage, RowsInv
    <2>4. RetentionAsDecided'
      BY <1>1, <2>2 DEF RetentionAsDecided
    <2>5. QED
      BY <2>3, <2>4
  <1>3. ASSUME NEW photos \in SUBSET Photo,
               NEW want \in [Photo -> EXPORT_CHOICES \union {Same}],
               NEW keep \in Flags, Load(c, photos, want, keep)
        PROVE  (RowsInv /\ RetentionAsDecided)'
    <2>1. ~exporting /\ marked = {} /\ todo = {}
      BY <1>3 DEF Load, Calm, LoopInv
    <2>2. \A p \in applied : newChoice'[c][p] = Same /\ newKeep'[c][p] = Same
      BY <1>3 DEF Load, ChoiceToWrite, KeepToWrite
    <2>3. /\ reqPc'[c] = "staged"
          /\ \A d \in Request \ {c} : /\ reqPc'[d] = reqPc[d]
                                     /\ newChoice'[d] = newChoice[d]
                                     /\ newKeep'[d] = newKeep[d]
          /\ UNCHANGED keepRaw
      BY <1>3 DEF Load, rowVars
    <2>4. RowsInv'
      BY <1>1, <2>1, <2>2, <2>3 DEF RowsInv
    <2>5. RetentionAsDecided'
      BY <1>1, <1>3 DEF RetentionAsDecided, Load, rowVars
    <2>6. QED
      BY <2>4, <2>5
  <1>4. QED
    BY <1>2, <1>3, RequestIsLoad

(* Without overlap, the export retains as the row says now.                *)
LEMMA CalmPhotoStep ==
    ASSUME Calm, CalmInv, NEW p \in Photo, PhotoStep(p)
    PROVE  (RowsInv /\ RetentionAsDecided)'
  <1> USE DEF CalmInv, ExportInv, TypeOK, rowVars, fileVars, exportVars, requestVars
  <1>1. CASE Enhance(p)
    BY <1>1 DEF Enhance, RowsInv, RetentionAsDecided
  <1>2. CASE Skip(p) \/ Convert(p) \/ ConvertFail(p) \/ RetainFail(p)
    BY <1>2 DEF Skip, Convert, ConvertFail, RetainFail, RowsInv, RetentionAsDecided
  <1>3. CASE Retain(p)
    <2>1. p \in todo /\ p \notin applied /\ p \notin marked
      BY <1>3, PlaceholderAssumption DEF Retain, LoopInv
    <2>2. RawExists(p)
      BY <2>1 DEF UntouchedInv, FilesInv, RawExists
    <2>3. IF p \in keepRaw THEN original'[p] = "library" /\ p \in moved'
          ELSE original'[p] = "deleted"
      BY <1>3, <2>1, <2>2 DEF Retain, RowsInv
    <2>4. \A q \in Photo \ {p} : original'[q] = original[q]
      BY <1>3 DEF Retain
    <2>5. RowsInv'
      BY <1>3, <2>1, <2>3, <2>4 DEF Retain, RowsInv
    <2>6. RetentionAsDecided'
      BY <1>3, <2>1, <2>4 DEF Retain, RetentionAsDecided
    <2>7. QED
      BY <2>5, <2>6
  <1>4. QED
    BY <1>1, <1>2, <1>3 DEF PhotoStep

(* ... and no request holds columns of a row that has been applied.        *)
LEMMA CalmStep ==
    ASSUME Calm, CalmInv, [Next]_vars
    PROVE  CalmInv'
  <1> SUFFICES (RowsInv /\ RetentionAsDecided)'
    BY ExportStep, UntouchedStep DEF CalmInv, Calm
  <1>1. ASSUME NEW c \in Request, RequestStep(c)
        PROVE  (RowsInv /\ RetentionAsDecided)'
    BY <1>1, CalmRequest
  <1>2. ASSUME NEW p \in Photo, PhotoStep(p) PROVE (RowsInv /\ RetentionAsDecided)'
    BY <1>2, CalmPhotoStep
  <1> USE DEF CalmInv, ExportInv, TypeOK, rowVars, fileVars, exportVars, requestVars
  <1>3. CASE ExportStart
    BY <1>3 DEF ExportStart, Calm, LoopInv, RowsInv, RetentionAsDecided
  <1>4. CASE Commit
    <2>1. \A c \in Request, p \in Photo : newChoice[c][p] = Same /\ newKeep[c][p] = Same
      BY <1>4 DEF Commit, RowsInv
    <2>2. RowsInv'
      BY <1>4, <2>1 DEF Commit, Stopped, RowsInv
    <2>3. RetentionAsDecided'
      BY <1>4 DEF Commit, RowsInv, RetentionAsDecided
    <2>4. QED
      BY <2>2, <2>3
  <1>5. ~ExportDies
    BY DEF ExportDies, Calm
  <1>6. CASE UNCHANGED vars
    BY <1>6 DEF vars, RowsInv, RetentionAsDecided
  <1>7. QED
    BY <1>1, <1>2, <1>3, <1>4, <1>5, <1>6 DEF Next

(* No request is under way in the initial state.                           *)
LEMMA CalmInit == Init => CalmInv
  <1> SUFFICES ASSUME Init PROVE CalmInv
    OBVIOUS
  <1>1. UntouchedInv /\ RetentionAsDecided
    BY DEF Init, UntouchedInv, RetentionAsDecided
  <1>2. RowsInv
    BY DEF Init, RowsInv
  <1>3. QED
    BY <1>1, <1>2, ExportInit DEF CalmInv

(* If no export dies and no request overlaps one, the row of an exported   *)
(* photo tells what happened to its original.                              *)
THEOREM RetentionIsAsDecided ==
    ASSUME Calm
    PROVE  Spec => []RetentionAsDecided
  <1>1. CalmInv /\ [Next]_vars => CalmInv'
    BY CalmStep
  <1>2. CalmInv => RetentionAsDecided
    BY DEF CalmInv
  <1>3. QED
    BY <1>1, <1>2, CalmInit, PTL DEF Spec

(* ... and the choice and the flag of an applied row never change again.   *)
THEOREM AppliedRowsAreLocked ==
    ASSUME Calm
    PROVE  Spec => RowLocked
  <1>1. CalmInv /\ [Next]_vars => CalmInv'
    BY CalmStep
  <1>2. CalmInv /\ [Next]_vars
          => [\A p \in applied : choice'[p] = choice[p]
                                 /\ (p \in keepRaw' <=> p \in keepRaw)]_rowVars
    <2> SUFFICES ASSUME CalmInv, [Next]_vars
                 PROVE  \A p \in applied : choice'[p] = choice[p]
                                          /\ (p \in keepRaw' <=> p \in keepRaw)
      OBVIOUS
    <2> USE DEF CalmInv, ExportInv, TypeOK, rowVars
    <2>1. CASE UNCHANGED <<choice, keepRaw>>
      BY <2>1
    <2>2. ASSUME NEW c \in Request, Stage(c)
          PROVE  \A p \in applied : choice'[p] = choice[p]
                                   /\ (p \in keepRaw' <=> p \in keepRaw)
      <3>1. \A p \in applied : newChoice[c][p] = Same /\ newKeep[c][p] = Same
        BY DEF RowsInv
      <3>2. QED
        BY <2>2, <3>1 DEF Stage, Same
    <2>3. ASSUME NEW c \in Request, RequestStep(c), ~Stage(c)
          PROVE  UNCHANGED <<choice, keepRaw>>
      BY <2>3, RequestIsLoad DEF Load
    <2>4. ASSUME NEW p \in Photo, PhotoStep(p) PROVE UNCHANGED <<choice, keepRaw>>
      BY <2>4 DEF PhotoStep, Enhance, Skip, Convert, ConvertFail, Retain, RetainFail
    <2>5. CASE ExportStart \/ Commit \/ ExportDies \/ UNCHANGED vars
      BY <2>5, <2>1 DEF ExportStart, Commit, ExportDies, vars
    <2>6. QED
      BY <2>1, <2>2, <2>3, <2>4, <2>5 DEF Next
  <1>3. QED
    BY <1>1, <1>2, CalmInit, PTL DEF Spec, RowLocked

=============================================================================
