--------------------------- MODULE CatalogProofs ---------------------------
(***************************************************************************)
(* Proofs about Catalog, for every set of files, however often the stages  *)
(* die and are run again.                                                  *)
(***************************************************************************)
EXTENDS Catalog, FiniteSetTheorems, WellFoundedInduction, TLAPS

(***************************************************************************)
(* Scores                                                                  *)
(***************************************************************************)

HasSmallest(F) == \E x \in F : \A y \in F : y \subseteq x => y = x

LEMMA SmallestSet ==
    ASSUME NEW T, IsFiniteSet(T)
    PROVE  \A F \in SUBSET SUBSET T : F # {} => HasSmallest(F)
  <1> SUFFICES ASSUME NEW F \in SUBSET SUBSET T, F # {} PROVE HasSmallest(F)
    OBVIOUS
  <1>1. IsWellFoundedOn(StrictSubsetOrdering(T), SUBSET T)
    BY FS_StrictSubsetOrderingWellFounded, FS_FiniteSubsetsOfFinite
  <1>2. PICK x \in F : \A y \in F : ~ (<<y, x>> \in StrictSubsetOrdering(T))
    BY <1>1, WFMin
  <1>3. QED
    BY <1>2 DEF StrictSubsetOrdering, HasSmallest

(* Scores and batches have a least and a greatest one.                     *)
LEMMA Bounds ==
    ASSUME NEW T \in SUBSET Int, IsFiniteSet(T), T # {}
    PROVE  /\ Min(T) \in T /\ \A y \in T : Min(T) <= y
           /\ Max(T) \in T /\ \A y \in T : y <= Max(T)
  <1>1. \E x \in T : \A y \in T : x <= y
    <2> DEFINE Below(x) == {z \in T : z <= x}
               F == {Below(x) : x \in T}
    <2>1. /\ F \in SUBSET SUBSET T /\ F # {}
          /\ \A x \in T : Below(x) \in F
          /\ \A X \in F : \E x \in T : X = Below(x)
      OBVIOUS
    <2>2. \A x, y \in T : y < x
             => Below(y) \subseteq Below(x) /\ x \in Below(x) /\ x \notin Below(y)
      <3> HIDE DEF F
      <3>1. \A x \in T : x \in Int
        OBVIOUS
      <3>2. SUFFICES ASSUME NEW x \in T, NEW y \in T, y < x
                     PROVE  /\ \A z \in T : z <= y => z <= x
                            /\ x <= x /\ ~ (x <= y)
        OBVIOUS
      <3>3. QED
        BY <3>1, <3>2
    <2> HIDE DEF F
    <2>3. \E X \in F : \A Y \in F : Y \subseteq X => Y = X
      <3>1. \A f \in SUBSET SUBSET T : f # {} => HasSmallest(f)
        BY SmallestSet
      <3>2. HasSmallest(F)
        BY <2>1, <3>1
      <3>3. QED
        BY <3>2 DEF HasSmallest
    <2> HIDE DEF Below
    <2>4. PICK x \in T : \A y \in T : Below(y) \subseteq Below(x) => Below(y) = Below(x)
      BY <2>1, <2>3
    <2>5. \A y \in T : ~ (y < x)
      BY <2>2, <2>4
    <2>6. QED
      BY <2>5
  <1>2. \E x \in T : \A y \in T : x >= y
    <2> DEFINE Above(x) == {z \in T : z >= x}
               F == {Above(x) : x \in T}
    <2>1. /\ F \in SUBSET SUBSET T /\ F # {}
          /\ \A x \in T : Above(x) \in F
          /\ \A X \in F : \E x \in T : X = Above(x)
      OBVIOUS
    <2>2. \A x, y \in T : y > x
             => Above(y) \subseteq Above(x) /\ x \in Above(x) /\ x \notin Above(y)
      <3> HIDE DEF F
      <3>1. \A x \in T : x \in Int
        OBVIOUS
      <3>2. SUFFICES ASSUME NEW x \in T, NEW y \in T, y > x
                     PROVE  /\ \A z \in T : z >= y => z >= x
                            /\ x >= x /\ ~ (x >= y)
        OBVIOUS
      <3>3. QED
        BY <3>1, <3>2
    <2> HIDE DEF F
    <2>3. \E X \in F : \A Y \in F : Y \subseteq X => Y = X
      <3>1. \A f \in SUBSET SUBSET T : f # {} => HasSmallest(f)
        BY SmallestSet
      <3>2. HasSmallest(F)
        BY <2>1, <3>1
      <3>3. QED
        BY <3>2 DEF HasSmallest
    <2> HIDE DEF Above
    <2>4. PICK x \in T : \A y \in T : Above(y) \subseteq Above(x) => Above(y) = Above(x)
      BY <2>1, <2>3
    <2>5. \A y \in T : ~ (y > x)
      BY <2>2, <2>4
    <2>6. QED
      BY <2>5
  <1>3. QED
    BY <1>1, <1>2 DEF Min, Max

LEMMA Quotient ==
    ASSUME NEW a \in Nat, NEW b \in Nat, b > 0
    PROVE  a \div b \in Nat
  OBVIOUS

(* A normalised score is never negative, so that a photo that was scored   *)
(* cannot be taken for one that was not.                                   *)
LEMMA NormalisedNat ==
    ASSUME NEW S \in SUBSET Photos, IsFiniteSet(S), NEW p \in S,
           NEW score \in [Photos -> Int]
    PROVE  Normalised(score, p, S) \in Nat
  <1> DEFINE T == {score[q] : q \in S}
             lo == Min(T)
             hi == Max(T)
  <1>1. T \in SUBSET Int /\ T # {} /\ score[p] \in T
    OBVIOUS
  <1>2. IsFiniteSet(T)
    <2>1. \A q \in S : score[q] \in T
      OBVIOUS
    <2>2. [q \in S |-> score[q]] \in Surjection(S, T)
      BY DEF Surjection
    <2> HIDE DEF T
    <2>3. QED
      BY <2>2, FS_Surjection
  <1>3. lo \in Int /\ hi \in Int /\ lo <= score[p] /\ lo <= hi /\ score[p] \in Int
    <2> HIDE DEF T
    <2>1. QED
      BY <1>1, <1>2, Bounds
  <1>4. Normalised(score, p, S) = IF hi = lo THEN 0 ELSE (Unit * (score[p] - lo)) \div (hi - lo)
    BY DEF Normalised
  <1> HIDE DEF T, lo, hi
  <1>5. CASE hi = lo
    BY <1>4, <1>5
  <1>6. CASE hi # lo
    <2>1. Unit * (score[p] - lo) \in Nat /\ hi - lo \in Nat /\ hi - lo > 0
      BY <1>3, <1>6, UnitAssumption
    <2>2. QED
      BY <1>4, <1>6, <2>1, Quotient
  <1>7. QED
    BY <1>5, <1>6

(***************************************************************************)
(* What a stage has still to do                                            *)
(***************************************************************************)

RowsInv ==
    /\ photo \subseteq Photos /\ phash \subseteq photo
    /\ embedded \subseteq photo /\ aesthetic \subseteq embedded
    /\ technical \in [Photos -> Int]
    /\ faces \in [Photos -> Nat]
    /\ FacesOnce

(* The work list of a stage is what the rows miss, and what is not on it   *)
(* has been done, also when earlier processes died between two chunks.     *)
WorkInv ==
    /\ Running("filter") => todo = photo \ phash
    /\ Running("clip") => todo = photo \ embedded
    /\ Running("aesthetic") => photo \subseteq embedded /\ todo = photo \ aesthetic
    /\ Running("iqa") => photo \subseteq embedded /\ todo = Unrated
    /\ Running("faces") =>
         /\ photo \subseteq embedded /\ todo \subseteq photo
         /\ \A p \in photo : technical[p] # None
         /\ \A p \in todo : faces[p] = 0
         /\ \A p \in photo \ todo : faces[p] = FaceCount[p]

DoneInv ==
    /\ job = [stage |-> "filter", outcome |-> "done"] => photo \ BadThumb \subseteq phash
    /\ job = [stage |-> "score", outcome |-> "done"] =>
         /\ \A p \in photo : p \in embedded /\ technical[p] # None
         /\ \A p \in photo : faces[p] = FaceCount[p]

Stages == {"none", "ingest", "filter", "clip", "aesthetic", "iqa", "faces", "score", "cluster"}
JobInv ==
    /\ job \in [stage : Stages, outcome : {"none", "running", "done", "failed"}]
    /\ incoming \subseteq Files
    /\ Running("ingest") => todo \subseteq Files

CatalogInv == RowsInv /\ WorkInv /\ DoneInv /\ JobInv

LEMMA PhotosFinite ==
    /\ IsFiniteSet(Photos)
    /\ \A S \in SUBSET Photos : IsFiniteSet(S)
  <1>1. IsFiniteSet(Photos)
    <2>1. Hash \in Surjection(Files, Photos)
      BY CatalogAssumption DEF Surjection, Photos
    <2>2. QED
      BY <2>1, FS_Surjection, CatalogAssumption
  <1>2. QED
    BY <1>1, FS_Subset

LEMMA Chunks == \A n : \A S \in Chunk(n) : S \subseteq todo
  BY DEF Chunk

LEMMA CatalogInit == Init => CatalogInv
  <1> SUFFICES ASSUME Init PROVE CatalogInv
    OBVIOUS
  <1>1. RowsInv
    BY DEF Init, RowsInv, FacesOnce, None
  <1>2. job = [stage |-> "none", outcome |-> "none"] /\ incoming = {}
    BY DEF Init
  <1>3. QED
    BY <1>1, <1>2 DEF CatalogInv, WorkInv, DoneInv, JobInv, Stages, Running

LEMMA IqaStep == CatalogInv /\ IqaCommit => CatalogInv'
  <1> SUFFICES ASSUME CatalogInv, IqaCommit PROVE CatalogInv'
    OBVIOUS
  <1> USE DEF CatalogInv
  <1>1. /\ photo \subseteq embedded /\ todo = Unrated /\ todo \subseteq photo
        /\ UNCHANGED <<incoming, photo, phash, embedded, aesthetic, faces>>
        /\ job' = [stage |-> "faces", outcome |-> "running"] /\ todo' = MissingFaces
    BY DEF IqaCommit, WorkInv, Unrated, Run
  <1>2. IsFiniteSet(todo) /\ todo \in SUBSET Photos
    BY <1>1, PhotosFinite DEF RowsInv
  <1>3. ASSUME NEW p \in Photos PROVE technical'[p] \in Int /\ (p \in photo => technical'[p] # None)
    <2>1. CASE p \in todo
      <3>1. Normalised(Musiq, p, todo) \in Nat /\ Normalised(Maniqa, p, todo) \in Nat
        BY <1>2, <2>1, NormalisedNat, CatalogAssumption
      <3>2. technical'[p] = Normalised(Musiq, p, todo) + Normalised(Maniqa, p, todo)
        BY <2>1 DEF IqaCommit
      <3>3. technical'[p] \in Nat
        BY <3>1, <3>2
      <3>4. QED
        BY <3>3 DEF None
    <2>2. CASE p \notin todo
      <3>1. technical'[p] = technical[p]
        BY <2>2 DEF IqaCommit
      <3>2. QED
        BY <1>1, <2>2, <3>1 DEF Unrated, RowsInv
    <2>3. QED
      BY <2>1, <2>2
  <1>4. technical' \in [Photos -> Int]
    BY <1>3 DEF IqaCommit
  <1>5. RowsInv'
    BY <1>1, <1>4 DEF RowsInv, FacesOnce
  <1>6. WorkInv'
    <2>1. /\ photo' \subseteq embedded' /\ todo' \subseteq photo'
          /\ \A p \in photo' : technical'[p] # None
          /\ \A p \in todo' : faces'[p] = 0
          /\ \A p \in photo' \ todo' : faces'[p] = FaceCount[p]
      BY <1>1, <1>3 DEF RowsInv, FacesOnce, MissingFaces
    <2>2. QED
      BY <1>1, <2>1 DEF WorkInv, Running
  <1>7. QED
    BY <1>1, <1>5, <1>6 DEF DoneInv, JobInv, Stages, Running

LEMMA FacesStep == CatalogInv /\ FacesChunk => CatalogInv'
  <1> SUFFICES ASSUME CatalogInv, FacesChunk PROVE CatalogInv'
    OBVIOUS
  <1> USE DEF CatalogInv
  <1>1. PICK S \in SUBSET todo :
            /\ faces' = [p \in Photos |-> faces[p] + IF p \in S THEN FaceCount[p] ELSE 0]
            /\ todo' = todo \ S
    BY Chunks DEF FacesChunk
  <1>2. /\ UNCHANGED <<incoming, photo, phash, embedded, aesthetic, technical, job>> /\ Running("faces")
    BY DEF FacesChunk
  <1>3. /\ todo \subseteq photo /\ photo \subseteq Photos /\ faces \in [Photos -> Nat]
        /\ \A p \in todo : faces[p] = 0
        /\ \A p \in photo \ todo : faces[p] = FaceCount[p]
        /\ FaceCount \in [Photos -> Nat]
    BY <1>2, CatalogAssumption DEF WorkInv, RowsInv
  <1>4. \A p \in Photos : faces'[p] = IF p \in S THEN FaceCount[p] ELSE faces[p]
    BY <1>1, <1>3
  <1>5. RowsInv'
    <2>1. faces' \in [Photos -> Nat]
      BY <1>1, <1>3
    <2>2. FacesOnce'
      BY <1>4 DEF RowsInv, FacesOnce
    <2>3. QED
      BY <1>2, <2>1, <2>2 DEF RowsInv
  <1>6. WorkInv'
    BY <1>1, <1>2, <1>3, <1>4 DEF WorkInv, Running
  <1>7. QED
    BY <1>2, <1>5, <1>6 DEF DoneInv, JobInv, Stages, Running

LEMMA CatalogStep == CatalogInv /\ [Next]_vars => CatalogInv'
  <1> SUFFICES ASSUME CatalogInv, [Next]_vars PROVE CatalogInv'
    OBVIOUS
  <1> USE DEF CatalogInv
  <1>1. ASSUME UNCHANGED rows PROVE RowsInv'
    BY <1>1 DEF rows, RowsInv, FacesOnce
  <1>2. ASSUME UNCHANGED <<rows, job, todo>>, incoming' \subseteq Files PROVE CatalogInv'
    BY <1>1, <1>2 DEF rows, WorkInv, DoneInv, JobInv, Stages, Running, Unrated
  <1>3. ASSUME NEW f \in Files, Drop(f) PROVE CatalogInv'
    <2>1. incoming' \subseteq Files
      BY <1>3 DEF Drop, JobInv
    <2>2. QED
      BY <1>2, <1>3, <2>1 DEF Drop
  <1>4. CASE IngestStart \/ FilterStart \/ ScoreStart \/ ClipDone \/ ClusterRun \/ Dies
    <2>1. UNCHANGED rows
      BY <1>4 DEF IngestStart, FilterStart, ScoreStart, ClipDone, ClusterRun, Dies
    <2>2. JobInv'
      <3>1. UNCHANGED incoming /\ (job'.stage = "ingest" => IngestStart \/ job'.outcome # "running")
        BY <1>4 DEF IngestStart, FilterStart, ScoreStart, ClipDone, ClusterRun, Dies, Run, Exit
      <3>2. job' \in [stage : Stages, outcome : {"none", "running", "done", "failed"}]
        BY <1>4 DEF IngestStart, FilterStart, ScoreStart, ClipDone, ClusterRun, Dies, Run, Exit, Stages
      <3>3. QED
        BY <3>1, <3>2 DEF JobInv, Running, IngestStart
    <2>3. WorkInv' /\ DoneInv'
      <3>1. CASE IngestStart \/ FilterStart \/ ScoreStart
        BY <2>1, <3>1 DEF IngestStart, FilterStart, ScoreStart, Run, WorkInv, DoneInv, Running, rows
      <3>2. CASE ClipDone
        BY <2>1, <3>2 DEF ClipDone, Run, WorkInv, DoneInv, Running, rows, RowsInv
      <3>3. CASE ClusterRun \/ Dies
        BY <2>1, <3>3 DEF ClusterRun, Dies, Exit, WorkInv, DoneInv, Running, rows
      <3>4. QED
        BY <1>4, <3>1, <3>2, <3>3
    <2>4. QED
      BY <1>1, <2>1, <2>2, <2>3
  <1>5. CASE IngestCommit
    <2>1. /\ UNCHANGED <<phash, embedded, aesthetic, technical, faces>>
          /\ photo \subseteq photo' /\ photo' \subseteq Photos
      <3>1. Running("ingest") /\ todo \subseteq Files
        BY <1>5 DEF IngestCommit, JobInv
      <3>2. {Hash[f] : f \in Ingested} \subseteq Photos
        BY <3>1 DEF Ingested, Photos
      <3>3. photo' = photo \/ photo' = photo \cup {Hash[f] : f \in Ingested}
        BY <1>5 DEF IngestCommit
      <3>4. QED
        BY <1>5, <3>2, <3>3 DEF IngestCommit, RowsInv
    <2>2. RowsInv'
      BY <2>1 DEF RowsInv, FacesOnce
    <2>3. job'.stage = "ingest" /\ job'.outcome \in {"done", "failed"} /\ JobInv'
      BY <1>5 DEF IngestCommit, Exit, JobInv, Stages, Running
    <2>4. QED
      BY <2>2, <2>3 DEF WorkInv, DoneInv, Running
  <1>6. CASE FilterCommit
    <2>1. /\ UNCHANGED <<incoming, photo, embedded, aesthetic, technical, faces>>
          /\ todo = photo \ phash /\ phash' = phash \union (todo \ BadThumb)
          /\ job' = [stage |-> "filter", outcome |-> "done"]
      BY <1>6 DEF FilterCommit, Exit, WorkInv
    <2>2. RowsInv'
      BY <2>1 DEF RowsInv, FacesOnce
    <2>3. QED
      BY <2>1, <2>2 DEF WorkInv, DoneInv, JobInv, Stages, Running
  <1>7. CASE ClipChunk
    <2>1. PICK S \in SUBSET todo : embedded' = embedded \union S /\ todo' = todo \ S
      BY <1>7, Chunks DEF ClipChunk
    <2>2. /\ UNCHANGED <<incoming, photo, phash, aesthetic, technical, faces, job>> /\ Running("clip")
          /\ todo = photo \ embedded
      BY <1>7 DEF ClipChunk, WorkInv
    <2>3. RowsInv'
      BY <2>1, <2>2 DEF RowsInv, FacesOnce
    <2>4. QED
      BY <2>1, <2>2, <2>3 DEF WorkInv, DoneInv, JobInv, Stages, Running, RowsInv
  <1>8. CASE AestheticChunk
    <2>1. PICK S \in SUBSET todo : aesthetic' = aesthetic \union S /\ todo' = todo \ S
      BY <1>8, Chunks DEF AestheticChunk
    <2>2. /\ UNCHANGED <<incoming, photo, phash, embedded, technical, faces, job>> /\ Running("aesthetic")
          /\ todo = photo \ aesthetic /\ photo \subseteq embedded
      BY <1>8 DEF AestheticChunk, WorkInv
    <2>3. RowsInv'
      BY <2>1, <2>2 DEF RowsInv, FacesOnce
    <2>4. QED
      BY <2>1, <2>2, <2>3 DEF WorkInv, DoneInv, JobInv, Stages, Running, RowsInv
  <1>9. CASE AestheticDone
    <2>1. /\ UNCHANGED rows /\ UNCHANGED incoming
          /\ photo \subseteq embedded /\ todo' = Unrated
          /\ job' = [stage |-> "iqa", outcome |-> "running"]
      BY <1>9 DEF AestheticDone, WorkInv, Run
    <2>2. QED
      BY <1>1, <2>1 DEF WorkInv, DoneInv, JobInv, Stages, Running, rows, Unrated
  <1>10. CASE IqaCommit
    BY <1>10, IqaStep
  <1>11. CASE FacesChunk
    BY <1>11, FacesStep
  <1>12. CASE ScoreDone
    <2>1. /\ UNCHANGED rows /\ UNCHANGED incoming /\ todo = {} /\ Running("faces")
          /\ job' = [stage |-> "score", outcome |-> "done"]
      BY <1>12 DEF ScoreDone, Exit
    <2>2. QED
      BY <1>1, <2>1 DEF WorkInv, DoneInv, JobInv, Stages, Running, rows
  <1>13. CASE UNCHANGED vars
    BY <1>2, <1>13 DEF vars, JobInv
  <1>14. QED
    BY <1>3, <1>4, <1>5, <1>6, <1>7, <1>8, <1>9, <1>10, <1>11, <1>12, <1>13 DEF Next

(* The work list of every stage is what the rows miss, however many        *)
(* processes died before it, and no stage that ended well left work undone.*)
THEOREM StagesCorrect == Spec => []CatalogInv
  BY CatalogInit, CatalogStep, PTL DEF Spec

(* A face is stored once, however often the score stage dies between two   *)
(* chunks and is run again.                                                *)
THEOREM FacesAreStoredOnce == Spec => []FacesOnce
  <1>1. CatalogInv => FacesOnce
    BY DEF CatalogInv, RowsInv
  <1>2. QED
    BY <1>1, StagesCorrect, PTL

(* A stage that ended well, and a full score bar, leave no photo undone.   *)
THEOREM DoneIsDone == Spec => []DoneMeansDone
  <1>1. CatalogInv => DoneMeansDone
    <2> SUFFICES ASSUME CatalogInv PROVE DoneMeansDone
      OBVIOUS
    <2> USE DEF CatalogInv
    <2>1. ASSUME job.outcome = "done"
          PROVE  /\ job.stage = "filter" => photo \ BadThumb \subseteq phash
                 /\ job.stage = "score" =>
                      /\ \A p \in photo : p \in embedded /\ technical[p] # None
                      /\ \A p \in photo : faces[p] = FaceCount[p]
      <3>1. job = [stage |-> job.stage, outcome |-> "done"]
        BY <2>1 DEF JobInv
      <3>2. QED
        BY <3>1 DEF DoneInv
    <2>2. ASSUME Full("score") PROVE \A p \in photo : p \in embedded /\ technical[p] # None
      <3> DEFINE S == {p \in aesthetic : technical[p] # None}
      <3>1. Cardinality(S) = Cardinality(photo)
        BY <2>2 DEF Full, Progress
      <3>2. S \subseteq photo /\ IsFiniteSet(photo)
        BY PhotosFinite DEF RowsInv
      <3>3. S = photo
        BY <3>1, <3>2, FS_Subset
      <3>4. QED
        BY <3>3 DEF RowsInv
    <2>3. QED
      BY <2>1, <2>2 DEF DoneMeansDone
  <1>2. QED
    BY <1>1, StagesCorrect, PTL

(* An ingest that changes the catalog leaves no readable file of its walk  *)
(* without a row.                                                          *)
THEOREM IngestIsWhole == Spec => IngestWholeOrNothing
  <1>1. [Next]_vars
          => [photo' # photo =>
                \A f \in todo : f \in Unreadable \/ Hash[f] \in photo']_vars
    <2> SUFFICES ASSUME Next, photo' # photo, NEW f \in todo, f \notin Unreadable
                 PROVE  Hash[f] \in photo'
      OBVIOUS
    <2>1. IngestCommit
      BY DEF Next, Drop, IngestStart, FilterStart, FilterCommit, ScoreStart, ClipChunk, ClipDone,
             AestheticChunk, AestheticDone, IqaCommit, FacesChunk, ScoreDone, ClusterRun, Dies, rows
    <2>2. photo' = photo \union {Hash[g] : g \in Ingested}
      BY <2>1 DEF IngestCommit
    <2>3. QED
      BY <2>2 DEF Ingested
  <1>2. QED
    BY <1>1, PTL DEF Spec, IngestWholeOrNothing

(***************************************************************************)
(* Groups of photos                                                        *)
(***************************************************************************)

(* A run of shots is an equivalence class: of two bursts that share a      *)
(* photo, each holds the photos of the other.                              *)
LEMMA ChainedTransitive ==
    ASSUME photo \subseteq Photos, NEW p \in Stamped, NEW q \in Stamped, NEW r \in Stamped,
           Chained(p, q), Chained(q, r)
    PROVE  Chained(p, r)
  <1>1. \A x \in Stamped : Stamp[x] \in Int
    BY CatalogAssumption DEF Stamped
  <1>2. Camera[p] = Camera[q] /\ Camera[q] = Camera[r]
    BY DEF Chained
  <1>3. ASSUME NEW x \in Stamped, Camera[x] = Camera[p], Stamp[p] <= Stamp[x], Stamp[x] < Stamp[r]
        PROVE  \E y \in Stamped : Camera[y] = Camera[p] /\ Stamp[y] - Stamp[x] \in 1 .. BurstSeconds
    <2>1. CASE Stamp[x] < Stamp[q]
      BY <1>2, <1>3, <2>1 DEF Chained
    <2>2. CASE Stamp[q] <= Stamp[x]
      BY <1>2, <1>3, <2>2 DEF Chained
    <2>3. QED
      BY <1>1, <2>1, <2>2
  <1>4. QED
    BY <1>2, <1>3 DEF Chained

LEMMA BurstsDisjoint ==
    ASSUME photo \subseteq Photos, NEW A \in BurstGroups, NEW B \in BurstGroups, A \cap B # {}
    PROVE  A = B
  <1>1. PICK p \in Stamped : A = BurstOf(p)
    BY DEF BurstGroups
  <1>2. PICK q \in Stamped : B = BurstOf(q)
    BY DEF BurstGroups
  <1>3. PICK x \in Stamped : Chained(p, x) /\ Chained(x, p) /\ Chained(q, x) /\ Chained(x, q)
    BY <1>1, <1>2 DEF BurstOf
  <1>4. Chained(p, q) /\ Chained(q, p)
    BY <1>3, ChainedTransitive
  <1>5. \A y \in Stamped : Chained(p, y) /\ Chained(y, p) <=> Chained(q, y) /\ Chained(y, q)
    BY <1>4, ChainedTransitive
  <1>6. QED
    BY <1>1, <1>2, <1>5 DEF BurstOf

(* The clusters of one run: bursts first, then what HDBSCAN makes of the   *)
(* photos that are in none.                                                *)
Groups(label) == SetToSeq(BurstGroups) \o SetToSeq(ClipGroups(label))

LEMMA SetAsSeq ==
    ASSUME NEW S, IsFiniteSet(S)
    PROVE  /\ SetToSeq(S) \in Seq(S)
           /\ \A i, j \in DOMAIN SetToSeq(S) : SetToSeq(S)[i] = SetToSeq(S)[j] => i = j
  <1>1. Cardinality(S) \in Nat /\ ExistsBijection(1..Cardinality(S), S)
    BY FS_CardinalityType
  <1>2. PICK f \in Bijection(1..Cardinality(S), S) : TRUE
    BY <1>1 DEF ExistsBijection
  <1>3. f \in [1..Cardinality(S) -> S] /\ IsInjective(f)
    BY <1>2 DEF Bijection, Injection
  <1>4. SetToSeq(S) \in [1..Cardinality(S) -> S] /\ IsInjective(SetToSeq(S))
    BY <1>3 DEF SetToSeq
  <1>5. QED
    BY <1>1, <1>4 DEF IsInjective

LEMMA GroupsFinite ==
    ASSUME photo \subseteq Photos, embedded \subseteq photo, NEW label
    PROVE  /\ BurstGroups \in SUBSET SUBSET photo /\ IsFiniteSet(BurstGroups)
           /\ ClipGroups(label) \in SUBSET SUBSET photo /\ IsFiniteSet(ClipGroups(label))
           /\ \A S \in BurstGroups \union ClipGroups(label) : IsFiniteSet(S) /\ Cardinality(S) >= 2
  <1>1. BurstGroups \in SUBSET SUBSET photo
    BY DEF BurstGroups, BurstOf, Stamped
  <1>2. ClipGroups(label) \in SUBSET SUBSET photo
    BY DEF ClipGroups
  <1>3. IsFiniteSet(photo) /\ IsFiniteSet(SUBSET photo)
    BY PhotosFinite, FS_SUBSET
  <1>4. IsFiniteSet(BurstGroups) /\ IsFiniteSet(ClipGroups(label))
    BY <1>1, <1>2, <1>3, FS_Subset
  <1>5. \A S \in BurstGroups \union ClipGroups(label) : IsFiniteSet(S) /\ Cardinality(S) >= 2
    <2>1. \A S \in BurstGroups \union ClipGroups(label) : S \in SUBSET photo
      BY <1>1, <1>2
    <2>2. \A S \in SUBSET photo : IsFiniteSet(S)
      BY <1>3, FS_Subset
    <2>3. QED
      BY <2>1, <2>2 DEF BurstGroups, ClipGroups
  <1>6. QED
    BY <1>1, <1>2, <1>4, <1>5

LEMMA GroupsDisjoint ==
    ASSUME photo \subseteq Photos, embedded \subseteq photo, NEW label
    PROVE  /\ Groups(label) \in Seq(SUBSET photo)
           /\ \A i \in DOMAIN Groups(label) :
                 IsFiniteSet(Groups(label)[i]) /\ Cardinality(Groups(label)[i]) >= 2
           /\ \A i, j \in DOMAIN Groups(label) :
                 i # j => Groups(label)[i] \cap Groups(label)[j] = {}
  <1> DEFINE A == SetToSeq(BurstGroups)
             B == SetToSeq(ClipGroups(label))
             G == Groups(label)
  <1>1. /\ A \in Seq(BurstGroups) /\ \A i, j \in DOMAIN A : A[i] = A[j] => i = j
        /\ B \in Seq(ClipGroups(label)) /\ \A i, j \in DOMAIN B : B[i] = B[j] => i = j
    BY GroupsFinite, SetAsSeq
  <1>2. G = A \o B
    BY DEF Groups
  <1>3. /\ \A S, T \in BurstGroups : S # T => S \cap T = {}
        /\ \A S, T \in ClipGroups(label) : S # T => S \cap T = {}
        /\ \A S \in BurstGroups, T \in ClipGroups(label) : S \cap T = {}
    <2>1. \A S, T \in BurstGroups : S # T => S \cap T = {}
      BY BurstsDisjoint
    <2>2. \A S, T \in ClipGroups(label) : S # T => S \cap T = {}
      BY DEF ClipGroups
    <2>3. \A S \in BurstGroups, T \in ClipGroups(label) : S \cap T = {}
      BY DEF ClipGroups
    <2>4. QED
      BY <2>1, <2>2, <2>3
  <1> HIDE DEF A, B, G
  <1>4. A \in Seq(SUBSET photo) /\ B \in Seq(SUBSET photo)
    BY <1>1, GroupsFinite
  <1>5. /\ G \in Seq(SUBSET photo)
        /\ DOMAIN G = 1..(Len(A) + Len(B))
        /\ \A i \in 1..Len(A) : G[i] = A[i] /\ A[i] \in BurstGroups
        /\ \A i \in (Len(A) + 1)..(Len(A) + Len(B)) :
              G[i] = B[i - Len(A)] /\ i - Len(A) \in DOMAIN B /\ B[i - Len(A)] \in ClipGroups(label)
    BY <1>1, <1>2, <1>4
  <1>6. \A i \in DOMAIN G : G[i] \in BurstGroups \union ClipGroups(label)
    BY <1>1, <1>5
  <1>7. \A i \in DOMAIN G : IsFiniteSet(G[i]) /\ Cardinality(G[i]) >= 2
    BY <1>6, GroupsFinite
  <1>8. ASSUME NEW i \in DOMAIN G, NEW j \in DOMAIN G, i # j PROVE G[i] \cap G[j] = {}
    <2>1. Len(A) \in Nat /\ Len(B) \in Nat /\ DOMAIN A = 1..Len(A)
      BY <1>1
    <2>2. CASE i \in 1..Len(A) /\ j \in 1..Len(A)
      BY <1>1, <1>3, <1>5, <1>8, <2>1, <2>2
    <2>3. CASE i \in 1..Len(A) /\ j \notin 1..Len(A)
      <3>1. G[i] \in BurstGroups /\ G[j] \in ClipGroups(label)
        BY <1>5, <2>1, <2>3
      <3>2. QED
        BY <1>3, <3>1
    <2>4. CASE i \notin 1..Len(A) /\ j \in 1..Len(A)
      <3>1. G[j] \in BurstGroups /\ G[i] \in ClipGroups(label)
        BY <1>5, <2>1, <2>4
      <3>2. QED
        BY <1>3, <3>1
    <2>5. CASE i \notin 1..Len(A) /\ j \notin 1..Len(A)
      <3>1. /\ G[i] = B[i - Len(A)] /\ G[i] \in ClipGroups(label) /\ i - Len(A) \in DOMAIN B
            /\ G[j] = B[j - Len(A)] /\ G[j] \in ClipGroups(label) /\ j - Len(A) \in DOMAIN B
        BY <1>5, <2>1, <2>5
      <3>2. i - Len(A) # j - Len(A)
        BY <1>5, <1>8, <2>1
      <3>3. G[i] # G[j]
        BY <1>1, <3>1, <3>2
      <3>4. QED
        BY <1>3, <3>1, <3>3
    <2>6. QED
      BY <2>2, <2>3, <2>4, <2>5
  <1>9. QED
    BY <1>5, <1>7, <1>8 DEF G

LEMMA RankingFacts ==
    ASSUME NEW S, IsFiniteSet(S), NEW r \in Rankings(S)
    PROVE  /\ r \in Seq(S) /\ DOMAIN r = 1..Cardinality(S) /\ Cardinality(S) \in Nat
           /\ \A m, n \in DOMAIN r : Before(r[m], r[n]) => m < n
  <1>1. Cardinality(S) \in Nat
    BY FS_CardinalityType
  <1>2. QED
    BY <1>1 DEF Rankings

(* What a clustering run adds to the tables.                               *)
Ranks(label, new) ==
    /\ new \in Seq(Seq(photo)) /\ DOMAIN new = DOMAIN Groups(label)
    /\ \A i \in DOMAIN new : new[i] \in Rankings(Groups(label)[i])

LEMMA RanksFacts ==
    ASSUME photo \subseteq Photos, embedded \subseteq photo, NEW label, NEW new, Ranks(label, new)
    PROVE  /\ \A i \in DOMAIN new : 1 \in DOMAIN new[i]
           /\ \A i, j \in DOMAIN new : i # j => ToSet(new[i]) \cap ToSet(new[j]) = {}
  <1>1. \A i \in DOMAIN new : /\ IsFiniteSet(Groups(label)[i]) /\ Cardinality(Groups(label)[i]) >= 2
                              /\ new[i] \in Rankings(Groups(label)[i])
    BY GroupsDisjoint DEF Ranks
  <1>2. \A i \in DOMAIN new : 1 \in DOMAIN new[i] /\ ToSet(new[i]) \subseteq Groups(label)[i]
    <2> TAKE i \in DOMAIN new
    <2>1. /\ new[i] \in Seq(Groups(label)[i]) /\ DOMAIN new[i] = 1..Cardinality(Groups(label)[i])
          /\ Cardinality(Groups(label)[i]) \in Nat /\ Cardinality(Groups(label)[i]) >= 2
      BY <1>1, RankingFacts
    <2>2. QED
      BY <2>1 DEF ToSet
  <1>3. \A i, j \in DOMAIN new : i # j => Groups(label)[i] \cap Groups(label)[j] = {}
    BY GroupsDisjoint DEF Ranks
  <1>4. QED
    BY <1>2, <1>3

LEMMA ClusterFacts ==
    ASSUME photo \subseteq Photos, embedded \subseteq photo, ClusterRun
    PROVE  \E label, new :
             /\ Ranks(label, new)
             /\ clusters' = clusters \o new
             /\ clusterId' = [p \in Photos |->
                   LET own == {i \in DOMAIN new : p \in ToSet(new[i])}
                   IN  IF own = {} THEN clusterId[p] ELSE Len(clusters') - Len(new) + Max(own)]
             /\ recommended' = recommended \union {new[i][1] : i \in DOMAIN new}
  <1>1. PICK label \in [embedded -> {None} \union Labels] : CreateClusters(Groups(label))
    BY DEF ClusterRun, Groups
  <1> DEFINE G == Groups(label)
  <1>2. PICK new \in [DOMAIN G -> UNION {Rankings(G[i]) : i \in DOMAIN G}] :
             /\ \A i \in DOMAIN G : new[i] \in Rankings(G[i])
             /\ clusters' = clusters \o new
             /\ clusterId' = [p \in Photos |->
                   LET own == {i \in DOMAIN new : p \in ToSet(new[i])}
                   IN  IF own = {} THEN clusterId[p] ELSE Len(clusters') - Len(new) + Max(own)]
             /\ recommended' = recommended \union {new[i][1] : i \in DOMAIN new}
    BY <1>1 DEF CreateClusters, Listed
  <1>3. G \in Seq(SUBSET photo) /\ \A i \in DOMAIN G : IsFiniteSet(G[i])
    BY GroupsDisjoint
  <1> HIDE DEF G
  <1>4. \A i \in DOMAIN G : new[i] \in Seq(photo)
    <2> TAKE i \in DOMAIN G
    <2>1. new[i] \in Seq(G[i]) /\ G[i] \subseteq photo
      BY <1>2, <1>3, RankingFacts
    <2>2. QED
      BY <2>1
  <1>5. DOMAIN new = DOMAIN G /\ DOMAIN G = 1..Len(G) /\ Len(G) \in Nat
    BY <1>2, <1>3
  <1>6. new \in [1..Len(G) -> Seq(photo)]
    BY <1>2, <1>4, <1>5
  <1>7. new \in Seq(Seq(photo))
    BY <1>5, <1>6
  <1>8. Ranks(label, new)
    BY <1>2, <1>5, <1>7 DEF Ranks, G
  <1>9. QED
    BY <1>2, <1>8

(***************************************************************************)
(* The tables of the clusters                                              *)
(***************************************************************************)

(* A photo's cluster_id names a cluster that lists it; before the first    *)
(* clustering there is nothing, and after it what OneRecommendedEach says. *)
TablesInv ==
    /\ clusters \in Seq(Seq(photo))
    /\ clusterId \in [Photos -> Int]
    /\ \A p \in Photos : clusterId[p] # None =>
          clusterId[p] \in DOMAIN clusters /\ p \in ToSet(clusters[clusterId[p]])
    /\ clustered.runs \in Nat
    /\ clustered.runs = 0 => clusters = <<>> /\ recommended = {}
    /\ OneRecommendedEach

LEMMA TablesInit == Init => TablesInv
  <1> SUFFICES ASSUME Init PROVE TablesInv
    OBVIOUS
  <1>1. clusters = <<>> /\ clusterId = [p \in Photos |-> None] /\ recommended = {}
        /\ clustered.runs = 0
    BY DEF Init
  <1>2. QED
    BY <1>1 DEF TablesInv, OneRecommendedEach, None

LEMMA ClusterStep == RowsInv /\ TablesInv /\ ClusterRun => TablesInv'
  <1> SUFFICES ASSUME RowsInv, TablesInv, ClusterRun PROVE TablesInv'
    OBVIOUS
  <1>1. photo \subseteq Photos /\ embedded \subseteq photo /\ photo' = photo
        /\ clustered'.runs = clustered.runs + 1
    BY DEF RowsInv, ClusterRun, rows
  <1>2. PICK label, new :
             /\ Ranks(label, new)
             /\ clusters' = clusters \o new
             /\ clusterId' = [p \in Photos |->
                   LET own == {i \in DOMAIN new : p \in ToSet(new[i])}
                   IN  IF own = {} THEN clusterId[p] ELSE Len(clusters') - Len(new) + Max(own)]
             /\ recommended' = recommended \union {new[i][1] : i \in DOMAIN new}
    BY <1>1, ClusterFacts
  <1>3. clusters \in Seq(Seq(photo)) /\ new \in Seq(Seq(photo))
    BY <1>2 DEF TablesInv, Ranks
  <1>4. /\ clusters' \in Seq(Seq(photo)) /\ Len(clusters') = Len(clusters) + Len(new)
        /\ Len(clusters) \in Nat /\ Len(new) \in Nat
        /\ DOMAIN clusters = 1..Len(clusters) /\ DOMAIN new = 1..Len(new)
        /\ DOMAIN clusters' = 1..(Len(clusters) + Len(new))
        /\ \A i \in DOMAIN clusters : clusters'[i] = clusters[i]
        /\ \A i \in DOMAIN new : clusters'[Len(clusters) + i] = new[i]
    BY <1>2, <1>3
  <1>5. ASSUME NEW p \in Photos
        PROVE  /\ clusterId'[p] \in Int
               /\ clusterId'[p] # None =>
                    clusterId'[p] \in DOMAIN clusters' /\ p \in ToSet(clusters'[clusterId'[p]])
    <2> DEFINE own == {i \in DOMAIN new : p \in ToSet(new[i])}
    <2>1. clusterId'[p] = IF own = {} THEN clusterId[p] ELSE Len(clusters') - Len(new) + Max(own)
      BY <1>2
    <2>2. CASE own = {}
      BY <1>4, <2>1, <2>2 DEF TablesInv
    <2>3. CASE own # {}
      <3>1. own \in SUBSET Int /\ IsFiniteSet(own)
        <4>1. IsFiniteSet(1..Len(new))
          BY <1>4, FS_Interval
        <4>2. own \in SUBSET (1..Len(new))
          BY <1>4
        <4>3. QED
          BY <4>1, <4>2, FS_Subset
      <3>2. Max(own) \in own
        <4> HIDE DEF own
        <4>1. QED
          BY <2>3, <3>1, Bounds
      <3>3. clusterId'[p] = Len(clusters) + Max(own) /\ Max(own) \in DOMAIN new
            /\ p \in ToSet(new[Max(own)])
        BY <1>4, <2>1, <2>3, <3>2
      <3> HIDE DEF own
      <3>4. QED
        BY <1>4, <3>3
    <2>4. QED
      BY <2>2, <2>3
  <1>6. clusterId' \in [Photos -> Int]
    BY <1>2, <1>5
  <1>7. ASSUME clustered'.runs = 1 PROVE OneRecommendedEach'
    <2>1. clusters = <<>> /\ recommended = {}
      BY <1>1, <1>7 DEF TablesInv
    <2>2. clusters' = new
      BY <1>2, <1>3, <2>1
    <2>3. recommended' = {new[i][1] : i \in DOMAIN new}
      BY <1>2, <2>1
    <2>4. /\ \A i \in DOMAIN new : 1 \in DOMAIN new[i]
          /\ \A i, j \in DOMAIN new : i # j => ToSet(new[i]) \cap ToSet(new[j]) = {}
      BY <1>1, <1>2, RanksFacts
    <2>5. \A i \in DOMAIN new : new[i][1] \in ToSet(new[i])
      BY <2>4 DEF ToSet
    <2>6. \A i \in DOMAIN new : ToSet(new[i]) \cap {new[j][1] : j \in DOMAIN new} = {new[i][1]}
      BY <2>4, <2>5
    <2>7. QED
      BY <2>2, <2>3, <2>4, <2>6 DEF OneRecommendedEach
  <1>8. OneRecommendedEach'
    BY <1>7 DEF OneRecommendedEach
  <1>9. clustered'.runs \in Nat /\ clustered'.runs # 0
    BY <1>1 DEF TablesInv
  <1>10. QED
    BY <1>1, <1>4, <1>5, <1>6, <1>8, <1>9 DEF TablesInv

LEMMA TablesStep == RowsInv /\ TablesInv /\ [Next]_vars => TablesInv'
  <1> SUFFICES ASSUME RowsInv, TablesInv, [Next]_vars PROVE TablesInv'
    OBVIOUS
  <1>1. CASE ClusterRun
    BY <1>1, ClusterStep
  <1>2. CASE ~ClusterRun
    <2>1. UNCHANGED <<tables, clustered>>
      BY <1>2 DEF Next, vars, Drop, IngestStart, IngestCommit, FilterStart, FilterCommit, ScoreStart,
             ClipChunk, ClipDone, AestheticChunk, AestheticDone, IqaCommit, FacesChunk, ScoreDone, Dies
    <2>2. photo \subseteq photo'
      BY <1>2 DEF Next, vars, rows, Drop, IngestStart, IngestCommit, FilterStart, FilterCommit, ScoreStart,
             ClipChunk, ClipDone, AestheticChunk, AestheticDone, IqaCommit, FacesChunk, ScoreDone, Dies
    <2>3. clusters' \in Seq(Seq(photo'))
      <3>1. \A c \in Seq(photo) : c \in Seq(photo')
        BY <2>2
      <3>2. QED
        BY <2>1, <3>1 DEF TablesInv, tables
    <2>4. QED
      BY <2>1, <2>3 DEF TablesInv, OneRecommendedEach, tables
  <1>3. QED
    BY <1>1, <1>2

LEMMA TablesHold == Spec => [](CatalogInv /\ TablesInv)
  <1>1. CatalogInv => RowsInv
    BY DEF CatalogInv
  <1>2. QED
    BY <1>1, CatalogInit, CatalogStep, TablesInit, TablesStep, PTL DEF Spec

(* Whatever is clustered, and clustered again after more photos came, the  *)
(* review grid shows every photo: in a listed cluster or as unclustered    *)
(* (cluster_job.py, api/routes/cluster.py).                                *)
THEOREM NoPhotoIsLost == Spec => []EveryPhotoListed
  <1>1. CatalogInv /\ TablesInv => EveryPhotoListed
    <2> SUFFICES ASSUME CatalogInv, TablesInv, NEW p \in photo PROVE p \in UNION Range(Grid)
      BY DEF EveryPhotoListed
    <2> DEFINE lists == [i \in DOMAIN clusters |-> ToSet(clusters[i])]
               rest == {q \in photo : clusterId[q] = None}
    <2>1. p \in Photos /\ Grid = Append(lists, rest)
      BY DEF CatalogInv, RowsInv, Grid
    <2>2. clusters \in Seq(Seq(photo))
      BY DEF TablesInv
    <2>3. \A i \in DOMAIN clusters : lists[i] = ToSet(clusters[i])
      OBVIOUS
    <2>4. lists \in Seq(SUBSET photo) /\ Len(lists) = Len(clusters)
      <3>1. DOMAIN clusters = 1..Len(clusters) /\ Len(clusters) \in Nat
        BY <2>2
      <3>2. \A i \in DOMAIN clusters : clusters[i] \in Seq(photo)
        BY <2>2
      <3>3. \A i \in DOMAIN clusters : ToSet(clusters[i]) \in SUBSET photo
        BY <3>2 DEF ToSet
      <3>4. lists \in [1..Len(clusters) -> SUBSET photo]
        BY <3>1, <3>3
      <3> HIDE DEF lists
      <3>5. QED
        BY <3>1, <3>4
    <2> HIDE DEF lists
    <2>5. /\ DOMAIN Append(lists, rest) = 1..(Len(clusters) + 1)
          /\ Append(lists, rest)[Len(clusters) + 1] = rest
          /\ \A i \in 1..Len(clusters) : Append(lists, rest)[i] = lists[i]
          /\ DOMAIN clusters = 1..Len(clusters) /\ Len(clusters) \in Nat
      <3> HIDE DEF rest
      <3>1. QED
        BY <2>2, <2>4
    <2>6. \E i \in DOMAIN Append(lists, rest) : p \in Append(lists, rest)[i]
      <3>1. CASE clusterId[p] = None
        BY <2>5, <3>1
      <3>2. CASE clusterId[p] # None
        <4>1. clusterId[p] \in DOMAIN clusters /\ p \in ToSet(clusters[clusterId[p]])
          BY <2>1, <3>2 DEF TablesInv
        <4>2. QED
          BY <2>3, <2>5, <4>1
      <3>3. QED
        BY <3>1, <3>2
    <2>7. QED
      BY <2>1, <2>6 DEF Range
  <1>2. QED
    BY <1>1, TablesHold, PTL

(* The first clustering puts no photo into two clusters and recommends of  *)
(* each cluster its first, and that one only (cluster_job.py:24).          *)
THEOREM FirstClusteringRecommendsOne == Spec => []OneRecommendedEach
  <1>1. TablesInv => OneRecommendedEach
    BY DEF TablesInv
  <1>2. QED
    BY <1>1, TablesHold, PTL

(***************************************************************************)
(* The order of a cluster                                                  *)
(***************************************************************************)

LEMMA Exactly ==
    ASSUME NEW u \in Nat, NEW n \in Nat, NEW d \in Nat, d > 0, u % d = 0
    PROVE  (u * n) \div d = (u \div d) * n /\ u \div d \in Nat /\ u = d * (u \div d)
  <1> DEFINE k == u \div d
  <1>1. k \in Nat /\ u = d * k
    OBVIOUS
  <1> HIDE DEF k
  <1>2. \A x \in Nat : (d * x) \div d = x
    <2> TAKE x \in Nat
    <2>1. d * x \in Nat
      OBVIOUS
    <2> DEFINE q == (d * x) \div d
    <2>2. q \in Nat /\ d * q <= d * x /\ d * x < d * q + d
      BY <2>1
    <2> HIDE DEF q
    <2>3. ~(q < x) /\ ~(x < q)
      <3>1. \A a, b \in Nat : a < b => d * a + d <= d * b
        OBVIOUS
      <3>2. QED
        BY <2>2, <3>1
    <2>4. QED
      BY <2>2, <2>3 DEF q
  <1>3. u * n = d * (k * n) /\ k * n \in Nat
    BY <1>1
  <1>4. (u * n) \div d = k * n
    BY <1>2, <1>3
  <1>5. QED
    BY <1>1, <1>4 DEF k

(* Normalising keeps the order of the scores of one run.                   *)
LEMMA NormalisedOrder ==
    ASSUME NEW S \in SUBSET Photos, IsFiniteSet(S), NEW p \in S, NEW q \in S,
           NEW score \in {Musiq, Maniqa}
    PROVE  /\ score[p] >= score[q] => Normalised(score, p, S) >= Normalised(score, q, S)
           /\ score[p] > score[q] => Normalised(score, p, S) > Normalised(score, q, S)
  <1> DEFINE T == {score[r] : r \in S}
             lo == Min(T)
             hi == Max(T)
  <1>1. score \in [Photos -> Int] /\ T \in SUBSET Int /\ T # {}
    BY CatalogAssumption
  <1>2. IsFiniteSet(T)
    <2>1. [r \in S |-> score[r]] \in Surjection(S, T)
      BY DEF Surjection
    <2> HIDE DEF T
    <2>2. QED
      BY <2>1, FS_Surjection
  <1>3. lo \in T /\ hi \in T /\ \A x \in T : lo <= x /\ x <= hi
    <2> HIDE DEF T
    <2>1. QED
      BY <1>1, <1>2, Bounds
  <1>4. PICK a \in S, b \in S : hi = score[a] /\ lo = score[b]
    BY <1>3
  <1>5. \A r \in S : score[r] \in Int /\ lo <= score[r] /\ score[r] <= hi
    BY <1>1, <1>3
  <1>6. \A r \in S : Normalised(score, r, S)
                       = IF hi = lo THEN 0 ELSE (Unit * (score[r] - lo)) \div (hi - lo)
    BY DEF Normalised
  <1> HIDE DEF T, lo, hi
  <1>7. hi \in Int /\ lo \in Int
    BY <1>4, <1>5
  <1>8. CASE hi = lo
    <2>1. \A r \in S : Normalised(score, r, S) = 0
      BY <1>6, <1>8
    <2>2. score[p] = lo /\ score[q] = lo /\ lo \in Int
      BY <1>5, <1>7, <1>8
    <2>3. QED
      BY <2>1, <2>2
  <1>9. CASE hi # lo
    <2> DEFINE d == hi - lo
               k == Unit \div d
    <2>1. d \in Nat /\ d > 0
      BY <1>4, <1>5, <1>7, <1>9
    <2>2. Unit % d = 0
      BY <1>1, <1>4, <2>1, UnitAssumption
    <2>3. \A n \in Nat : (Unit * n) \div d = k * n /\ k \in Nat /\ Unit = d * k
      <3> HIDE DEF d
      <3>1. QED
        BY <2>1, <2>2, Exactly, UnitAssumption
    <2>4. k \in Nat /\ k > 0
      <3>1. k \in Nat /\ Unit = d * k
        BY <2>3
      <3> HIDE DEF d, k
      <3>2. QED
        BY <2>1, <3>1, UnitAssumption
    <2>5. \A r \in S : score[r] - lo \in Nat /\ Normalised(score, r, S) = k * (score[r] - lo)
      <3> TAKE r \in S
      <3>1. score[r] - lo \in Nat
        BY <1>5, <1>7
      <3>2. (Unit * (score[r] - lo)) \div d = k * (score[r] - lo)
        BY <2>3, <3>1
      <3>3. QED
        BY <1>6, <1>9, <3>1, <3>2
    <2> HIDE DEF d, k
    <2>6. \A x, y \in Nat : (x >= y => k * x >= k * y) /\ (x > y => k * x > k * y)
      <3>1. \A z \in Nat : k * z >= 0 /\ (z > 0 => k * z > 0)
        BY <2>4
      <3>2. \A x, y \in Nat : k * (x - y) = k * x - k * y
        BY <2>4
      <3>3. \A x, y \in Nat : x >= y => x - y \in Nat
        OBVIOUS
      <3> TAKE x, y \in Nat
      <3>4. k * x \in Nat /\ k * y \in Nat /\ k * (x - y) = k * x - k * y
        BY <2>4, <3>2
      <3>5. x >= y => k * (x - y) >= 0 /\ (x - y > 0 => k * (x - y) > 0)
        BY <3>1, <3>3
      <3>6. QED
        BY <3>4, <3>5
    <2>7. \A x, y \in Int : (x >= y <=> x - lo >= y - lo) /\ (x > y <=> x - lo > y - lo)
      BY <1>7
    <2>8. QED
      BY <1>5, <2>5, <2>6, <2>7
  <1>10. QED
    BY <1>8, <1>9

(* Of two photos rated by the same run, the technical scores are in the    *)
(* order of what both networks say of them.                                *)
Outdoes(p, q) == Musiq[p] > Musiq[q] /\ Maniqa[p] >= Maniqa[q]
RatedInv ==
    /\ rated \in [Photos -> Nat]
    /\ \A p \in Photos : rated[p] > 0 => technical[p] \in Nat
    /\ \A p, q \in Photos : rated[p] = rated[q] /\ rated[p] > 0 /\ Outdoes(p, q)
                              => technical[p] > technical[q]

LEMMA RatedInit == Init => RatedInv
BY DEF Init, RatedInv

LEMMA RatedStep == CatalogInv /\ RatedInv /\ [Next]_vars => RatedInv'
  <1> SUFFICES ASSUME CatalogInv, RatedInv, [Next]_vars PROVE RatedInv'
    OBVIOUS
  <1>1. CASE IqaCommit
    <2> DEFINE run == 1 + Max({rated[q] : q \in Photos})
    <2>1. todo \subseteq Photos /\ IsFiniteSet(todo)
      BY <1>1, PhotosFinite DEF CatalogInv, WorkInv, RowsInv, IqaCommit, Unrated
    <2>2. /\ technical' = [p \in Photos |->
                  IF p \in todo THEN Normalised(Musiq, p, todo) + Normalised(Maniqa, p, todo)
                                ELSE technical[p]]
          /\ rated' = [p \in Photos |-> IF p \in todo THEN run ELSE rated[p]]
      BY <1>1 DEF IqaCommit
    <2>3. \A p \in todo : /\ Normalised(Musiq, p, todo) \in Nat
                          /\ Normalised(Maniqa, p, todo) \in Nat
      BY <2>1, NormalisedNat, CatalogAssumption
    <2>4. \A p \in todo : run \in Nat /\ \A q \in Photos : rated[q] < run
      <3> DEFINE T == {rated[q] : q \in Photos}
      <3>1. T \in SUBSET Int /\ \A q \in Photos : rated[q] \in T /\ rated[q] \in Nat
        BY DEF RatedInv
      <3>2. IsFiniteSet(T)
        <4>1. [q \in Photos |-> rated[q]] \in Surjection(Photos, T)
          BY DEF Surjection
        <4> HIDE DEF T
        <4>2. QED
          BY <4>1, FS_Surjection, PhotosFinite
      <3>3. ASSUME NEW p \in todo PROVE Max(T) \in Nat /\ \A q \in Photos : rated[q] <= Max(T)
        <4>1. T # {} /\ \A x \in T : x \in Nat
          BY <2>1, <3>1, <3>3
        <4> HIDE DEF T
        <4>2. QED
          BY <3>1, <3>2, <4>1, Bounds
      <3> HIDE DEF T
      <3>4. QED
        BY <3>1, <3>3 DEF T
    <2> HIDE DEF run
    <2>5. rated' \in [Photos -> Nat]
      BY <2>2, <2>4 DEF RatedInv
    <2>6. \A p \in Photos : rated'[p] > 0 => technical'[p] \in Nat
      BY <2>2, <2>3 DEF RatedInv
    <2>7. ASSUME NEW p \in Photos, NEW q \in Photos,
                 rated'[p] = rated'[q], rated'[p] > 0, Outdoes(p, q)
          PROVE  technical'[p] > technical'[q]
      <3>1. CASE p \in todo /\ q \in todo
        <4>1. Normalised(Musiq, p, todo) > Normalised(Musiq, q, todo)
              /\ Normalised(Maniqa, p, todo) >= Normalised(Maniqa, q, todo)
          BY <2>1, <2>7, <3>1, NormalisedOrder DEF Outdoes
        <4>2. QED
          BY <2>2, <2>3, <3>1, <4>1
      <3>2. CASE p \notin todo /\ q \notin todo
        BY <2>2, <2>7, <3>2 DEF RatedInv
      <3>3. CASE (p \in todo) # (q \in todo)
        BY <2>2, <2>4, <2>7, <3>3 DEF RatedInv
      <3>4. QED
        BY <3>1, <3>2, <3>3
    <2>8. QED
      BY <2>5, <2>6, <2>7 DEF RatedInv, Outdoes
  <1>2. CASE ~IqaCommit
    <2>1. UNCHANGED <<technical, rated>>
      BY <1>2 DEF Next, vars, rows, Drop, IngestStart, IngestCommit, FilterStart, FilterCommit, ScoreStart,
             ClipChunk, ClipDone, AestheticChunk, AestheticDone, FacesChunk, ScoreDone, ClusterRun, Dies
    <2>2. QED
      BY <2>1 DEF RatedInv, Outdoes
  <1>3. QED
    BY <1>1, <1>2

LEMMA CombinedOrder ==
    ASSUME RowsInv, RatedInv, NEW p \in photo, NEW q \in photo,
           rated[p] = rated[q], rated[p] > 0, Better(p, q)
    PROVE  Before(p, q)
  <1>1. p \in Photos /\ q \in Photos
    BY DEF RowsInv
  <1>2. technical[p] \in Nat /\ technical[q] \in Nat /\ technical[p] > technical[q]
    BY <1>1 DEF RatedInv, Better, Outdoes
  <1>3. Max({technical[p], 0}) = technical[p] /\ Max({technical[q], 0}) = technical[q]
    <2>1. \A n \in Nat : Max({n, 0}) = n
      BY DEF Max
    <2>2. QED
      BY <1>2, <2>1
  <1> DEFINE taste(x) == IF x \in aesthetic THEN 4 * Unit * (Aesthetic[x] - 1) ELSE 0
  <1>4. \A m, n \in 1..10 : m >= n => 4 * Unit * (m - 1) >= 4 * Unit * (n - 1)
    BY UnitAssumption
  <1>5. \A m \in 1..10 : 4 * Unit * (m - 1) \in Nat
    BY UnitAssumption
  <1>6. taste(p) \in Nat /\ taste(q) \in Nat /\ taste(p) >= taste(q)
    <2>1. Aesthetic[p] \in 1..10 /\ Aesthetic[q] \in 1..10
      BY <1>1, CatalogAssumption
    <2>2. p \in aesthetic /\ (q \in aesthetic => Aesthetic[p] >= Aesthetic[q])
      BY DEF Better
    <2>3. taste(p) = 4 * Unit * (Aesthetic[p] - 1) /\ taste(p) \in Nat
      BY <1>5, <2>1, <2>2
    <2>4. CASE q \in aesthetic
      BY <1>4, <1>5, <2>1, <2>2, <2>3, <2>4
    <2>5. CASE q \notin aesthetic
      BY <2>3, <2>5
    <2>6. QED
      BY <2>4, <2>5
  <1>7. Combined(p) = 27 * technical[p] + taste(p) /\ Combined(q) = 27 * technical[q] + taste(q)
    BY <1>3 DEF Combined
  <1> HIDE DEF taste
  <1>8. QED
    BY <1>2, <1>6, <1>7 DEF Before

(* Of two photos scored in one run, the one that every measure prefers     *)
(* stands first in each cluster both are put in, and so is the one         *)
(* recommended (score_job.py:117, recommend.py).                           *)
THEOREM RanksFollowMeasures == Spec => RankFollowsMeasures
  <1>1. CatalogInv /\ TablesInv /\ RatedInv /\ [Next]_vars
          => [\A i \in DOMAIN clusters' \ DOMAIN clusters :
                \A m, n \in DOMAIN clusters'[i] :
                   LET p == clusters'[i][m]
                       q == clusters'[i][n]
                   IN  rated[p] = rated[q] /\ rated[p] > 0 /\ Better(p, q) => m < n]_vars
    <2> SUFFICES ASSUME CatalogInv, TablesInv, RatedInv, Next,
                        NEW i \in DOMAIN clusters' \ DOMAIN clusters,
                        NEW m \in DOMAIN clusters'[i], NEW n \in DOMAIN clusters'[i],
                        rated[clusters'[i][m]] = rated[clusters'[i][n]],
                        rated[clusters'[i][m]] > 0,
                        Better(clusters'[i][m], clusters'[i][n])
                 PROVE  m < n
      OBVIOUS
    <2>1. RowsInv
      BY DEF CatalogInv
    <2>2. ClusterRun
      BY DEF Next, tables, Drop, IngestStart, IngestCommit, FilterStart, FilterCommit, ScoreStart,
             ClipChunk, ClipDone, AestheticChunk, AestheticDone, IqaCommit, FacesChunk, ScoreDone, Dies
    <2>3. PICK label, new : Ranks(label, new) /\ clusters' = clusters \o new
      BY <2>1, <2>2, ClusterFacts DEF RowsInv
    <2>4. clusters \in Seq(Seq(photo)) /\ new \in Seq(Seq(photo))
      BY <2>3 DEF TablesInv, Ranks
    <2>5. PICK j \in DOMAIN new : clusters'[i] = new[j]
      <3>1. i \in 1..(Len(clusters) + Len(new)) /\ i \notin 1..Len(clusters)
        BY <2>3, <2>4
      <3>2. i - Len(clusters) \in DOMAIN new /\ clusters'[i] = new[i - Len(clusters)]
        BY <2>3, <2>4, <3>1
      <3>3. QED
        BY <3>2
    <2>6. new[j] \in Seq(photo) /\ new[j] \in Rankings(Groups(label)[j])
          /\ IsFiniteSet(Groups(label)[j])
      BY <2>1, <2>3, <2>4, <2>5, GroupsDisjoint DEF Ranks, RowsInv
    <2>7. new[j][m] \in photo /\ new[j][n] \in photo
      BY <2>5, <2>6
    <2>8. Before(new[j][m], new[j][n])
      BY <2>1, <2>5, <2>7, CombinedOrder
    <2>9. QED
      BY <2>5, <2>6, <2>8, RankingFacts
  <1>2. QED
    BY <1>1, TablesHold, CatalogInit, CatalogStep, RatedInit, RatedStep, PTL
       DEF Spec, RankFollowsMeasures
=============================================================================
