------------------------------ MODULE Catalog ------------------------------
(***************************************************************************)
(* The rows the stages ingest, filter, score and cluster write about the   *)
(* photos (src/app/ingest, filters, scoring, clustering).  JobRunner lets  *)
(* one stage process run at a time (see Orchestrator), so there is one     *)
(* `stage`; it may die (a kill, an exception, a failed commit) between any *)
(* two of its transactions, and files may be dropped into incoming/ at any *)
(* time.  A photo is named by the hash of its bytes, so that two files     *)
(* with the same bytes are one photo.                                      *)
(* It is assumed that there is a GPU, without which score ends well and    *)
(* does nothing (score_job.py:177), and that no preview is missing.        *)
(***************************************************************************)
EXTENDS Integers, FiniteSets, Sequences, SequencesExt

CONSTANTS
    Files,          \* what the user may drop into incoming/
    Hash,           \* [Files -> photos]: xxh3 of the bytes
    Unreadable,     \* files no decoder opens
    BadThumb,       \* photos whose thumbnail the filters cannot read
    Camera, Stamp,  \* EXIF of a photo; a Stamp below 0 is a missing one
    BurstSeconds,
    Musiq, Maniqa,  \* what the two IQA networks say of a photo
    Aesthetic,      \* what the aesthetic head says of it, 1..10
    FaceCount,      \* the faces InsightFace finds in it
    Unit,           \* the steps a normalised score is counted in
    ClipBatch, FaceBatch,   \* photos per commit
    Labels,         \* the labels HDBSCAN may give a cluster
    MaxClusterings  \* bound: cluster runs explored

Photos == {Hash[f] : f \in Files}
None == -1

ASSUME CatalogAssumption ==
    /\ Hash \in [Files -> Photos] /\ Unreadable \subseteq Files
    /\ ClipBatch \in Nat \ {0} /\ FaceBatch \in Nat \ {0}
    /\ FaceCount \in [Photos -> Nat]
    /\ IsFiniteSet(Files)
    /\ Musiq \in [Photos -> Int] /\ Maniqa \in [Photos -> Int]
    /\ Aesthetic \in [Photos -> 1..10] /\ Stamp \in [Photos -> Int]

\* Scores are real numbers.  Whatever the finitely many photos score, there is
\* a unit that every difference divides, and in it nothing has to be rounded.
ASSUME UnitAssumption ==
    /\ Unit \in Nat \ {0}
    /\ \A score \in {Musiq, Maniqa} : \A p, q \in Photos :
          score[p] > score[q] => Unit % (score[p] - score[q]) = 0

VARIABLES
    incoming,       \* files in photos/incoming
    photo,          \* rows of photos
    phash,          \* photos with blur_var, phash, ... set
    embedded,       \* rows of photo_embeddings
    aesthetic,      \* photos with an aesthetic_score
    technical,      \* technical_score, or None
    faces,          \* rows of faces, per photo
    clusters,       \* the rows of clusters in order, each its members by rank
    clusterId,      \* photos.cluster_id, or None
    recommended,    \* photos with is_recommended = 1
    job,            \* [stage, outcome] of the last stage process
    todo,           \* the files or photos it took as its work and has not done
    rated,          \* the score run that wrote technical_score (0: none)
    clustered       \* [runs, of]: the clusterings so far, the rows the last one saw

rows == <<photo, phash, embedded, aesthetic, technical, faces>>
tables == <<clusters, clusterId, recommended>>
vars == <<incoming, rows, tables, job, todo, rated, clustered>>

Running(s) == job = [stage |-> s, outcome |-> "running"]
Free == job.outcome # "running"
Run(s) == job' = [stage |-> s, outcome |-> "running"]
Exit(s, o) == /\ job' = [stage |-> s, outcome |-> o]
              /\ todo' = {}

Init ==
    /\ incoming = {} /\ photo = {} /\ phash = {} /\ embedded = {} /\ aesthetic = {}
    /\ technical = [p \in Photos |-> None] /\ faces = [p \in Photos |-> 0]
    /\ clusters = <<>> /\ clusterId = [p \in Photos |-> None] /\ recommended = {}
    /\ job = [stage |-> "none", outcome |-> "none"] /\ todo = {}
    /\ rated = [p \in Photos |-> 0] /\ clustered = [runs |-> 0, of |-> <<{}, {}>>]

Drop(f) ==
    /\ f \notin incoming
    /\ incoming' = incoming \cup {f}
    /\ UNCHANGED <<rows, tables, job, todo, rated, clustered>>

-----------------------------------------------------------------------------
(* ingest: a pool works through the files of the walk; one commit at the   *)
(* end.                                                                    *)

IngestStart ==
    /\ Free /\ incoming # {}
    /\ Run("ingest") /\ todo' = incoming
    /\ UNCHANGED <<incoming, rows, tables, rated, clustered>>

\* Mutant of Ingested: files with the same bytes are left out.
IngestedSingly ==
    {f \in todo \ Unreadable : /\ Hash[f] \notin photo
                               /\ \A g \in todo \ {f} : Hash[g] # Hash[f]}

(* The results the pool holds when all its futures are in: files that are  *)
(* new by hash.  The session does not autoflush, so merge() inserts both   *)
(* of two new files with the same bytes; the second fails and rolls all    *)
(* back.                                                                   *)
Ingested == {f \in todo \ Unreadable : Hash[f] \notin photo}
Twins == \E f, g \in Ingested : f # g /\ Hash[f] = Hash[g]

IngestCommit ==
    /\ Running("ingest")
    /\ IF Twins
       THEN Exit("ingest", "failed") /\ UNCHANGED photo
       ELSE Exit("ingest", "done") /\ photo' = photo \cup {Hash[f] : f \in Ingested}
    /\ UNCHANGED <<incoming, phash, embedded, aesthetic, technical, faces, tables,
                   rated, clustered>>

-----------------------------------------------------------------------------
(* filter: the photos without a phash; one commit at the end.              *)

FilterStart ==
    /\ Free /\ photo \ phash # {}
    /\ Run("filter") /\ todo' = photo \ phash
    /\ UNCHANGED <<incoming, rows, tables, rated, clustered>>

FilterCommit ==
    /\ Running("filter")
    /\ phash' = phash \cup (todo \ BadThumb)
    /\ Exit("filter", "done")
    /\ UNCHANGED <<incoming, photo, embedded, aesthetic, technical, faces, tables,
                   rated, clustered>>

-----------------------------------------------------------------------------
(* score: three models in turn, each over the photos that miss its result  *)
(* when its turn comes; CLIP, aesthetic and faces commit chunk by chunk.   *)

Chunk(n) == {S \in SUBSET todo : Cardinality(S) = IF Cardinality(todo) < n
                                                  THEN Cardinality(todo) ELSE n}
\* Mutants: every photo is looked at again; only photos with an aesthetic score.
MissingFacesAll == photo
UnratedScored == {p \in aesthetic : technical[p] = None}

MissingFaces == {p \in photo : faces[p] = 0}
Unrated == {p \in photo : technical[p] = None}

ScoreStart ==
    /\ Free /\ photo # {}
    /\ Run("clip") /\ todo' = photo \ embedded
    /\ UNCHANGED <<incoming, rows, tables, rated, clustered>>

ClipChunk ==
    /\ Running("clip") /\ todo # {}
    /\ \E S \in Chunk(ClipBatch) : embedded' = embedded \cup S /\ todo' = todo \ S
    /\ UNCHANGED <<incoming, photo, phash, aesthetic, technical, faces, tables, job, rated, clustered>>

ClipDone ==
    /\ Running("clip") /\ todo = {}
    /\ Run("aesthetic") /\ todo' = photo \ aesthetic
    /\ UNCHANGED <<incoming, rows, tables, rated, clustered>>

AestheticChunk ==
    /\ Running("aesthetic") /\ todo # {}
    /\ \E S \in Chunk(ClipBatch) : aesthetic' = aesthetic \cup S /\ todo' = todo \ S
    /\ UNCHANGED <<incoming, photo, phash, embedded, technical, faces, tables, job, rated, clustered>>

(* ... or the predictor cannot be imported, and its photos are skipped.    *)
AestheticDone ==
    /\ Running("aesthetic") /\ todo \in {{}, photo \ aesthetic}
    /\ Run("iqa") /\ todo' = Unrated
    /\ UNCHANGED <<incoming, rows, tables, rated, clustered>>

(* normalize() over the photos of this run, in units of 1/Unit; their mean *)
(* is counted in halves of it.                                             *)
Normalised(score, p, S) ==
    LET lo == Min({score[q] : q \in S})
        hi == Max({score[q] : q \in S})
    IN  IF hi = lo THEN 0 ELSE (Unit * (score[p] - lo)) \div (hi - lo)

IqaCommit ==
    /\ Running("iqa")
    /\ technical' = [p \in Photos |->
           IF p \in todo THEN Normalised(Musiq, p, todo) + Normalised(Maniqa, p, todo)
                         ELSE technical[p]]
    /\ rated' = [p \in Photos |-> IF p \in todo THEN 1 + Max({rated[q] : q \in Photos})
                                                ELSE rated[p]]
    /\ Run("faces") /\ todo' = MissingFaces
    /\ UNCHANGED <<incoming, photo, phash, embedded, aesthetic, faces, tables, clustered>>

FacesChunk ==
    /\ Running("faces") /\ todo # {}
    /\ \E S \in Chunk(FaceBatch) :
         /\ faces' = [p \in Photos |-> faces[p] + IF p \in S THEN FaceCount[p] ELSE 0]
         /\ todo' = todo \ S
    /\ UNCHANGED <<incoming, photo, phash, embedded, aesthetic, technical, tables, job, rated, clustered>>

ScoreDone ==
    /\ Running("faces") /\ todo = {}
    /\ Exit("score", "done")
    /\ UNCHANGED <<incoming, rows, tables, rated, clustered>>

-----------------------------------------------------------------------------
(* cluster: bursts first, of all photos, whatever was clustered before;    *)
(* then HDBSCAN (external: any labels, None for noise) over the rest.      *)

Stamped == {p \in photo : Stamp[p] >= 0}
Chained(p, q) ==
    /\ Camera[p] = Camera[q]
    /\ \A r \in Stamped :
         (Camera[r] = Camera[p] /\ Stamp[p] <= Stamp[r] /\ Stamp[r] < Stamp[q])
            => \E s \in Stamped : /\ Camera[s] = Camera[p]
                                  /\ Stamp[s] - Stamp[r] \in 1 .. BurstSeconds
BurstOf(p) == {q \in Stamped : Chained(p, q) /\ Chained(q, p)}
BurstGroups == {B \in {BurstOf(p) : p \in Stamped} : Cardinality(B) >= 2}

(* combined_score, in units of 1/(90 * Unit): 0.6 technical + 0.4 aesthetic. *)
(* Photos of the same score come in any order: the sort is stable, but the  *)
(* order in which HDBSCAN's members reach it is not told apart.             *)
Combined(p) ==
    27 * Max({technical[p], 0})
      + IF p \in aesthetic THEN 4 * Unit * (Aesthetic[p] - 1) ELSE 0
\* Mutant of Before: sorted() without reverse.
BeforeWorst(p, q) == Combined(p) < Combined(q)
Before(p, q) == Combined(p) > Combined(q)
Rankings(S) ==
    {r \in [1..Cardinality(S) -> S] :
        IsInjective(r) /\ \A m, n \in DOMAIN r : Before(r[m], r[n]) => m < n}

\* Mutant of ClipGroups: photos clustered already as well.
ClipGroupsAll(label) ==
    {S \in {{p \in embedded : label[p] = l} : l \in Labels} : Cardinality(S) >= 2}

ClipGroups(label) ==
    {S \in {{p \in embedded : label[p] = l /\ clusterId[p] = None
                              /\ p \notin UNION BurstGroups} : l \in Labels} :
        Cardinality(S) >= 2}

\* Mutant of Listed: a clustering replaces the rows of the one before.
ListedAfresh(new) == new
Listed(new) == clusters \o new

CreateClusters(groups) ==
    \E new \in [DOMAIN groups -> UNION {Rankings(groups[i]) : i \in DOMAIN groups}] :
        /\ \A i \in DOMAIN groups : new[i] \in Rankings(groups[i])
        /\ clusters' = Listed(new)
        /\ clusterId' = [p \in Photos |->
               LET own == {i \in DOMAIN new : p \in ToSet(new[i])}
               IN  IF own = {} THEN clusterId[p] ELSE Len(clusters') - Len(new) + Max(own)]
        /\ recommended' = recommended \cup {new[i][1] : i \in DOMAIN new}

ClusterRun ==
    /\ Free /\ photo # {} /\ clustered.runs < MaxClusterings
    /\ \E label \in [embedded -> {None} \cup Labels] :
         CreateClusters(SetToSeq(BurstGroups) \o SetToSeq(ClipGroups(label)))
    /\ Exit("cluster", "done")
    /\ clustered' = [runs |-> clustered.runs + 1, of |-> <<photo, embedded>>]
    /\ UNCHANGED <<incoming, rows, rated>>

Dies ==
    /\ ~Free
    /\ Exit("none", "failed")
    /\ UNCHANGED <<incoming, rows, tables, rated, clustered>>

Next ==
    \/ \E f \in Files : Drop(f)
    \/ IngestStart \/ IngestCommit \/ FilterStart \/ FilterCommit
    \/ ScoreStart \/ ClipChunk \/ ClipDone \/ AestheticChunk \/ AestheticDone
    \/ IqaCommit \/ FacesChunk \/ ScoreDone
    \/ ClusterRun \/ Dies

Spec == Init /\ [][Next]_vars

-----------------------------------------------------------------------------
(* What the server shows of it: the review grid and the stage counts.      *)

Grid == Append([i \in DOMAIN clusters |-> ToSet(clusters[i])],
               {p \in photo : clusterId[p] = None})

Progress(s) ==
    CASE s = "ingest"  -> <<Cardinality(photo), Cardinality(incoming)>>
      [] s = "filter"  -> <<Cardinality(phash), Cardinality(photo)>>
      [] s = "score"   -> <<Cardinality({p \in aesthetic : technical[p] # None}), Cardinality(photo)>>
      [] s = "cluster" -> <<IF clusters = <<>> THEN 0 ELSE 1, 1>>
Full(s) == Progress(s)[1] = Progress(s)[2]

-----------------------------------------------------------------------------
(* Types: rows only for photos, results only for rows.                     *)
TypeOK ==
    /\ incoming \subseteq Files /\ photo \subseteq {Hash[f] : f \in incoming}
    /\ phash \subseteq photo /\ embedded \subseteq photo /\ aesthetic \subseteq photo
    /\ technical \in [Photos -> None .. 2 * Unit] /\ faces \in [Photos -> Nat]
    /\ clusterId \in [Photos -> DOMAIN clusters \cup {None}]
    /\ \A i \in DOMAIN clusters : clusters[i] \in Seq(photo) /\ Len(clusters[i]) >= 2
    /\ recommended \subseteq photo
    /\ todo \subseteq Files \cup Photos

(* However often the score stage dies between chunks and is run again, a   *)
(* face is stored once: the API counts these rows as the faces of a photo. *)
FacesOnce == \A p \in Photos : faces[p] \in {0, FaceCount[p]}

(* Neither the exit status, on which alone the leg goes on, nor the score  *)
(* bar, which counts two columns only (progress.py:76), claims too much: a *)
(* stage that ended well left none of its photos undone, and behind a full *)
(* bar every photo has what clustering needs.                              *)
DoneMeansDone ==
    /\ job.outcome = "done" =>
        /\ job.stage = "filter" => photo \ BadThumb \subseteq phash
        /\ job.stage = "score" =>
             /\ \A p \in photo : p \in embedded /\ technical[p] # None
             /\ \A p \in photo : faces[p] = FaceCount[p]
    /\ Full("score") => \A p \in photo : p \in embedded /\ technical[p] # None

(* The grid loses no photo: whatever is clustered, and clustered again     *)
(* after more photos came, each is in a listed cluster or unclustered.     *)
EveryPhotoListed == photo \subseteq UNION Range(Grid)

(* The first clustering puts a photo in at most one cluster and marks one  *)
(* photo of each cluster, the first in rank (USER_GUIDE.md:202).           *)
OneRecommendedEach ==
    clustered.runs = 1 =>
        \A i, j \in DOMAIN clusters :
            /\ i # j => ToSet(clusters[i]) \cap ToSet(clusters[j]) = {}
            /\ ToSet(clusters[i]) \cap recommended = {clusters[i][1]}

(* An ingest that ends well left a row for every readable file it walked,  *)
(* one that does not changes nothing: no part of a batch is committed.     *)
IngestWholeOrNothing ==
    [][photo' # photo =>
         \A f \in todo : f \in Unreadable \/ Hash[f] \in photo']_vars

(* Scores are normalised over the photos of one score run, so they compare *)
(* only within it: of two photos rated together, the one every measure     *)
(* prefers is ranked first in a cluster they are put in.                   *)
Better(p, q) ==
    /\ Musiq[p] > Musiq[q] /\ Maniqa[p] >= Maniqa[q]
    /\ p \in aesthetic /\ (q \in aesthetic => Aesthetic[p] >= Aesthetic[q])
RankFollowsMeasures ==
    [][\A i \in DOMAIN clusters' \ DOMAIN clusters :
         \A m, n \in DOMAIN clusters'[i] :
            LET p == clusters'[i][m]
                q == clusters'[i][n]
            IN  rated[p] = rated[q] /\ rated[p] > 0 /\ Better(p, q) => m < n]_vars
=============================================================================
