# A formal model of raw-curator

raw-curator curates one batch of photos at a time: RAW files and JPEGs are dropped
into `photos/incoming/`, and the stages *ingest, filter, score, cluster* and *enhance*
prepare a review. The curator decides, photo by photo or in bulk, and the *export*
stage writes share JPEGs and archives or deletes the originals. A web server (FastAPI,
one event loop, synchronous routes in worker threads) starts the stages as
subprocesses and shows their output; the state is one SQLite database in WAL mode and
the files around it.

This directory holds TLA+ modules that model the parts of the program where order,
concurrency, failure or arithmetic at a boundary matter, the TLC configurations that
check them, and proofs that TLAPS checks. `PROJECT.json` lists components, runs,
mutants, findings, hazards and theorems, and maps every definition to the lines it
models. Line numbers below are those of the modelled commit; `runner.py:213` is
`src/app/orchestrator/runner.py`.

    tlc -workers 2 -config Orchestrator.cfg MCOrchestrator
    tlapm OrchestratorProofs.tla

## 1. Inventory

| Component | State | Operations | Interacts with |
| --- | --- | --- | --- |
| Job runner (`orchestrator/runner.py`) | the slot `_current`, `_history`, `_proc`, `_reader`, `_run_seq`, `_cancelling` | `start`, `wait`, `cancel`, `_pump`, `_finish`, `clear_history` | stage processes (signals, pipe, exit), routes |
| Auto-run (`autorun.py`) | `_task`, `_leg` | `start`, `cancel`, `_run` | job runner |
| Pipeline routes (`api/routes/pipeline.py`) | `_resetting` | `/run`, `/auto`, `/cancel`, `/reset`, `/status`, `/logs` | runner, auto-run, reset |
| Session reset (`reset.py`, `db.py`) | database file, `cache/`, the engine's pool | `end_session`, `reset_session`, `/reset`, `raw-curator reset` | requests under way, stages, connections |
| Log tail (`runner.py`, `static/js/app.js`) | `_tail`, `_dropped`, log files; the page's `logRef` | `_append_tail`, `log_lines`, `saved_log`, `refresh` | pump, poll loop |
| Ingest (`ingest/`) | table `photos`, previews, thumbs | `run_ingest` with a process pool | all later stages |
| Filter, score, cluster | columns of `photos`, `photo_embeddings`, `faces`, `clusters` | `run_filters`, `run_scoring`, `run_clustering` | enhance (faces), review, decisions (recommendations) |
| Enhance (`enhancement/batch.py`, `enhance_job.py`) | table `quality_reports`, `cache/enhanced/`, `cache/enhance/*.npy` | `run_batch` in three phases | review, export |
| Planning engine (`enhancement/engine/`) | none (functions) | `plan_from_report`, `score_report`, `apply_plan` | enhance |
| Tiling, geometry, AI steps | none (functions) | `tiled_apply`, `scale_boxes`, `parse_target`, `restore` | enhance |
| Decisions (`routes/decide.py`, `decision/`) | table `decisions` | `/decide`, `/decide/all`, `/decide/cluster` | review, export |
| Export (`export/`) | `decisions.applied`, `photos.source_path`, originals, `photos/jpeg/` | `run_export` | decisions, renders of enhance |
| Review page (`static/js/review.js`) | grid, viewer, detail, sort, filter | keys, navigation, mutations | decision and read routes |
| Stage progress (`progress.py`), read-only routes | none (counts) | `stage_progress`, `/queue`, `/photo`, ... | rows and files |
| Monitor, command line, configuration, scripts, migrations | settings, samples | – | – |

What is hard, and what makes each component correct:

* **Job runner, auto-run, routes.** Coroutines interleave at every `await`; processes
  exit and timers expire at any time; a pump may outlive its run. Correct means: one
  stage process at a time, outcomes that are honest and final, a status that shows the
  latest run, a stop that stops, a reset that excludes jobs, a leg that goes on only
  after success, a slot that is always freed in the end.
* **Session reset.** The database is unlinked while connections to it are open, in a
  wipe of several steps that may fail or die between any two. Correct means: after it,
  requests are served by the new database, and nothing of two sessions is mixed.
* **Log tail.** A bounded buffer is read by offsets from another thread and merged by a
  page that polls; runs and servers change in between. Correct means: the right run's
  lines, in order, once each, with no unexplained gap, and all of them in the end.
* **Ingest, filter, score, cluster.** Re-runs over what is there already, chunks that
  commit one by one, duplicates. Correct means: a row is written once, "done" means that
  nothing is left, no photo disappears from the grid, ranks follow the measures.
* **Enhance.** Three phases over a batch, with failures per photo and per model and
  kills in between; rows, renders and intermediates are written at different moments
  and survive. Correct means: a render has been through exactly its plan, row and
  render agree, nothing old gets into something new, one photo's failure stays its own.
* **Planning, tiling, geometry, decoding.** Lists of steps that are kept in three
  files, coordinates that are scaled, rounded and clamped twice, orientation that is
  stored in a tag. Correct means: the plan is what is done, faces stay in the frame,
  tiles cover it without seams, a picture is shown the same way everywhere.
* **Decisions and export.** Files change at once, rows at the commit; requests read
  before and write after; the process can die. Correct means: no picture is lost,
  `applied` tells the truth, exported rows are locked, a re-run finishes what is left.
* **Review page.** Copies of the server's state are replaced by answers that arrive in
  any order, and the viewer walks a list of its own. Correct means: once everything has
  been answered the page shows what the server has, and no photo is passed by.

Every hazard, at its line and with the properties that would catch it, is listed in
`PROJECT.json` under `hazards`.

## 2. Modules

| Module | Models | Uses |
| --- | --- | --- |
| `JobSlot` | what the orchestrator promises: one slot, numbered runs, final outcomes | |
| `Orchestrator` | runner, auto-run and routes, coroutine step by coroutine step | implements `JobSlot` |
| `Session` | the wipe, the engine's pool, requests, stage processes, restarts | |
| `LogTail` | log tail, `/logs`, poll loop, saved logs | |
| `Catalog` | ingest, filter, score and cluster on their rows | |
| `Enhance` | `run_batch` over a batch: rows and files in three phases | |
| `Geometry` | windows, fades, contexts, boxes, targets, caps in integers | |
| `Planner` | measures, scores, the plan and who runs which step | `Geometry` |
| `Decode` | which decoder takes a file and what comes out of it | |
| `Frame` | one photo from its file to its share JPEG | `Planner`, `Decode` |
| `Export` | decision requests, `run_export`, the files | |
| `Review` | the review page against the review routes | |

`MCOrchestrator`, `MCSession`, `MCCatalog`, `MCFrame`, `MCExport` and `MCReview` give the constants
their values for TLC. `OrchestratorProofs`, `SessionProofs`, `LogTailProofs`,
`CatalogProofs`, `EnhanceProofs`, `FrameProofs` (which proves about `Geometry`,
`Planner` and `Decode`, too), `ExportProofs` and `ReviewProofs` hold the theorems.
`Orchestrator` shows that no stage runs beside another or during a reset; that is why
there is one stage process in `Catalog` and one batch in `Enhance`.

### Orchestrator

All handlers are coroutines of one event loop, so an action is the code that runs
between two awaits. A run is named by its `run_seq`; that number also names its
`JobRecord`, process and reader task.

| Action | Code |
| --- | --- |
| `RunStage`, `RunAuto`, `LegBegin`, `LegAdvance` | `/run`, `/auto`, `AutoRun._run` |
| `StartRun` (in the above), `SpawnOk`, `SpawnFail`, `SpawnCancelled` | `JobRunner.start` before and after `create_subprocess_exec` |
| `ProcExit` | the process exits, which also wakes every `cancel()` that waits for it |
| `PumpBegin`, `PumpEnd`, `PumpCrash`, `PumpCrashed` | `_pump`: what it captures, and how it ends |
| `Cancel`, `GraceTimeout`, `Drained`, `DrainTimeout`, `Replied` | `/cancel`: `AutoRun.cancel`, then `JobRunner.cancel` await by await |
| `ResetBegin`, `ResetDone`, `ResetFailed` | `/reset` around the wipe, `clear_history` |

Decisions taken in the model:

* `_finish` is the operator `Finish`; its guard (current record, still running) is what
  makes late pumps harmless, and every caller goes through it.
* A coroutine that has become ready runs before a later timer or request. So a task
  that is cancelled while it awaits `wait()` is gone in the step of the cancel, and the
  reaping of a process wakes its waiters in the same step.
* The pump may end long after its process: a grandchild may hold the pipe open. It
  cannot end before, since it awaits `proc.wait()`.
* SIGTERM may be ignored; SIGKILL may take any time.
* `Canceller` is the set of `/cancel` requests that can be under way at once.

`JobSlot` is the abstract specification. Its jobs are the runs started so far with stage
and status (`Jobs` in `Orchestrator`, the refinement mapping); every step of the
orchestrator is one of its steps or a stutter.

### Session

A database file is an inode, a number; `path` is the one named `session.db`. `Begin` and
`Answer` are a request that takes the longest idle connection of the pool, or a new one,
and gives it back (pools are numbered: a connection of a pool that was disposed of is
closed instead). `ResetBegin`, `Unlink`, `EmptyTiers`, `Migrate`, `Dispose` and, for the
command line, `CliDone` are the steps of the wipe; `WipeFails` raises from any of them,
`Restart` kills the server, with its wipe, between any two. `since` remembers how the
last reset before a request had ended. The three unlinks (`session.db`, `-wal`, `-shm`)
are one step.

A stage is a process with a pool of its own: `StageConnects` is its first query, whose
connection it keeps, `StageWrites` and `StageCommits` write files and then rows, as often as
it likes, and `StageEnds` is its end, which may come at any time. The server's own stage
(`by = "server"`) and the server's reset exclude one another (`ResetBegin`); stages started by
hand, and those whose server has died (`Restart`), are seen by no reset, and the reset of the
command line looks at none. `outlived` is the history variable of the sessions whose stages
the last wipe did not wait for.

### LogTail

The page, the route and the runner, with runs numbered by the model because `run_seq`
starts again with the server. `GetLogs` answers `/logs` at one instant;
`ReadLines`, `ReadNext`, `ReadSeq` read the runner piece by piece, as the worker thread
does. A step of the event loop is not torn by the thread: it changes the runner in one
step. One poll is under way at a time (`inflight`, app.js:79). `SavedLog` is the file whose
name sorts last: `SortsUpTo` orders the names `<stage>-{run_seq:03d}.log` with 10 as `Radix`
and 1000 as `Padded`. The history variable
`whole` says that the server has not stepped inside a request and has not restarted.

### Catalog

One stage process at a time, `todo` its work list. `IngestStart`/`IngestCommit`,
`FilterStart`/`FilterCommit`, `ClipChunk`, `AestheticChunk`, `IqaCommit`, `FacesChunk` and
`ClusterRun` end with a commit of the code; `Dies` is a process that ends between two
of them. Two byte-identical files are one photo: both are merged into a session without
autoflush, so that the commit fails as a whole (`Twins`). Technical scores are normalised
over the photos of the run that had none, in units of 1/`Unit`, of which
`UnitAssumption` says that nothing has to be rounded (60 on the instance). HDBSCAN may
answer any partition. `Grid` and `Progress` are what `/queue` and `/status` make of the rows.

### Enhance

`phase` is where `run_batch` is. `Baseline`, `PlanPhoto`, `SaveIntermediate` are
`_phase1`; `ModelLoads`, `ModelLoadFails`, `ApplyModel`, `ModelFails`, `ModelUnloads`,
`ModelUnneeded` are `_phase2`; `Verify`, `WriteAfter`, `Discard` are `_phase3` and its
caller; `Phase1Fails` and `Phase3Fails` are exceptions at any point where they leave
something different behind; `BatchDies` is a kill. Between batches, photos may be
ingested (`Ingested`; `present` are those of the session), originals exported
(`Exported`) and the session reset (`Reset`), which leaves the intermediates alone: the
next session may have the same photos, other ones, or some of each.

* A picture is what was done to it: batch, plan, AI steps in order, number of
  downscalings, and whether it is degraded and how it scores. So a property can ask
  whether a render has been through its plan, and whether row and render are about the
  same picture.
* A plan is any set of AI models; which one the engine chooses is left open here (it is
  in `Planner`), and so is what `verify` finds, except that a score below the limit is
  always degraded.
* The review-size and the full-size JPEG are one render, `Partial` when one of them is
  missing, truncated or older than the other. An intermediate that was cut off while it
  was saved is `Partial` too.
* `PhotoDone` removes the intermediate or fails to (an `OSError` is suppressed); `kept`
  remembers the photos of the second kind until the batch ends.
* Photos are taken in list order in every phase; AI models are named by their place in
  `AI_ORDER`.

### Geometry, Planner, Decode, Frame

`Geometry` has the window starts and fades of the tiling, the contexts and cores of
SCUNet's tiles, the boxes, targets and caps, all in integers; a fade is a weight of
1..k+1 instead of a fraction. `Planner` computes the report, the scores and the plan from
what the metrics can see of a frame: a five-zone histogram and the values of the image
kernels, in integer units named at its top. `Listed` is the order in which the planner
appends steps and `Models` that of `AI_ORDER`; `PRE_AI`, `AI`, `POST_AI` and
`SAFE_STEPS` are the sets of the code. `Decode` takes a file (extension,
content, orientation, embedded preview, samples, profile) through the decoders of
ingest, thumbnail and export; a picture is whether it is turned and what its values mean.

`Frame` composes them: `Ingest`, `LosePreview`, `Phase1`, `Denoise`, `Upscale`,
`RestoreFaces`, `ModelRaises`, `Finish`, `Retry`, `Export`. Its state is the geometry of
one photo: sizes, face boxes, the steps done, what CodeFormer did to each face.

### Export

An export is one transaction around a loop over photos. `Convert`/`ConvertFail` write
the share JPEG, `Retain`/`RetainFail` move or delete the original, `Commit` writes
`applied` and `source_path` of all photos at once, `ExportDies` loses what was not
committed and keeps what was done to files. A request is two steps: `Load` reads rows
and decides which columns to write (an ORM writes only columns whose value changes),
`Stage` commits them; a row inserted twice makes the second commit fail as a whole.

* A file is the picture a path holds: a photo, `partial`, or none. `partial` also stands
  for a JPEG that a failed conversion has truncated.
* The rows of a bulk request are read at one instant.
* `Dest` (`_dest_for`) is a constant, so that photos with and without distinct paths are
  two instances of the same module.
* `Overlap` says whether requests and exports overlap in time, `MaxDeaths` how many
  exports may die, `Occupied` whose place in `library/` is taken already.
* Stars, favourites and notes are left out; a request that changes only those is one
  that writes neither choice nor flag.

### Review

`net` is the list of requests under way as they were sent: what to load in which
order, what to change, what to do with the answer. `Serve` is the server's handling,
`Arrive` the answer with its follow-up, `Lost` a request that fails. The user acts by
`SetSort`, `SetFilter`, `OpenPhoto`, `CloseViewer`, `Walk`, `NextUndecided`, `Choose`,
`ToggleKeep`, `Bulk` and `KeepOnly`. The history variable `calm` says that no answer has
crossed another, and `judged` lists the photos chosen one after another.

## 3. Runs

| Run | Question | Bounds |
| --- | --- | --- |
| `orchestrator` | safety; a stop frees the slot whatever the stages do; if stages end, legs end and the slot is freed; the records implement `JobSlot` | 2 runs, 2 stages, one leg of both, one `/cancel` at a time |
| `orchestrator_double_stop` (violation) | two overlapping stops | 3 runs, 2 requests |
| `session` | who serves a request after a reset, and what stages that go on through it leave | 2 requests, 2 stage processes, pool of 2, 2 resets by server or command line, 1 death |
| `logtail` | the page's log is complete, of the right run, and arrives | 3 runs of one stage, numbers padded below 3 in base 3, 3 lines, tail and page of 2 lines, 1 restart |
| `catalog` | rows once, done is done, the grid, recommendations, ranks | 4 files, one of them a copy; commits of 2 and of 1 photo; 2 clusterings |
| `enhance` | plans followed, rows and renders agree, the batch ends | 2 photos, ingested in any session or not, 1 model, 2 batches, 1 death, scores 0..1 |
| `frame` | the plan is what is done, faces, seams, orientation, numbers | frames around the tile (6, overlap 2; SCUNet 4 with pad 2), preview of 12; shots of `MCFrame` |
| `export_any` | picture and `applied` under overlap, failure and one death | a RAW and a JPEG photo, 1 request |
| `export_calm` | rows tell the truth, are locked; re-runs finish | no overlap with exports, 1 request, a taken place in `library/`, re-runs under fairness |
| `export_same_name` (violation) | one suffix-blind path for two photos | 1 request |
| `export_killed` (violation) | a death between the files and the commit | 1 request, 1 death |
| `review` | page and server agree, no photo is passed by or met twice | 3 photos in 2 orders, 3 acts, at most 1 request under way when the user acts |

Why the bounds are enough for these questions. *Two runs* suffice for a run whose pump is
late and one that is current; a third is needed only for the process that starts beside
another, and in `logtail` for the number that is longer than the padding of file names. One
stage is enough there, since the files of stages are apart. *Two photos* with two kinds of original exercise every pair of rows, paths and
failures in `export_*`: the code treats photos alike and relates at most two of them. In
`catalog` three photos and a copy make chunks of two sizes, a burst with a photo outside
of it, and ties. In `enhance` two photos show that a failure stays one photo's own, and a
second batch after a kill, in the same session or after a reset and with one photo or two,
meets everything the first left. *One line more than the tail
holds* makes it evict before, between and after polls. In `session` two requests and two
idle connections put an old connection into the pool before, during and after the disposal.
In `frame` edges from below to above one tile, and faces at and beyond each edge, are the
cases the integer formulas distinguish; measures vary two at a time from an ordinary
picture, since every condition of the planner reads at most two. In `review` three acts are
a choice, a move and a change of order in each sequence.

`MaxRuns`, `MaxLines`, `MaxRestarts`, `MaxDeaths`, `MaxBatches`, `MaxClusterings`, `MaxResets`,
`MaxActs` and `MaxNet` only stop the system. `CHECK_DEADLOCK FALSE` is set for `LogTail`,
`Catalog`, `Enhance`, `Frame` and `Review`, which really stop at those bounds or at their
end. The orchestrator, the session and the export go on for ever.

Each property has a mutant (defined beside what it changes, marked *Mutant of*): the
change of the code that the property is there to notice.

### Fairness

* `LoopFairness`: the event loop runs what is ready, timers expire, a process that got
  SIGKILL dies, the wipe ends. asyncio and the kernel give that. No request is fair.
* `StageFairness`: stages exit and close their pipe. It is the hypothesis of `LegEnds` and
  `SlotIsFreed`; `StopFreesSlot` does without it, since `cancel` exists for stages that hang.
* `LogTail`: the page polls (`usePoll`) and requests are answered: weak fairness of `Poll`.
* `RerunSpec` of `Export`: the export is started again as long as something is to export, it and
  the requests end, and no conversion or move fails every time (strong fairness of
  `ExportStart`, `Convert`, `Retain`). That is what "just rerun make export" (USER_GUIDE.md:562)
  takes for granted; it is the hypothesis of `RerunsExport` only.
* `Catalog`, `Enhance`, `Frame`, `Review`, `Session`: none. `BatchEnds` needs none, it
  is a measure of the work left that every step of a batch makes smaller.

## 4. What the checks show

Properties hold as listed, with these exceptions. The first three are runs of their own:

1. **Two overlapping stops** (`orchestrator_double_stop`, runner.py:213). The drain timeout
   of the second request finishes whatever run is current by then. That run's process
   lives on, and another stage, or a reset, can start beside it.
2. **Same name, other suffix** (`export_same_name`, export_job.py:56). `IMG_1.CR3` and
   `IMG_1.JPG` share one share JPEG; both rows become `applied`.
3. **Export killed** (`export_killed`, export_job.py:94). Files have moved, rows have not: a
   photo without developed render can never be exported again.
   Nor can, by re-runs alone, a photo whose original is to be kept and whose place in
   `library/` is taken (executor.py:21): each re-run refuses, until `keep_raw` is taken
   back; `RerunsExport` excepts it.

The others show when a property or a constant of a configuration is changed as said, or
are the reason for a clause of a property or an assumption of a module:

4. **Failed reset** (reset.py:72). When the wipe raises after the database was unlinked,
   `engine.dispose()` is not reached, and requests go on with the unlinked file: add
   `FreshAfterFailure` to `Session.cfg`. After `make reset` beside a running server nobody
   disposes of the server's pool either, though USER_GUIDE.md:450 calls both the same wipe.
5. **Key `e` on the next photo** (review.js:300). The detail of the photo before decides
   whether there is a render: add `EnhancedHasRender` to `Review.cfg`.
6. **Answers that overtake** (ui.js:17). `useQuery` shows whichever answer comes last, also
   when it is the older one; `Settled` speaks of `calm` behaviours only.
7. **Decision across the commit** (decide.py:50). The lock on exported rows is checked on a
   read before the export's commit; the request writes its columns after it. `RowLocked`
   fails in `Export_calm.cfg` with `Overlap = TRUE`, and so does `RetentionAsDecided`.
8. **Torn log read** (runner.py:107). `/logs` runs in a worker thread; a line appended
   between the copy of the tail and the next offset is never shown. That, and the page
   that takes a run after a restart for the old one (app.js:90), is why `LogIsComplete` has
   `whole` as a hypothesis.
9. **Log files after a restart** (runner.py:126). Run numbers start again while the old files
   stay, so that the file that sorts last is an older one. Nor is it true that names sort as
   numbers (runner.py:125): from run 1000 on, `enhance-1000.log` comes before
   `enhance-999.log`. `SavedLogIsLatest` therefore ends with the first restart and at
   `Padded`; without `runSeq < Padded` the run `logtail` violates it.
10. **Stop while spawning** (runner.py:197). A manual run has no `_proc` while
    `create_subprocess_exec` is awaited: `/cancel` answers that it cancelled and stops
    nothing. `StopMeansStopped` excepts this case. (A leg is not affected: its task is
    cancelled.)
11. **Score without render** (batch.py:309). The verdict is committed before the renders are
    written, and the review takes a score as the sign that a render exists
    (review.js:299). `VerdictDescribesRender` therefore speaks of photos with a render only,
    and lets the verdict be of a later batch than the render.
12. **"Whichever scores higher"** (USER_GUIDE.md:262, batch.py:268). The code prefers a result
    that is not degraded, and only then the higher score.
13. **Clustering again** (cluster_job.py:53). A second run creates the burst clusters once
    more beside the first ones, where USER_GUIDE.md:511 calls the pipeline idempotent. What
    holds is that every photo stays listed.
14. **TIFF** (decode.py:182, decode.py:197). The orientation tag of a TIFF is not read, and a
    float TIFF that is no linear master comes out black: `ShownAsShot` excepts TIFF.
15. **Faces without preview** (batch.py:174, face_restore.py:267). When the preview is gone the
    boxes are dropped, so that faces are neither kept from local contrast nor guarded; and
    CodeFormer's cap may round an edge to 0 (face_restore.py:94). A face on which ArcFace
    raises, or all of them when it does not load, keeps the restored crop, however far it has
    drifted (face_restore.py:45, test_face_identity.py:81); `FacesAreSafe` excepts it, and
    says that the others are judged all the same. It speaks of the part of a face that was in
    the preview: what a box has outside of it is cut off in a way that rounding may undo.
16. **Target without AI step** (batch.py:279, README.md:224). An explicit size, or a percentage
    below 100, is honoured only when an AI step ran; the safe retry keeps the native size.
17. **Reset beside a stage** (cli.py:83). `raw-curator reset` looks at no stage, and the
    server's reset only at its own; a stage that goes on through the wipe writes previews and
    renders of the old session into the emptied tiers, where they stay until the next reset.
    `SessionIsWhole` excepts the files of such stages (`outlived`); their rows go into the
    deleted database, as it shows. Two resets at once are not modelled.
18. **Missing weights.** A step whose weights are missing is the identity, while the plan
    lists it. A score without a GPU ends as done (gpu_worker.py:19).
19. **Intermediates of other photos** (batch.py:377, reset.py:54). A batch unlinks those of its
    own photos only, and a reset does not empty `cache/enhance`: what a killed batch left of
    a photo that is in no later batch stays, though the design says that the reset wipes it
    (docs/superpowers/specs/2026-09-27-enhancement-correctness-design.md:82).
    `IntermediatesRemoved` ranges over the photos of the batch (`present`; put `Photo` there to
    see it), and excepts the files whose removal fails, which the code does not report.

## 5. Proofs

TLAPS proves for every value of the constants what TLC shows on the instances above. The
assumptions on constants are the named `ASSUME`s of the modules; TLC evaluates them in
every run.

`OrchestratorProofs`. `TypeOK` is inductive (`TypeCorrect`). Next comes what holds however
many requests overlap: every step starts a run, ends one through `Finish`, forgets all or
leaves the records alone (`RecordSteps`); so `RecordsInv` is inductive, the records
implement `JobSlot` (`ImplementsJobSlot`), the status is the latest run
(`StatusIsLatest`) and outcomes never change (`OutcomesAreFinal`). The exclusion of
processes is not inductive as it stands: a pump that captured another run's record, a
`/cancel` that waits for another run's process, or a leg whose latest run is not current
would break it. `OrchestratorInv` adds exactly those relations (`RunInv`, `SlotInv`,
`CancelInv`, `LegInv`), and is inductive under `OneCanceller`: at most one request is in
progress, the assumption that the run `orchestrator_double_stop` shows to be needed. From
it follow `OneProcessAtATime`, `RunsEndHonestly`, `ResetIsExclusive`, `LegsAdvance` and
`StopIsHonest`.

`SessionProofs`. `ServedBySession` needs to know what an idle connection may be: `PoolInv`
says that after a reset that went well, until the next wipe unlinks the database, every
connection the pool has or will get back is one to the file at the path. `SessionIsWhole`
needs `WipeInv` and `StageInv`: from the unlinking to the migration there is no schema at the
path, so that no stage starts, the tiers then hold only what stages wrote that the wipe did
not wait for, and a stage has the database at the path only if it is of this session. All are
inductive with the types, whatever fails and dies.

`LogTailProofs`. `LogInv` says that the numbers of the page's lines leave room below its next
offset, that they ascend by one except where lines were evicted, and that a chunk under way
extends them; the lemmas on appending (`Extended`) and on cutting to the last lines (`Kept`)
carry it over `Apply`. It holds while `whole`. `FileInv` (files are numbered like the runs that
wrote them) holds until a restart; below `Padded`, where names sort as numbers, the last name
is then that of the latest run.

`CatalogProofs`. `CatalogInv`: rows are of photos and faces are stored once (`RowsInv`); the
work list of a running stage is what the rows miss, and what is not on it has been done, also
by processes that died between two chunks (`WorkInv`); so an empty list is the truth of "done"
(`DoneInv`). Normalised scores are numbers because the minimum and the maximum of a finite
set exist, by well-foundedness of strict subset and not by induction over data.

`TablesInv` says that a photo's `cluster_id` names a cluster that lists it, and, after the
first clustering, that clusters are disjoint and have one recommendation each; a clustering
keeps it, because its groups are disjoint (those of HDBSCAN leave out who is in a burst), finite
(so that they can be put into a sequence) and sorted by score. `EveryPhotoListed` and
`OneRecommendedEach` follow (`NoPhotoIsLost`, `FirstClusteringRecommendsOne`).
`RatedInv` relates the scores of one run to what the networks said (`RanksFollowMeasures`);
it needs `UnitAssumption`, which real division makes true of every finite set of photos.

`EnhanceProofs`. The invariant has one part per hand-over of the batch: shapes of pictures,
the intermediate of a photo as the work done on it (`WorkInv`) and its removal, or the
failure of it, photo by photo (`NpyInv`),
plan and report, verdict, renders. `BatchEnds` is a variant: `PartInv`
bounds what is left in each phase, and every step lowers `WorkLeft`.

`FrameProofs`. First the geometry, for every length, tile and overlap: windows cover an axis
and have the size of a tile, cores partition it and lie in their contexts, reflection is
possible when the edge is longer than the pad, fades are positive, scaled boxes lie in the
frame. Then, in every reachable state:

* scores lie in 0..100 for every report (`ScoresInRange`), amounts in their bands (`NumbersHold`);
* `PlanInv`: what has been done and what is pending is the plan, in its order, and the size is
  what the models done so far make of the native one. From it `FramesFollowPlans`: the
  phases, which cut the plan by sets of their own, run it in the planner's order; and the
  result has the size asked for, since rounding a frame to a percentage of at least 100 never
  makes it smaller;
* `BoxesInv` (`BoxesStay`) and `FacesInv` (`FacesStaySafe`): a face of the preview keeps at least
  a pixel through the rounding to the developed frame and from there to the models' scale,
  so that planner and guard see it;
* `DecodedInv` (`PhotosShownAsShot`): who was taken in can be decoded, and what was made of it
  is upright and in display tones, whatever extension its file has;
* a model step fails only on a frame that is too narrow (`FailuresAreNarrow`), and no tile of
  Real-ESRGAN shows (`SeamsFade`, `NoTileShows`). `SumOfWeights` is a fold over the windows;
  the fold is the only function that satisfies its own equation (by well-foundedness of strict
  subset, `SumOfThree`), so it is the sum of the weights of the two strides at a pixel and of the
  shifted window, all other weights being zero. Strides fade into each other to one whole
  (`SumIs`), hence the sum is never below one window in full and moves in single steps
  (`SumSlope`), and the share of a window cannot jump (`SharesApart`). This needs
  `2 * Overlap <= Tile` in `FrameAssumption`: upscale.py:37 has 768 and 32, and with a wider
  overlap three strides meet at a pixel and seams do appear. The output grid is the case of
  tile, overlap and length doubled.

`ExportProofs`. `ExportInv` says that the JPEG is complete from the end of the conversion
on and that only then is the original touched. It is inductive whatever overlaps, fails
or dies, provided photos have JPEG paths of their own (`DestInjective`, which
the run `export_same_name` shows to be needed); `NoPictureLost`, `KeepersHaveJpegs` and
`KeepersAreRetained` follow. Without deaths `UntouchedInv` is added (`DiscardedUntouched`,
`RerunFindsPictures`); with neither deaths nor overlap (`Calm`) `RowsInv`, which says that
the export retains what the row says now and that no request holds columns of an applied
row (`RetentionIsAsDecided`, `AppliedRowsAreLocked`).

`ReviewProofs`. The requests under way are a sequence from which answers are taken anywhere;
lemmas on `RemoveAt`, on appending and on the photo after another in a list carry
invariants over it. `Behindhand`: no copy of the page, and no answer on its way, has a
decision that the server has not, so that who is skipped as decided is (`NoneIsSkipped`).
`InStep`: in a calm behaviour one choice at most is under way, it is for the open photo, and
the photos judged are those just before it in the viewer's list (`NoneComesTwice`). `Caught`: in a
calm behaviour, for the grid, for the count and for the detail, the last request under way
will bring what the server has now, or the page shows that already, or an answer is to come that
asks again (`Counted`, `Detailed`, and `Kept` for the sort and the photo those requests are for);
with nothing under way this is `Settled` (`AllIsShown`).

Every safety property of a passing run has its theorem. Only model-checked are the liveness
properties `StopFreesSlot`, `LegEnds`, `SlotIsFreed`, `LineArrives` and `RerunsExport`, because fairness and
ENABLED are beyond the prover; what they rest on, a slot that only `Finish` frees and
outcomes that are final, is proved.

## 6. Not modelled

* Image arithmetic, colour, the networks, and which pixels the measures come from: floating
  point over large arrays. What the code decides on them is in `Planner` and `Frame`.
* SQL as such (a query is the set of rows it returns, a transaction is its commit), HTTP,
  HTML and layout; EXIF fields other than camera and time.
* Truncation of long saved logs, the splitting of output into lines.
* Stars, favourites, notes and the clusters view of the review page.
* Progress counts of enhance and export; the monitor, the prompt of the command line,
  configuration, downloads and migrations: no state of their own, or none that another part
  decides on.
* The output folders in the reset, which it only empties; what SQLite does between the
  unlinking of `session.db` and that of `-wal`.
* A move to `library/` across file systems that is cut off halfway (executor.py:28): the copy
  takes the place, so that every re-run refuses, as for a place that was taken (`Occupied`).
* Power failure (a commit that is lost after it returned, a file system that reorders): a
  death is that of a process.

## 7. What could be added

In this order: stars and the clusters view in `Review`; the counts of enhance and export
in `Stage progress`; a `run_seq` that is unique over restarts, with which `LogIsComplete` and
`SavedLogIsLatest` would hold without their exceptions; `Overlap` with two requests on a
larger machine (the theorems of `ExportProofs` have any number of requests, the runs one).
