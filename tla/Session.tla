------------------------------ MODULE Session ------------------------------
(***************************************************************************)
(* The reset of a session (orchestrator/reset.py) against the requests and *)
(* connections of the server (db.py) and against stage processes.  The     *)
(* wipe unlinks session.db while connections to it are open: requests      *)
(* under way, idle connections of the engine's pool and stages go on with  *)
(* the file that no longer has a name.  A file is named by its inode, a    *)
(* number; the next connection, of whatever process, creates a new one.    *)
(* The server's reset waits for the server's own stage (pipeline.py:146),  *)
(* one at a time as Orchestrator shows.  Nothing looks at stages that were *)
(* started by hand or whose server died, and the reset of the command line *)
(* looks at none.  Two resets at once are not modelled, nor is what SQLite *)
(* does between the unlinking of the database and that of its -wal.        *)
(***************************************************************************)
EXTENDS Naturals, Sequences

CONSTANTS
    Request,    \* worker threads that serve requests
    Stage,      \* stage processes that can be under way at once
    PoolSize,   \* idle connections the pool keeps
    Wipers,     \* who resets: "server" (/reset), "cli" (raw-curator reset)
    MaxResets,  \* bound on the resets
    MaxDeaths   \* bound on the deaths of the server

ASSUME SessionAssumption ==
    /\ PoolSize \in Nat \ {0} /\ MaxResets \in Nat /\ MaxDeaths \in Nat
    /\ Wipers \subseteq {"server", "cli"}

VARIABLES
    path,       \* the inode named session.db, or None
    files,      \* inodes created so far are 1..files
    migrated,   \* inodes with the schema
    session,    \* the number of the session, by the wipes begun
    cached,     \* sessions that have files in the tiers of cache/
    rows,       \* <<i, n>>: photos of session n are in inode i
    pool, idle, \* the engine's pool, by its number, and its idle connections
    req,        \* [at, conn, pool, since] of each request
    stage,      \* [at, conn, of, by] of each stage process
    outlived,   \* sessions whose stages the last wipe did not stop
    wipe,       \* [by, at] of the reset under way
    last,       \* how the last reset ended
    deaths

None == 0
dbVars == <<path, files, migrated, rows>>
poolVars == <<pool, idle>>
stageVars == <<stage, outlived>>
vars == <<dbVars, session, cached, poolVars, req, stageVars, wipe, last, deaths>>

NoWipe == [by |-> "nobody", at |-> "none"]
NoStage == [at |-> "none", conn |-> None, of |-> 0, by |-> "nobody"]
NoRequest == [at |-> "none", conn |-> None, pool |-> None, since |-> "before"]

Init ==
    /\ path = 1 /\ files = 1 /\ migrated = {1} /\ rows = {}
    /\ session = 1 /\ cached = {}
    /\ pool = 1 /\ idle = <<>>
    /\ req = [r \in Request |-> NoRequest]
    /\ stage = [p \in Stage |-> NoStage] /\ outlived = {}
    /\ wipe = NoWipe /\ last = "reset" /\ deaths = 0

\* What the path names once somebody has connected to it.
Created == IF path = None THEN files + 1 ELSE path
Connects == path' = Created /\ files' = (IF path = None THEN files + 1 ELSE files)

-----------------------------------------------------------------------------
(* Requests.  A session takes the idle connection that has waited longest, *)
(* or a new one, and gives it back when it is closed.                      *)

Begin(r) ==
    /\ req[r].at = "none"
    /\ req' = [req EXCEPT ![r] =
                   [at |-> "open", conn |-> IF idle = <<>> THEN Created ELSE Head(idle),
                    pool |-> pool, since |-> IF wipe = NoWipe THEN last ELSE "before"]]
    /\ IF idle = <<>> THEN Connects /\ UNCHANGED idle
                      ELSE idle' = Tail(idle) /\ UNCHANGED <<path, files>>
    /\ UNCHANGED <<migrated, rows, session, cached, pool, stageVars, wipe, last, deaths>>

\* A connection belongs to the pool it was taken from, disposed of or not.
GivenBack(r) ==
    IF req[r].pool = pool /\ Len(idle) < PoolSize THEN Append(idle, req[r].conn) ELSE idle

\* It reads, writes and commits in the file it is connected to.
Answer(r) ==
    /\ req[r].at = "open"
    /\ idle' = GivenBack(r)
    /\ req' = [req EXCEPT ![r] = NoRequest]
    /\ UNCHANGED <<dbVars, session, cached, pool, stageVars, wipe, last, deaths>>

-----------------------------------------------------------------------------
(* Stages, each a process of its own session of the operating system       *)
(* (runner.py:169).  Its pool keeps the connection of its first query,     *)
(* which fails without a schema, having created the file.  It writes       *)
(* previews or renders, and then rows, as often as it likes.               *)

Running == {p \in Stage : stage[p].at # "none"}
OfServer == {p \in Running : stage[p].by = "server"}

StageConnects(p, by) ==
    /\ stage[p].at = "none"
    /\ by = "server" => OfServer = {} /\ wipe.by # "server"
    /\ Connects
    /\ IF Created \in migrated
       THEN stage' = [stage EXCEPT ![p] =
                          [at |-> "running", conn |-> Created, of |-> session, by |-> by]]
       ELSE UNCHANGED stage
    /\ UNCHANGED <<migrated, rows, session, cached, poolVars, req, outlived, wipe, last, deaths>>

StageWrites(p) ==
    /\ stage[p].at # "none"
    /\ cached' = cached \cup {stage[p].of}
    /\ stage' = [stage EXCEPT ![p].at = "written"]
    /\ UNCHANGED <<dbVars, session, poolVars, req, outlived, wipe, last, deaths>>

StageCommits(p) ==
    /\ stage[p].at = "written"
    /\ rows' = rows \cup {<<stage[p].conn, stage[p].of>>}
    /\ UNCHANGED <<path, files, migrated, session, cached, poolVars, req, stageVars, wipe, last,
                   deaths>>

\* It is done, is stopped or dies.
StageEnds(p) ==
    /\ stage[p].at # "none"
    /\ stage' = [stage EXCEPT ![p] = NoStage]
    /\ UNCHANGED <<dbVars, session, cached, poolVars, req, outlived, wipe, last, deaths>>

-----------------------------------------------------------------------------
(* The wipe, in a worker thread of the server or in a process of its own.  *)

At(step) == wipe.at = step
Goto(step) == wipe' = [wipe EXCEPT !.at = step]

\* Mutant of ResetBegin: /reset does not look whether a stage runs.
ResetBeginAnyway(by) ==
    /\ wipe = NoWipe /\ session <= MaxResets
    /\ wipe' = [by |-> by, at |-> "unlink"]
    /\ UNCHANGED <<dbVars, session, cached, poolVars, req, stageVars, last, deaths>>
ResetBegin(by) ==
    /\ wipe = NoWipe /\ session <= MaxResets
    /\ by = "server" => OfServer = {}
    /\ wipe' = [by |-> by, at |-> "unlink"]
    /\ UNCHANGED <<dbVars, session, cached, poolVars, req, stageVars, last, deaths>>

Unlink ==
    /\ At("unlink")
    /\ path' = None /\ session' = session + 1
    /\ req' = [r \in Request |-> [req[r] EXCEPT !.since = "before"]]
    /\ outlived' = {stage[p].of : p \in Running \ (IF wipe.by = "server" THEN OfServer ELSE {})}
    /\ Goto("empty")
    /\ UNCHANGED <<files, migrated, rows, cached, poolVars, stage, last, deaths>>

EmptyTiers ==
    /\ At("empty")
    /\ cached' = {}
    /\ Goto("migrate")
    /\ UNCHANGED <<dbVars, session, poolVars, req, stageVars, last, deaths>>

Migrate ==
    /\ At("migrate")
    /\ Connects /\ migrated' = migrated \cup {Created}
    /\ Goto("dispose")
    /\ UNCHANGED <<rows, session, cached, poolVars, req, stageVars, last, deaths>>

\* Mutant of Dispose: only idle connections are closed, the pool stays.
DisposeIdle ==
    /\ At("dispose") /\ wipe.by = "server"
    /\ idle' = <<>> /\ UNCHANGED pool
    /\ wipe' = NoWipe /\ last' = "reset"
    /\ UNCHANGED <<dbVars, session, cached, req, stageVars, deaths>>
Dispose ==
    /\ At("dispose") /\ wipe.by = "server"
    /\ pool' = pool + 1 /\ idle' = <<>>
    /\ wipe' = NoWipe /\ last' = "reset"
    /\ UNCHANGED <<dbVars, session, cached, req, stageVars, deaths>>

CliDone ==
    /\ At("dispose") /\ wipe.by = "cli"
    /\ wipe' = NoWipe /\ last' = "cli"
    /\ UNCHANGED <<dbVars, session, cached, poolVars, req, stageVars, deaths>>

(* A file cannot be removed, after some were; alembic fails, having        *)
(* connected, or is killed when it was done.                               *)
WipeFails ==
    /\ wipe.at \in {"unlink", "empty", "migrate"}
    /\ \/ At("unlink") /\ UNCHANGED <<dbVars, cached>>
       \/ At("empty") /\ cached' \in {cached, {}} /\ UNCHANGED dbVars
       \/ /\ At("migrate") /\ Connects
          /\ migrated' \in {migrated, migrated \cup {Created}}
          /\ UNCHANGED <<rows, cached>>
    /\ wipe' = NoWipe /\ last' = "failed"
    /\ UNCHANGED <<session, poolVars, req, stageVars, deaths>>

(* The server is killed, and with it its requests and its wipe, and comes  *)
(* up again.  Its stage goes on, unknown to the new server.                *)
Restart ==
    /\ deaths < MaxDeaths /\ deaths' = deaths + 1
    /\ pool' = pool + 1 /\ idle' = <<>>
    /\ req' = [r \in Request |-> NoRequest]
    /\ IF wipe.by = "server" THEN wipe' = NoWipe /\ last' = "failed" ELSE UNCHANGED <<wipe, last>>
    /\ stage' = [p \in Stage |-> IF p \in OfServer THEN [stage[p] EXCEPT !.by = "shell"]
                                                 ELSE stage[p]]
    /\ UNCHANGED <<dbVars, session, cached, outlived>>

Next ==
    \/ \E r \in Request : Begin(r) \/ Answer(r)
    \/ \E p \in Stage : \/ \E by \in {"server", "shell"} : StageConnects(p, by)
                        \/ StageWrites(p) \/ StageCommits(p) \/ StageEnds(p)
    \/ \E by \in Wipers : ResetBegin(by)
    \/ Unlink \/ EmptyTiers \/ Migrate \/ Dispose \/ CliDone \/ WipeFails
    \/ Restart

Spec == Init /\ [][Next]_vars

-----------------------------------------------------------------------------
(* Properties.                                                             *)

Open(how) == {r \in Request : req[r].at = "open" /\ req[r].since = how}

(* After a reset that went well, whatever requests were under way while it *)
(* did, every request that begins is served by the database the path names *)
(* and the stages write to, which has its schema.                          *)
ServedBySession == \A r \in Open("reset") : req[r].conn = path /\ path \in migrated

(* Wherever a wipe failed or was killed, and whichever stages went on      *)
(* through it: once there is a schema, the rows are of this session only,  *)
(* and a photo that has rows has had its files written since the tiers     *)
(* were emptied; the files in cache/, which are taken for those of a photo *)
(* by its hash alone, are of this session or of stages the last wipe did   *)
(* not wait for, as it does for the server's own (pipeline.py:146).        *)
SessionIsWhole ==
    path \in migrated =>
        /\ cached \subseteq {session} \cup outlived
        /\ \A n \in 1..session : <<path, n>> \in rows => n = session /\ n \in cached

(* "pooled connections still point at the old inode and would serve stale  *)
(* data, so the engine is disposed afterwards" (reset.py:69): a request    *)
(* that begins after a reset that failed is not served by the old file.    *)
FreshAfterFailure == \A r \in Open("failed") : req[r].conn = path
=============================================================================
