--------------------------- MODULE SessionProofs ---------------------------
(***************************************************************************)
(* Proofs about Session, for any number of requests, stages and idle       *)
(* connections, wherever resets fail and servers die.                      *)
(***************************************************************************)
EXTENDS Session, SequenceTheorems, TLAPS

Steps == {"none", "unlink", "empty", "migrate", "dispose"}
Hows == {"reset", "failed", "cli"}
Typed ==
    /\ path \in Nat /\ files \in Nat /\ path <= files
    /\ migrated \subseteq 1..files
    /\ session \in Nat /\ cached \subseteq Nat
    /\ \A t \in rows : t[1] \in migrated
    /\ pool \in Nat /\ idle \in Seq(Nat)
    /\ req \in [Request -> [at : {"none", "open"}, conn : Nat, pool : Nat, since : Hows \cup {"before"}]]
    /\ wipe \in [by : {"nobody", "server", "cli"}, at : Steps]
    /\ At("none") <=> wipe = NoWipe
    /\ last \in Hows
    /\ stage \in [Stage -> [at : {"none", "running", "written"}, conn : Nat, of : Nat,
                            by : {"nobody", "server", "shell"}]]
    /\ outlived \subseteq Nat

(* Until the next wipe unlinks the database, every connection the pool has *)
(* or will get back is one to the file at the path.                        *)
Good == last = "reset" /\ wipe.at \in {"none", "unlink"}
PoolInv ==
    /\ \A r \in Request : req[r].at = "open" => req[r].pool <= pool
    /\ Good =>
        /\ path \in migrated
        /\ \A i \in 1..Len(idle) : idle[i] = path
        /\ \A r \in Request : req[r].at = "open" /\ req[r].pool = pool => req[r].conn = path

(* From the unlinking to the migration there is no schema at the path, and *)
(* nothing is in the tiers when it comes but files of stages the wipe did  *)
(* not stop.                                                               *)
WipeInv ==
    /\ wipe.at \in {"empty", "migrate"} => path \notin migrated
    /\ wipe.at = "migrate" => cached \subseteq outlived
    /\ wipe.at = "dispose" => path \in migrated

(* A stage has a database with a schema; the one at the path only if it is *)
(* of this session.  Without a schema there are only stages that outlived  *)
(* the wipe.                                                               *)
StageInv ==
    /\ wipe.by = "server" => OfServer = {}
    /\ \A p \in Running :
          /\ stage[p].conn \in migrated
          /\ stage[p].of \in {session} \cup outlived
          /\ path \notin migrated => stage[p].of \in outlived
          /\ stage[p].conn = path =>
                stage[p].of = session /\ (stage[p].at = "written" => session \in cached)

SessionInv == Typed /\ PoolInv /\ ServedBySession /\ WipeInv /\ StageInv /\ SessionIsWhole

LEMMA SessionInit == Init => SessionInv
  BY DEF Init, SessionInv, Typed, PoolInv, ServedBySession, WipeInv, StageInv, SessionIsWhole,
         Good, At, NoWipe, NoRequest, NoStage, Running, OfServer, None, Open, Steps, Hows

(* The path names the same file after somebody connected, or an empty one. *)
LEMMA Connecting ==
    ASSUME SessionInv, Connects
    PROVE  /\ path' = Created /\ path' \in Nat /\ files' \in Nat /\ path' <= files'
           /\ path \in migrated => path' = path
           /\ path \notin migrated => path' \notin migrated
           /\ migrated \subseteq 1..files' /\ Created \in 1..files'
  <1>1. /\ path \in Nat /\ files \in Nat /\ path <= files /\ migrated \subseteq 1..files
    BY DEF SessionInv, Typed
  <1>2. CASE path = 0
    BY <1>1, <1>2 DEF Connects, Created, None
  <1>3. CASE path # 0
    BY <1>1, <1>3 DEF Connects, Created, None
  <1>4. QED
    BY <1>2, <1>3

LEMMA BeginStep ==
    ASSUME SessionInv, NEW r \in Request, Begin(r)
    PROVE  SessionInv'
  <1> USE DEF SessionInv
  <1> DEFINE conn == IF idle = <<>> THEN Created ELSE Head(idle)
             since == IF wipe = NoWipe THEN last ELSE "before"
  <1>1. /\ req' = [req EXCEPT ![r] = [at |-> "open", conn |-> conn, pool |-> pool, since |-> since]]
        /\ UNCHANGED <<migrated, rows, session, cached, pool, stageVars, wipe, last>>
    BY DEF Begin
  <1>2. /\ path' \in Nat /\ files' \in Nat /\ path' <= files' /\ migrated \subseteq 1..files'
        /\ path \in migrated => path' = path
        /\ path \notin migrated => path' \notin migrated
    <2>1. CASE idle = <<>>
      BY <2>1, Connecting DEF Begin
    <2>2. CASE idle # <<>>
      BY <2>2 DEF Begin, Typed
    <2>3. QED
      BY <2>1, <2>2
  <1>3. /\ idle' \in Seq(Nat) /\ conn \in Nat
        /\ Good => conn = path /\ \A i \in 1..Len(idle') : idle'[i] = path
    <2>1. CASE idle = <<>>
      <3>1. idle' = idle /\ conn = Created /\ conn \in Nat
        BY <2>1, Connecting DEF Begin
      <3>2. Good => path = Created
        BY DEF Good, PoolInv, Typed, Created, None
      <3>3. QED
        BY <2>1, <3>1, <3>2 DEF Typed
    <2>2. CASE idle # <<>>
      <3>1. idle' = Tail(idle) /\ conn = Head(idle) /\ idle \in Seq(Nat)
        BY <2>2 DEF Begin, Typed
      <3>2. /\ Tail(idle) \in Seq(Nat) /\ Head(idle) \in Nat /\ Head(idle) = idle[1]
            /\ Len(idle) \in Nat /\ Len(idle) >= 1 /\ Len(Tail(idle)) = Len(idle) - 1
            /\ \A i \in 1..Len(Tail(idle)) : Tail(idle)[i] = idle[i + 1]
        BY <2>2, <3>1, HeadTailProperties
      <3>3. ASSUME Good PROVE \A i \in 1..Len(idle) : idle[i] = path
        BY <3>3 DEF PoolInv
      <3>4. QED
        BY <3>1, <3>2, <3>3
    <2>3. QED
      BY <2>1, <2>2
  <1>4. since \in Hows \cup {"before"} /\ (since = "reset" => Good)
    BY DEF Typed, Good, NoWipe, Hows
  <1> HIDE DEF conn, since
  <1>5. Typed'
    BY <1>1, <1>2, <1>3, <1>4 DEF Typed, stageVars, At, NoWipe
  <1>6. PoolInv'
    BY <1>1, <1>2, <1>3 DEF Typed, PoolInv, Good
  <1>7. ServedBySession'
    BY <1>1, <1>2, <1>3, <1>4 DEF Typed, ServedBySession, Open, PoolInv, Good
  <1>8. WipeInv' /\ StageInv' /\ SessionIsWhole'
    BY <1>1, <1>2 DEF WipeInv, StageInv, stageVars, Running, OfServer, SessionIsWhole
  <1>9. QED
    BY <1>5, <1>6, <1>7, <1>8

LEMMA AnswerStep ==
    ASSUME SessionInv, NEW r \in Request, Answer(r)
    PROVE  SessionInv'
  <1> USE DEF SessionInv
  <1>1. /\ req' = [req EXCEPT ![r] = NoRequest] /\ req[r].at = "open" /\ idle' = GivenBack(r)
        /\ UNCHANGED <<dbVars, session, cached, pool, stageVars, wipe, last>>
    BY DEF Answer
  <1>2. /\ idle' \in Seq(Nat)
        /\ Good => \A i \in 1..Len(idle') : idle'[i] = path
    <2>1. CASE req[r].pool = pool /\ Len(idle) < PoolSize
      <3>1. idle' = Append(idle, req[r].conn) /\ idle \in Seq(Nat) /\ req[r].conn \in Nat
        BY <1>1, <2>1 DEF GivenBack, Typed
      <3>2. /\ idle' \in Seq(Nat) /\ Len(idle') = Len(idle) + 1 /\ Len(idle) \in Nat
            /\ \A i \in 1..Len(idle) : idle'[i] = idle[i]
            /\ idle'[Len(idle) + 1] = req[r].conn
        BY <3>1, AppendProperties, LenProperties
      <3>3. ASSUME Good PROVE req[r].conn = path /\ \A i \in 1..Len(idle) : idle[i] = path
        BY <1>1, <2>1, <3>3 DEF PoolInv
      <3>4. QED
        BY <3>2, <3>3
    <2>2. CASE ~ (req[r].pool = pool /\ Len(idle) < PoolSize)
      BY <1>1, <2>2 DEF GivenBack, Typed, PoolInv
    <2>3. QED
      BY <2>1, <2>2
  <1>3. Typed'
    BY <1>1, <1>2 DEF Typed, dbVars, stageVars, NoRequest, None, At, NoWipe
  <1>4. \A q \in Request : req'[q].at = "open" => q # r /\ req'[q] = req[q]
    BY <1>1 DEF Typed, NoRequest
  <1>5. PoolInv'
    BY <1>1, <1>2, <1>4 DEF PoolInv, Good, dbVars
  <1>6. ServedBySession'
    BY <1>1, <1>4 DEF ServedBySession, Open, dbVars
  <1>7. WipeInv' /\ StageInv' /\ SessionIsWhole'
    BY <1>1 DEF WipeInv, StageInv, stageVars, Running, OfServer, SessionIsWhole, dbVars
  <1>8. QED
    BY <1>3, <1>5, <1>6, <1>7

LEMMA StageConnectsStep ==
    ASSUME SessionInv, NEW p \in Stage, NEW by \in {"server", "shell"}, StageConnects(p, by)
    PROVE  SessionInv'
  <1> USE DEF SessionInv
  <1>1. /\ UNCHANGED <<migrated, rows, session, cached, poolVars, req, outlived, wipe, last>>
        /\ Connects /\ stage[p].at = "none" /\ (by = "server" => wipe.by # "server")
    BY DEF StageConnects
  <1>2. /\ path' = Created /\ path' \in Nat /\ files' \in Nat /\ path' <= files'
        /\ path \in migrated => path' = path
        /\ path \notin migrated => path' \notin migrated
        /\ migrated \subseteq 1..files'
    BY <1>1, Connecting
  <1>3. \/ /\ path \in migrated
           /\ stage' = [stage EXCEPT ![p] =
                            [at |-> "running", conn |-> path, of |-> session, by |-> by]]
        \/ UNCHANGED stage
    BY <1>2 DEF StageConnects
  <1>4. Typed'
    <2>1. stage' \in [Stage -> [at : {"none", "running", "written"}, conn : Nat, of : Nat,
                              by : {"nobody", "server", "shell"}]]
      <3>1. path \in Nat /\ session \in Nat /\ by \in {"nobody", "server", "shell"}
        BY DEF Typed
      <3>2. [at |-> "running", conn |-> path, of |-> session, by |-> by]
              \in [at : {"none", "running", "written"}, conn : Nat, of : Nat,
                   by : {"nobody", "server", "shell"}]
        BY <3>1
      <3>3. QED
        BY <1>3, <3>2, Zenon DEF Typed
    <2>2. QED
      BY <1>1, <1>2, <2>1 DEF Typed, poolVars, At, NoWipe
  <1>5. PoolInv' /\ ServedBySession'
    BY <1>1, <1>2 DEF PoolInv, Good, poolVars, ServedBySession, Open
  <1>6. WipeInv' /\ SessionIsWhole'
    BY <1>1, <1>2 DEF WipeInv, SessionIsWhole
  <1>7. StageInv'
    <2>1. \A q \in Stage : \/ q = p /\ path \in migrated /\ stage'[q] =
                                 [at |-> "running", conn |-> path, of |-> session, by |-> by]
                          \/ stage'[q] = stage[q]
      BY <1>3 DEF Typed
    <2>2. wipe'.by = "server" => OfServer' = {}
      BY <1>1, <2>1 DEF StageInv, OfServer, Running
    <2>3. ASSUME NEW q \in Running'
          PROVE  /\ stage'[q].conn \in migrated
                 /\ stage'[q].of \in {session} \cup outlived
                 /\ path' \notin migrated => stage'[q].of \in outlived
                 /\ stage'[q].conn = path' =>
                       /\ stage'[q].of = session
                       /\ stage'[q].at = "written" => session \in cached
      BY <1>2, <2>1, <2>3 DEF StageInv, Running
    <2>4. QED
      BY <1>1, <2>2, <2>3 DEF StageInv
  <1>8. QED
    BY <1>4, <1>5, <1>6, <1>7

LEMMA StageWritesStep ==
    ASSUME SessionInv, NEW p \in Stage, StageWrites(p)
    PROVE  SessionInv'
  <1> USE DEF SessionInv
  <1>1. /\ p \in Running /\ cached' = cached \cup {stage[p].of}
        /\ stage' = [stage EXCEPT ![p].at = "written"]
        /\ UNCHANGED <<dbVars, session, poolVars, req, outlived, wipe, last>>
    BY DEF StageWrites, Running
  <1>2. \A q \in Stage : /\ stage'[q].conn = stage[q].conn /\ stage'[q].of = stage[q].of
                         /\ stage'[q].by = stage[q].by
                         /\ q # p => stage'[q] = stage[q]
    BY <1>1 DEF Typed
  <1>3. Running' = Running /\ OfServer' = OfServer
    BY <1>1, <1>2 DEF Typed, Running, OfServer
  <1>4. Typed'
    BY <1>1 DEF Typed, Running, dbVars, poolVars, At, NoWipe
  <1>5. PoolInv' /\ ServedBySession'
    BY <1>1 DEF PoolInv, Good, dbVars, poolVars, ServedBySession, Open
  <1>6. /\ stage[p].of \in {session} \cup outlived
        /\ path \notin migrated => stage[p].of \in outlived
    BY <1>1 DEF StageInv
  <1>7. WipeInv' /\ SessionIsWhole'
    BY <1>1, <1>6 DEF WipeInv, SessionIsWhole, dbVars
  <1>8. StageInv'
    BY <1>1, <1>2, <1>3 DEF StageInv, Running, dbVars
  <1>9. QED
    BY <1>4, <1>5, <1>7, <1>8

LEMMA StageCommitsStep ==
    ASSUME SessionInv, NEW p \in Stage, StageCommits(p)
    PROVE  SessionInv'
  <1> USE DEF SessionInv
  <1>1. /\ p \in Running /\ stage[p].at = "written"
        /\ rows' = rows \cup {<<stage[p].conn, stage[p].of>>}
        /\ UNCHANGED <<path, files, migrated, session, cached, poolVars, req, stageVars, wipe, last>>
    BY DEF StageCommits, Running
  <1>2. Typed'
    <2>1. \A t \in rows' : t[1] \in migrated
      BY <1>1 DEF Typed, StageInv
    <2>2. QED
      BY <1>1, <2>1 DEF Typed, stageVars, poolVars, At, NoWipe
  <1>3. PoolInv' /\ ServedBySession'
    BY <1>1 DEF PoolInv, Good, poolVars, ServedBySession, Open
  <1>4. WipeInv' /\ StageInv'
    BY <1>1 DEF WipeInv, StageInv, stageVars, Running, OfServer
  <1>5. SessionIsWhole'
    <2>1. stage[p].conn = path => stage[p].of = session /\ session \in cached
      BY <1>1 DEF StageInv
    <2>2. ASSUME NEW n \in 1..session, <<path, n>> \in rows', path \in migrated
          PROVE  n = session /\ n \in cached
      <3>1. CASE <<path, n>> \in rows
        BY <2>2, <3>1 DEF SessionIsWhole
      <3>2. CASE path = stage[p].conn /\ n = stage[p].of
        BY <2>1, <3>2
      <3>3. QED
        BY <1>1, <2>2, <3>1, <3>2
    <2>3. QED
      BY <1>1, <2>2 DEF SessionIsWhole, stageVars
  <1>6. QED
    BY <1>2, <1>3, <1>4, <1>5

LEMMA StageEndsStep ==
    ASSUME SessionInv, NEW p \in Stage, StageEnds(p)
    PROVE  SessionInv'
  <1> USE DEF SessionInv
  <1>1. /\ stage' = [stage EXCEPT ![p] = NoStage]
        /\ UNCHANGED <<dbVars, session, cached, poolVars, req, outlived, wipe, last>>
    BY DEF StageEnds
  <1>2. \A q \in Running' : q \in Running /\ stage'[q] = stage[q]
    BY <1>1 DEF Typed, Running, NoStage
  <1>3. Typed'
    BY <1>1 DEF Typed, NoStage, None, dbVars, poolVars, At, NoWipe
  <1>4. PoolInv' /\ ServedBySession' /\ WipeInv' /\ SessionIsWhole'
    BY <1>1 DEF PoolInv, Good, dbVars, poolVars, ServedBySession, Open, WipeInv, SessionIsWhole
  <1>5. StageInv'
    BY <1>1, <1>2 DEF StageInv, OfServer, dbVars
  <1>6. QED
    BY <1>3, <1>4, <1>5

LEMMA UnlinkStep ==
    ASSUME SessionInv, Unlink
    PROVE  SessionInv'
  <1> USE DEF SessionInv
  <1>1. /\ path' = 0 /\ session' = session + 1 /\ wipe' = [wipe EXCEPT !.at = "empty"]
        /\ req' = [r \in Request |-> [req[r] EXCEPT !.since = "before"]]
        /\ wipe.at = "unlink"
        /\ outlived' = {stage[p].of : p \in Running \ (IF wipe.by = "server" THEN OfServer
                                                                              ELSE {})}
        /\ UNCHANGED <<files, migrated, rows, cached, poolVars, stage, last>>
    BY DEF Unlink, Goto, At, None
  <1>2. wipe'.at = "empty" /\ wipe' # NoWipe
    BY <1>1 DEF Typed, NoWipe
  <1>3. path' \notin migrated'
    BY <1>1 DEF Typed
  <1>4. Typed'
    <2>1. req' \in [Request -> [at : {"none", "open"}, conn : Nat, pool : Nat,
                               since : Hows \cup {"before"}]]
      BY <1>1 DEF Typed
    <2>2. path' \in Nat /\ path' <= files /\ session' \in Nat
      BY <1>1 DEF Typed
    <2>3. wipe' \in [by : {"nobody", "server", "cli"}, at : Steps]
      BY <1>1 DEF Typed, Steps
    <2>4. At("none")' <=> (wipe = NoWipe)'
      BY <1>2 DEF At, NoWipe
    <2>5. outlived' \subseteq Nat
      BY <1>1 DEF Typed, Running
    <2>6. QED
      BY <1>1, <2>1, <2>2, <2>3, <2>4, <2>5 DEF Typed, poolVars
  <1>5. \A r \in Request : /\ req'[r].at = req[r].at /\ req'[r].pool = req[r].pool
                           /\ req'[r].since = "before"
    BY <1>1 DEF Typed
  <1>6. PoolInv'
    BY <1>1, <1>2, <1>5 DEF PoolInv, Good, poolVars
  <1>7. ServedBySession'
    BY <1>5 DEF ServedBySession, Open
  <1>8. StageInv'
    <2>1. wipe.by = "server" => OfServer = {}
      BY DEF StageInv
    <2>2. outlived' = {stage[p].of : p \in Running}
      BY <1>1, <2>1
    <2>3. Running' = Running /\ OfServer' = OfServer /\ wipe'.by = wipe.by
      BY <1>1 DEF Running, OfServer, Typed
    <2>4. \A p \in Running : stage[p].conn \in migrated
      BY DEF StageInv
    <2>5. QED
      BY <1>1, <1>3, <2>1, <2>2, <2>3, <2>4 DEF StageInv
  <1>9. QED
    BY <1>2, <1>3, <1>4, <1>6, <1>7, <1>8 DEF WipeInv, SessionIsWhole

LEMMA MigrateStep ==
    ASSUME SessionInv, Migrate
    PROVE  SessionInv'
  <1> USE DEF SessionInv
  <1>1. /\ Connects /\ migrated' = migrated \cup {Created} /\ wipe.at = "migrate"
        /\ wipe' = [wipe EXCEPT !.at = "dispose"]
        /\ UNCHANGED <<rows, session, cached, poolVars, req, stageVars, last>>
    BY DEF Migrate, Goto, At
  <1>2. /\ path' = Created /\ path' \in Nat /\ files' \in Nat /\ path' <= files'
        /\ path' \notin migrated
        /\ migrated \subseteq 1..files' /\ Created \in 1..files'
    BY <1>1, Connecting DEF WipeInv
  <1>3. wipe'.at = "dispose" /\ wipe' # NoWipe
    BY <1>1 DEF Typed, NoWipe
  <1>4. Typed'
    <2>1. \A t \in rows' : t[1] \in migrated'
      BY <1>1 DEF Typed
    <2>2. QED
      BY <1>1, <1>2, <1>3, <2>1 DEF Typed, poolVars, stageVars, At, Steps
  <1>5. PoolInv'
    BY <1>1, <1>3 DEF PoolInv, Good, poolVars
  <1>6. ServedBySession'
    BY <1>1, <1>2 DEF ServedBySession, Open, WipeInv
  <1>7. WipeInv'
    BY <1>1, <1>2, <1>3 DEF WipeInv
  <1>8. SessionIsWhole'
    <2>1. cached' \subseteq outlived'
      BY <1>1 DEF WipeInv, stageVars
    <2>2. \A n \in Nat : <<path', n>> \notin rows'
      BY <1>1, <1>2 DEF Typed
    <2>3. QED
      BY <1>1, <2>1, <2>2 DEF SessionIsWhole, Typed
  <1>9. StageInv'
    <2>1. \A p \in Running : stage[p].conn # path' /\ stage[p].of \in outlived
      BY <1>1, <1>2 DEF StageInv, WipeInv
    <2>2. Running' = Running /\ OfServer' = OfServer /\ wipe'.by = wipe.by
      BY <1>1 DEF Running, OfServer, stageVars, Typed
    <2>3. QED
      BY <1>1, <2>1, <2>2 DEF StageInv, stageVars
  <1>10. QED
    BY <1>4, <1>5, <1>6, <1>7, <1>8, <1>9

LEMMA FailStep ==
    ASSUME SessionInv, WipeFails
    PROVE  SessionInv'
  <1> USE DEF SessionInv
  <1>1. /\ wipe' = NoWipe /\ last' = "failed" /\ wipe.at \in {"unlink", "empty", "migrate"}
        /\ UNCHANGED <<session, poolVars, req, stageVars>>
    BY DEF WipeFails
  <1>2. CASE At("unlink") /\ UNCHANGED <<dbVars, cached>>
    <2>1. Typed' /\ PoolInv'
      BY <1>1, <1>2 DEF Typed, PoolInv, Good, dbVars, poolVars, stageVars, At, NoWipe, Steps, Hows
    <2>2. QED
      BY <1>1, <1>2, <2>1 DEF ServedBySession, Open, WipeInv, StageInv, Running, OfServer,
                              SessionIsWhole, dbVars, stageVars, NoWipe
  <1>3. CASE At("empty") /\ cached' \in {cached, {}} /\ UNCHANGED dbVars
    <2>1. Typed' /\ PoolInv'
      BY <1>1, <1>3 DEF Typed, PoolInv, Good, dbVars, poolVars, stageVars, At, NoWipe, Steps, Hows
    <2>2. path' \notin migrated'
      BY <1>3 DEF WipeInv, At, dbVars
    <2>3. StageInv'
      BY <1>1, <1>3, <2>2 DEF StageInv, Running, OfServer, dbVars, stageVars, NoWipe
    <2>4. QED
      BY <1>1, <1>3, <2>1, <2>2, <2>3 DEF ServedBySession, Open, WipeInv, SessionIsWhole, dbVars,
                                          NoWipe
  <1>4. CASE /\ At("migrate") /\ Connects
             /\ migrated' \in {migrated, migrated \cup {Created}}
             /\ UNCHANGED <<rows, cached>>
    <2>1. /\ path' = Created /\ path' \in Nat /\ files' \in Nat /\ path' <= files'
          /\ path \notin migrated /\ path' \notin migrated /\ cached \subseteq outlived
          /\ migrated' \subseteq 1..files'
      BY <1>4, Connecting DEF WipeInv, At
    <2>2. Typed'
      <3>1. \A t \in rows' : t[1] \in migrated'
        BY <1>4 DEF Typed
      <3>2. QED
        BY <1>1, <1>4, <2>1, <3>1 DEF Typed, poolVars, stageVars, At, NoWipe, Steps, Hows
    <2>3. PoolInv'
      BY <1>1 DEF PoolInv, Good, poolVars
    <2>4. ServedBySession'
      BY <1>1, <2>1 DEF ServedBySession, Open
    <2>5. WipeInv'
      BY <1>1 DEF WipeInv, NoWipe
    <2>6. SessionIsWhole'
      <3>1. \A n \in Nat : <<path', n>> \notin rows'
        BY <1>4, <2>1 DEF Typed
      <3>2. QED
        BY <1>1, <1>4, <2>1, <3>1 DEF SessionIsWhole, Typed, stageVars
    <2>7. StageInv'
      <3>1. \A p \in Running : /\ stage[p].conn \in migrated' /\ stage[p].conn # path'
                              /\ stage[p].of \in outlived
        BY <1>4, <2>1 DEF StageInv
      <3>2. Running' = Running /\ wipe'.by # "server"
        BY <1>1 DEF Running, stageVars, NoWipe
      <3>3. QED
        BY <1>1, <3>1, <3>2 DEF StageInv, stageVars
    <2>8. QED
      BY <2>2, <2>3, <2>4, <2>5, <2>6, <2>7
  <1>5. QED
    BY <1>2, <1>3, <1>4 DEF WipeFails

LEMMA SessionStep ==
    ASSUME SessionInv, [Next]_vars
    PROVE  SessionInv'
  <1> USE DEF SessionInv
  <1>1. ASSUME NEW by \in Wipers, ResetBegin(by) PROVE SessionInv'
    <2>1. /\ wipe = NoWipe /\ wipe' = [by |-> by, at |-> "unlink"]
          /\ by \in {"server", "cli"} /\ (by = "server" => OfServer = {})
          /\ UNCHANGED <<dbVars, session, cached, poolVars, req, stageVars, last>>
      BY <1>1, SessionAssumption DEF ResetBegin
    <2>2. Typed'
      BY <2>1 DEF Typed, dbVars, poolVars, stageVars, At, NoWipe, Steps
    <2>3. PoolInv'
      BY <2>1 DEF PoolInv, Good, dbVars, poolVars, NoWipe
    <2>4. QED
      BY <2>1, <2>2, <2>3 DEF ServedBySession, Open, WipeInv, SessionIsWhole, StageInv,
                                     Running, OfServer, stageVars, dbVars, Typed
  <1>2. CASE EmptyTiers
    <2>1. /\ wipe.at = "empty" /\ wipe' = [wipe EXCEPT !.at = "migrate"] /\ cached' = {}
          /\ UNCHANGED <<dbVars, session, poolVars, req, stageVars, last>>
      BY <1>2 DEF EmptyTiers, At, Goto
    <2>2. wipe'.at = "migrate" /\ wipe' # NoWipe
      BY <2>1 DEF Typed, NoWipe
    <2>3. Typed'
      BY <2>1, <2>2 DEF Typed, dbVars, poolVars, stageVars, At, Steps
    <2>4. PoolInv'
      BY <2>1, <2>2 DEF PoolInv, Good, dbVars, poolVars
    <2>5. QED
      BY <2>1, <2>2, <2>3, <2>4 DEF ServedBySession, Open, WipeInv, SessionIsWhole, StageInv,
                                     Running, OfServer, stageVars, dbVars, Typed
  <1>3. CASE Dispose
    <2>1. /\ wipe.at = "dispose" /\ pool' = pool + 1 /\ idle' = <<>>
          /\ wipe' = NoWipe /\ last' = "reset"
          /\ UNCHANGED <<dbVars, session, cached, req, stageVars>>
      BY <1>3 DEF Dispose, At
    <2>2. Typed'
      BY <2>1 DEF Typed, dbVars, stageVars, At, NoWipe, Steps, Hows
    <2>3. PoolInv'
      BY <2>1 DEF PoolInv, WipeInv, Typed, dbVars
    <2>4. QED
      BY <2>1, <2>2, <2>3 DEF ServedBySession, Open, WipeInv, SessionIsWhole, StageInv,
                                     Running, OfServer, stageVars, dbVars, NoWipe
  <1>4. CASE CliDone
    <2>1. /\ wipe' = NoWipe /\ last' = "cli"
          /\ UNCHANGED <<dbVars, session, cached, poolVars, req, stageVars>>
      BY <1>4 DEF CliDone
    <2>2. Typed'
      BY <2>1 DEF Typed, dbVars, poolVars, stageVars, At, NoWipe, Steps, Hows
    <2>3. PoolInv'
      BY <2>1 DEF PoolInv, Good, dbVars, poolVars
    <2>4. QED
      BY <2>1, <2>2, <2>3 DEF ServedBySession, Open, WipeInv, SessionIsWhole, StageInv,
                                     Running, OfServer, stageVars, dbVars, NoWipe
  <1>5. CASE Restart
    <2>1. /\ pool' = pool + 1 /\ idle' = <<>> /\ req' = [r \in Request |-> NoRequest]
          /\ (wipe' = NoWipe /\ last' = "failed") \/ UNCHANGED <<wipe, last>>
          /\ stage' = [p \in Stage |-> IF p \in OfServer THEN [stage[p] EXCEPT !.by = "shell"]
                                                        ELSE stage[p]]
          /\ UNCHANGED <<dbVars, session, cached, outlived>>
      BY <1>5 DEF Restart
    <2>2. Typed'
      <3>1. stage' \in [Stage -> [at : {"none", "running", "written"}, conn : Nat, of : Nat,
                                by : {"nobody", "server", "shell"}]]
        BY <2>1 DEF Typed
      <3>2. QED
        BY <2>1, <3>1 DEF Typed, dbVars, At, NoWipe, NoRequest, None, Steps, Hows
    <2>3. \A r \in Request : req'[r].at = "none"
      BY <2>1 DEF NoRequest
    <2>4. PoolInv'
      BY <2>1, <2>3 DEF PoolInv, Good, dbVars
    <2>5. \A p \in Stage : /\ stage'[p].at = stage[p].at /\ stage'[p].conn = stage[p].conn
                           /\ stage'[p].of = stage[p].of
                           /\ stage'[p].at # "none" => stage'[p].by # "server"
      <3>1. ASSUME NEW p \in Stage
            PROVE  /\ stage'[p].at = stage[p].at /\ stage'[p].conn = stage[p].conn
                   /\ stage'[p].of = stage[p].of
                   /\ stage'[p].at # "none" => stage'[p].by # "server"
        <4>1. CASE p \in OfServer
          BY <2>1, <4>1 DEF Typed
        <4>2. CASE p \notin OfServer
          BY <2>1, <4>2 DEF OfServer, Running
        <4>3. QED
          BY <4>1, <4>2
      <3>2. QED
        BY <3>1
    <2>6. StageInv'
      BY <2>1, <2>5 DEF StageInv, Running, OfServer, dbVars
    <2>7. QED
      BY <2>1, <2>2, <2>3, <2>4, <2>6 DEF ServedBySession, Open, WipeInv, SessionIsWhole, dbVars,
                                          NoWipe
  <1>6. CASE UNCHANGED vars
    BY <1>6 DEF vars, dbVars, poolVars, stageVars, Typed, PoolInv, ServedBySession, Open, WipeInv,
                StageInv, Running, OfServer, SessionIsWhole, Good, At
  <1>7. QED
    BY <1>1, <1>2, <1>3, <1>4, <1>5, <1>6, BeginStep, AnswerStep, StageConnectsStep,
       StageWritesStep, StageCommitsStep, StageEndsStep, UnlinkStep, MigrateStep, FailStep DEF Next

(* Until the next wipe every connection of the engine's pool, idle or in   *)
(* use, is one to the database at the path (reset.py:66).  At the          *)
(* migration the tiers hold only what stages wrote that the wipe did not   *)
(* wait for, and no such stage has the database at the path.               *)
THEOREM ResetCorrect == Spec => []SessionInv
  BY SessionInit, SessionStep, PTL DEF Spec

(* After a reset that went well, every request that begins is served by    *)
(* the database the path names (reset.py:69).                              *)
THEOREM RequestsAreFresh == Spec => []ServedBySession
  <1>1. SessionInv => ServedBySession
    BY DEF SessionInv
  <1>2. QED
    BY <1>1, ResetCorrect, PTL

(* Wherever a wipe fails and whichever stages go on through it, with a     *)
(* schema the rows are of this session and have their files, and the files *)
(* in cache/ are of this session or of stages that outlived the last wipe  *)
(* (reset.py:50-62).                                                       *)
THEOREM SessionsDoNotMix == Spec => []SessionIsWhole
  <1>1. SessionInv => SessionIsWhole
    BY DEF SessionInv
  <1>2. QED
    BY <1>1, ResetCorrect, PTL
=============================================================================
