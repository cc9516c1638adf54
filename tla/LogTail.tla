------------------------------- MODULE LogTail -------------------------------
(***************************************************************************)
(* How the output of a stage reaches the browser: the bounded tail that    *)
(* JobRunner keeps of the current run (runner.py), the /logs route, which  *)
(* reads it in a worker thread (api/routes/pipeline.py), the poll loop of  *)
(* the page (static/js/app.js), and the saved log files that are shown for *)
(* the other stages.                                                       *)
(*                                                                         *)
(* run_seq starts at 0 with every start of the server, so the module names *)
(* a run by a number of its own.  A line is its run and its number in it.  *)
(***************************************************************************)
EXTENDS Naturals, SequencesExt

CONSTANTS
    Stage,
    TailMax,      \* LOG_TAIL_MAX_LINES
    KeepLines,    \* LOG_KEEP_LINES of the page
    Radix,        \* run numbers in file names are written in base Radix (10), and
    Padded,       \* padded to the digits of the numbers below Padded (1000)
    MaxRuns,      \* bound on the number of runs, with at most one digit more
    MaxLines,     \* bound on the number of lines of a run
    MaxRestarts   \* bound on the number of restarts of the server

ASSUME LogTailAssumption ==
    /\ Stage # {}
    /\ TailMax \in Nat \ {0} /\ KeepLines \in Nat \ {0}
    /\ Radix \in Nat \ {0, 1} /\ Padded \in Nat \ {0}
    /\ MaxRuns \in Nat /\ MaxLines \in Nat /\ MaxRestarts \in Nat
    /\ MaxRuns < Radix * Padded

VARIABLES
    runs, stageOf, restarts,                    \* every run there ever was
    runSeq, current, running, dropped, tailLen, \* JobRunner
    opened, logFile,                            \* log files: of which run
    \* the page: the run_seq, the next offset and the lines it shows
    uiSeq, uiNext, uiLines,
    \* the poll under way: where it is, whether it saw the run it shows, the
    \* offset it asks for and the chunk it gets
    pollPc, sameRun, after, chunk,
    \* history: the server has not stepped inside a request, nor restarted
    whole

runnerVars == <<runSeq, current, running, dropped, tailLen>>
fileVars == <<opened, logFile>>
uiVars == <<uiSeq, uiNext, uiLines>>
pollVars == <<pollPc, sameRun, after, chunk>>
vars == <<runs, stageOf, restarts, runnerVars, fileVars, uiVars, pollVars, whole>>

None == 0
Run == 1..MaxRuns
Line == Run \X (1..MaxLines)
EmptyChunk == [seq |-> 0, next |-> 0, lines |-> <<>>]

TypeOK ==
    /\ runs \in 0..MaxRuns /\ restarts \in 0..MaxRestarts
    /\ stageOf \in [Run -> Stage \union {"none"}]
    /\ runSeq \in 0..MaxRuns
    /\ current \in Run \union {None}
    /\ running \in BOOLEAN
    /\ dropped \in 0..MaxLines
    /\ tailLen \in 0..TailMax
    /\ opened \in BOOLEAN
    /\ logFile \in [Stage -> [Run -> Run \union {None}]]
    /\ uiSeq \in 0..MaxRuns
    /\ uiNext \in 0..MaxLines
    /\ uiLines \in Seq(Line) /\ Len(uiLines) <= KeepLines
    /\ pollPc \in {"idle", "ask", "count", "seq", "apply"}
    /\ sameRun \in BOOLEAN /\ whole \in BOOLEAN
    /\ after \in 0..MaxLines
    /\ chunk \in [seq : 0..MaxRuns, next : 0..MaxLines, lines : Seq(Line)]

Init ==
    /\ runs = 0 /\ restarts = 0
    /\ stageOf = [r \in Run |-> "none"]
    /\ runSeq = 0 /\ current = None /\ running = FALSE /\ dropped = 0 /\ tailLen = 0
    /\ opened = FALSE
    /\ logFile = [s \in Stage |-> [r \in Run |-> None]]
    /\ uiSeq = 0 /\ uiNext = 0 /\ uiLines = <<>>
    /\ pollPc = "idle" /\ sameRun = FALSE /\ after = 0 /\ chunk = EmptyChunk
    /\ whole = TRUE

(***************************************************************************)
(* JobRunner                                                               *)
(***************************************************************************)

(* start(): a new run, an empty tail.                                      *)
Start(s) ==
    /\ ~running
    /\ runs < MaxRuns
    /\ runs' = runs + 1
    /\ stageOf' = [stageOf EXCEPT ![runs + 1] = s]
    /\ runSeq' = runSeq + 1
    /\ current' = runs + 1
    /\ running' = TRUE
    /\ dropped' = 0 /\ tailLen' = 0
    /\ opened' = FALSE
    /\ UNCHANGED <<whole, restarts, logFile, uiVars, pollVars>>

(* The pump opens <stage>-<run_seq>.log, appending to one that is there.   *)
OpenLog ==
    /\ running /\ ~opened
    /\ opened' = TRUE
    /\ logFile' = [logFile EXCEPT ![stageOf[current]][runSeq] = current]
    /\ UNCHANGED <<whole, runs, stageOf, restarts, runnerVars, uiVars, pollVars>>

(* _append_tail, as long as the run is current.                            *)
AppendLine ==
    /\ current # None /\ opened
    /\ dropped + tailLen < MaxLines
    /\ IF tailLen = TailMax
       THEN dropped' = dropped + 1 /\ UNCHANGED tailLen
       ELSE tailLen' = tailLen + 1 /\ UNCHANGED dropped
    /\ UNCHANGED <<whole, runs, stageOf, restarts, runSeq, current, running, fileVars, uiVars,
                   pollVars>>

(* _finish: the lines of a drained pump may still come after it.           *)
Finish ==
    /\ running
    /\ running' = FALSE
    /\ UNCHANGED <<whole, runs, stageOf, restarts, runSeq, current, dropped, tailLen, fileVars,
                   uiVars, pollVars>>

(* clear_history() of a session reset, asked for in another window.        *)
ClearHistory ==
    /\ ~running /\ current # None
    /\ current' = None
    /\ dropped' = 0 /\ tailLen' = 0
    /\ UNCHANGED <<whole, runs, stageOf, restarts, runSeq, running, fileVars, uiVars, pollVars>>

(* The server ends and starts again: a request under way fails, the page   *)
(* and the log files stay as they are.                                     *)
Restart ==
    /\ restarts < MaxRestarts
    /\ restarts' = restarts + 1
    /\ runSeq' = 0 /\ current' = None /\ running' = FALSE /\ dropped' = 0 /\ tailLen' = 0
    /\ opened' = FALSE
    /\ pollPc' = "idle" /\ sameRun' = FALSE /\ after' = 0 /\ chunk' = EmptyChunk
    /\ whole' = FALSE
    /\ UNCHANGED <<runs, stageOf, logFile, uiVars>>

(***************************************************************************)
(* A poll of the page, one request at a time                               *)
(***************************************************************************)

(* list(self._tail)[max(after - self._dropped, 0):]                        *)
TailFrom(offset) ==
    LET start == IF offset > dropped THEN offset - dropped ELSE 0
    IN [i \in 1..(IF start < tailLen THEN tailLen - start ELSE 0) |->
            <<current, dropped + start + i>>]

(* Mutant of PollStatus: the log is asked for while a stage runs only.     *)
PollWhileRunning ==
    /\ pollPc = "idle"
    /\ runSeq > 0
    /\ running
    /\ sameRun' = (runSeq = uiSeq)
    /\ after' = IF runSeq = uiSeq THEN uiNext ELSE 0
    /\ pollPc' = "ask"
    /\ UNCHANGED <<whole, runs, stageOf, restarts, runnerVars, fileVars, uiVars, chunk>>

(* /status: without a run there is no log to ask for.                      *)
PollStatus ==
    /\ pollPc = "idle"
    /\ runSeq > 0
    /\ sameRun' = (runSeq = uiSeq)
    /\ after' = IF runSeq = uiSeq THEN uiNext ELSE 0
    /\ pollPc' = "ask"
    /\ UNCHANGED <<whole, runs, stageOf, restarts, runnerVars, fileVars, uiVars, chunk>>

(* /logs, when nothing happens between its reads of the runner             *)
GetLogs ==
    /\ pollPc = "ask"
    /\ chunk' = [seq |-> runSeq, next |-> dropped + tailLen, lines |-> TailFrom(after)]
    /\ pollPc' = "apply"
    /\ UNCHANGED <<whole, runs, stageOf, restarts, runnerVars, fileVars, uiVars, sameRun, after>>

(* /logs, read by read: the lines, the next offset, run_seq                *)
ReadLines ==
    /\ pollPc = "ask"
    /\ chunk' = [chunk EXCEPT !.lines = TailFrom(after)]
    /\ pollPc' = "count"
    /\ whole' = FALSE
    /\ UNCHANGED <<runs, stageOf, restarts, runnerVars, fileVars, uiVars, sameRun, after>>

ReadNext ==
    /\ pollPc = "count"
    /\ chunk' = [chunk EXCEPT !.next = dropped + tailLen]
    /\ pollPc' = "seq"
    /\ UNCHANGED <<whole, runs, stageOf, restarts, runnerVars, fileVars, uiVars, sameRun, after>>

ReadSeq ==
    /\ pollPc = "seq"
    /\ chunk' = [chunk EXCEPT !.seq = runSeq]
    /\ pollPc' = "apply"
    /\ UNCHANGED <<whole, runs, stageOf, restarts, runnerVars, fileVars, uiVars, sameRun, after>>

(* A new run has started since /status: ask again, from its first line.    *)
AskAgain ==
    /\ pollPc = "apply"
    /\ sameRun /\ chunk.seq # uiSeq
    /\ sameRun' = FALSE
    /\ after' = 0
    /\ pollPc' = "ask"
    /\ UNCHANGED <<whole, runs, stageOf, restarts, runnerVars, fileVars, uiVars, chunk>>

LastLines(lines) ==
    SubSeq(lines, IF Len(lines) > KeepLines THEN Len(lines) - KeepLines + 1 ELSE 1,
           Len(lines))

(* Mutant of Apply: a chunk of a newer run is not asked for again.         *)
ApplyAnyRun ==
    /\ pollPc = "apply"
    /\ uiSeq' = chunk.seq
    /\ uiNext' = chunk.next
    /\ uiLines' = LastLines((IF chunk.seq = uiSeq THEN uiLines ELSE <<>>) \o chunk.lines)
    /\ pollPc' = "idle" /\ sameRun' = FALSE /\ after' = 0 /\ chunk' = EmptyChunk
    /\ UNCHANGED <<whole, runs, stageOf, restarts, runnerVars, fileVars>>

(* logRef.current = {...}                                                  *)
Apply ==
    /\ pollPc = "apply"
    /\ ~(sameRun /\ chunk.seq # uiSeq)
    /\ uiSeq' = chunk.seq
    /\ uiNext' = chunk.next
    /\ uiLines' = LastLines((IF chunk.seq = uiSeq THEN uiLines ELSE <<>>) \o chunk.lines)
    /\ pollPc' = "idle" /\ sameRun' = FALSE /\ after' = 0 /\ chunk' = EmptyChunk
    /\ UNCHANGED <<whole, runs, stageOf, restarts, runnerVars, fileVars>>

Poll == PollStatus \/ GetLogs \/ ReadLines \/ ReadNext \/ ReadSeq \/ AskAgain \/ Apply

Next ==
    \/ \E s \in Stage : Start(s)
    \/ OpenLog
    \/ AppendLine
    \/ Finish
    \/ ClearHistory
    \/ Restart
    \/ Poll

Spec == Init /\ [][Next]_vars

(* The page polls every POLL_IDLE_MS or more often; requests are answered. *)
FairSpec == Spec /\ WF_vars(Poll)

(***************************************************************************)
(* Saved logs                                                              *)
(***************************************************************************)

(* '<stage>-{run_seq:03d}.log' by name: numbers with as many digits sort as *)
(* numbers, and a longer one by its leading digits among the shorter ones. *)
SortsUpTo(p, q) ==
    \/ (p < Padded <=> q < Padded) /\ p <= q
    \/ p < Padded /\ q >= Padded /\ p <= q \div Radix
    \/ p >= Padded /\ q < Padded /\ p \div Radix < q

(* Mutant of SavedLog: the file whose name sorts first                     *)
SavedLogFirst(s) ==
    LET files == {q \in Run : logFile[s][q] # None}
    IN IF files = {} THEN None
       ELSE logFile[s][CHOOSE q \in files : \A f \in files : SortsUpTo(q, f)]

(* saved_log(stage): the file whose name sorts last                        *)
SavedLog(s) ==
    LET files == {q \in Run : logFile[s][q] # None}
    IN IF files = {} THEN None
       ELSE logFile[s][CHOOSE q \in files : \A f \in files : SortsUpTo(f, q)]

(***************************************************************************)
(* Properties                                                              *)
(***************************************************************************)

(* The page shows the lines of the run whose run_seq it shows, in order,   *)
(* each once, and misses none up to the offset it asks for next, but those *)
(* that the tail had dropped and those it does not keep itself.  (After a  *)
(* reset the run is forgotten, and so is what was shown of it.)            *)
LogIsComplete ==
    whole /\ uiSeq = runSeq /\ current # None =>
        /\ \A i \in DOMAIN uiLines : uiLines[i][1] = current
        /\ \A i \in 2..Len(uiLines) : uiLines[i - 1][2] < uiLines[i][2]
        /\ \A n \in 1..uiNext :
            \/ <<current, n>> \in ToSet(uiLines)
            \/ n <= dropped
            \/ n + KeepLines <= uiNext

(* "The most recent saved log file's lines for stage" (runner.py:111): of  *)
(* the runs of the stage that wrote a log file, the last, as long as the   *)
(* server has not restarted, which numbers its runs anew, and the numbers  *)
(* fit into the padding, beyond which names do not sort as numbers.        *)
SavedLogIsLatest ==
    restarts = 0 /\ runSeq < Padded => \A s \in Stage, r \in Run :
        (\E q \in Run : logFile[s][q] = r) => SavedLog(s) >= r

(* Every line of a run reaches the page, or is known to it to be past,     *)
(* unless the run is superseded or forgotten first.                        *)
LineArrives ==
    \A r \in Run, n \in 1..MaxLines :
        current = r /\ dropped + tailLen >= n
            ~> current # r \/ (uiSeq = runSeq /\ uiNext >= n)

=============================================================================
