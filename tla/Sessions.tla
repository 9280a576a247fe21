------------------------------ MODULE Sessions ------------------------------
(***************************************************************************)
(* Capture sessions as gt-pipeline and gt-mcp keep them: the pipeline's map*)
(* of tasks and its control rows, gt-mcp's session directories, metadata   *)
(* files and one "current" file per user, and the retention sweep.         *)
(*                                                                         *)
(* Sessions are numbers in the order they start.  A call to the pipeline   *)
(* and every file written after it is a step of its own; CaptureTask has   *)
(* what happens inside a task.  Ports, plugin names and counters are left  *)
(* out; times only matter through `quiet': nothing written for longer than *)
(* the retention TTL.                                                      *)
(***************************************************************************)
EXTENDS Naturals, FiniteSets

CONSTANTS
    SesUsers,
    FirstUsers,    \* bound: who may start the first session (users differ in name only)
    MaxSes,        \* bound: sessions started
    MaxKeep,       \* retentionPolicy.MaxSessions
    MaxMcp,        \* bound: start and stop calls of gt-mcp in progress
    MaxCrashes     \* bound: crashes of gt-pipeline and of gt-mcp

ASSUME SesAssumption == MaxKeep \in Nat \ {0} /\ 0 \notin SesUsers   \* 0 is nobody

VARIABLES
    task,        \* pipeline tasks: s -> none, running, stopping, closed, finalized
    ctl,         \* control rows: s -> [owner, status, project]; status none: no row
    dir,         \* session directory with capture.sqlite is there
    meta,        \* metadata.json: none, running, stopped
    cur,         \* current.<owner>.json: u -> [s, status], s = 0 for none and for {}
    quiet,       \* sessions with nothing written for longer than the TTL
    mcp,         \* calls of gt-mcp in progress: set of [op, u, s, ...]
    sweep,       \* retention: [pc, todo, over]
    svc,         \* [up, crashes]: gt-pipeline serves; crashes left
    ghost        \* [failed, busy]: starts that failed; busy sessions a sweep removed

sesVars == <<task, ctl, dir, meta, cur, quiet, mcp, sweep, svc, ghost>>

Ses == 1..MaxSes
NoRowS == [owner |-> 0, status |-> "none", project |-> FALSE]
SweepIdle == [pc |-> "idle", todo |-> {}]
Running(s) == task[s] \in {"running", "stopping"}   \* captureTask.State

SesInit ==
    /\ task = [s \in Ses |-> "none"]
    /\ ctl = [s \in Ses |-> NoRowS]
    /\ dir = {}
    /\ meta = [s \in Ses |-> "none"]
    /\ cur = [u \in SesUsers |-> [s |-> 0, status |-> "none"]]
    /\ quiet = {}
    /\ mcp = {}
    /\ sweep = SweepIdle
    /\ svc = [up |-> TRUE, crashes |-> MaxCrashes]
    /\ ghost = [used |-> {}, failed |-> {}, busy |-> {}]

pipeSide == <<task, ctl, svc>>
fileSide == <<dir, meta, cur>>
-----------------------------------------------------------------------------
(* The control database's statements on a session's row; an update leaves the *)
(* row's absence, a project it is not told is cleared.                        *)
GetSession(s) == ctl[s].status # "none"
CreateSession(s, u) == [ctl EXCEPT ![s] = [owner |-> u, status |-> "running", project |-> TRUE]]
UpdateSession(s, status) ==
    IF GetSession(s) THEN [ctl EXCEPT ![s].status = status, ![s].project = FALSE] ELSE ctl
DeleteSession(s) == [ctl EXCEPT ![s].status = "none"]

-----------------------------------------------------------------------------
\* gt-pipeline.

\* StartSession, in a project: directory and database, row, task.  When Start fails (a
\* protocol configuration it cannot build) the row stays behind as running.
StartSession(s, u, ok) ==
    /\ dir' = dir \cup {s}
    /\ ctl' = CreateSession(s, u)
    /\ task' = [task EXCEPT ![s] = IF ok THEN "running" ELSE "none"]

\* Task.Stop cancels; a task also ends by itself.
CaptureEnds(s) ==
    /\ task[s] = "running"
    /\ task' = [task EXCEPT ![s] = "stopping"]
    /\ UNCHANGED <<ctl, svc, fileSide, quiet, mcp, sweep, ghost>>

\* The task's last flush is done, its state is closed.
TaskCloses(s) ==
    /\ task[s] = "stopping"
    /\ task' = [task EXCEPT ![s] = "closed"]
    /\ UNCHANGED <<ctl, svc, fileSide, quiet, mcp, sweep, ghost>>

\* finalizeTask: the row is rewritten from what the task knows, and that is
\* not the project; then the task leaves the map.
FinalizeUpdates(s) ==
    /\ task[s] = "closed"
    /\ task' = [task EXCEPT ![s] = "finalized"]
    /\ ctl' = UpdateSession(s, "stopped")
    /\ UNCHANGED <<svc, fileSide, quiet, mcp, sweep, ghost>>

removeTask(s) ==
    /\ task[s] = "finalized"
    /\ task' = [task EXCEPT ![s] = "none"]
    /\ UNCHANGED <<ctl, svc, fileSide, quiet, mcp, sweep, ghost>>

\* The process dies without StopAll ...
PipelineCrashes ==
    /\ svc.up /\ svc.crashes > 0
    /\ svc' = [up |-> FALSE, crashes |-> svc.crashes - 1]
    /\ task' = [s \in Ses |-> "none"]
    /\ UNCHANGED <<ctl, fileSide, quiet, mcp, sweep, ghost>>

\* ... and the next one corrects the rows before it serves.
\* Mutant: the rows of the process before are left alone.
ReconcileRunningSessions_Skipped == UNCHANGED ctl

ReconcileRunningSessions ==
    ctl' = [s \in Ses |-> IF ctl[s].status = "running" THEN [ctl[s] EXCEPT !.status = "stopped"] ELSE ctl[s]]

PipelineStarts ==
    /\ ~svc.up
    /\ svc' = [svc EXCEPT !.up = TRUE]
    /\ ReconcileRunningSessions
    /\ UNCHANGED <<task, fileSide, quiet, mcp, sweep, ghost>>

\* StopAll on an orderly exit: every task is cancelled, its end is waited for.
StopAll ==
    /\ svc.up
    /\ \E s \in Ses : task[s] = "running"
    /\ task' = [s \in Ses |-> IF task[s] = "running" THEN "stopping" ELSE task[s]]
    /\ UNCHANGED <<ctl, svc, fileSide, quiet, mcp, sweep, ghost>>

\* What the pipeline answers.
GetStatus(s) == IF Running(s) THEN "running" ELSE "closed"
ListLive == {s \in Ses : task[s] # "none"}

-----------------------------------------------------------------------------
\* gt-mcp's files.

writeCurrent(u, s, status) == cur' = [cur EXCEPT ![u] = [s |-> s, status |-> status]]

\* The reader's own current file, then metadata.json, then the database alone.
readSessionMetadata(s, u) ==
    IF u \in SesUsers /\ cur[u].s = s THEN cur[u].status
    ELSE IF s \notin dir THEN "none"
    ELSE IF meta[s] # "none" THEN meta[s] ELSE "stopped"

\* The shards that name s (the last one read wins, so at most one is kept).
currentPointers(s) == {u \in SesUsers : cur[u].s = s}

\* resolveSessionMeta, authorizeSession: the row names the owner, without a row the
\* caller's shard or metadata.json does; a session found nowhere is refused.
authorizeSession(s, u) == ctl[s].owner = u /\ (GetSession(s) \/ cur[u].s = s \/ meta[s] # "none")

\* handleStartCapture: the RPC, metadata.json, current.  Every session is started in
\* a project.
StartCapture(u) ==
    \E s \in Ses, ok \in BOOLEAN :
       /\ svc.up /\ Cardinality(mcp) < MaxMcp
       /\ s \notin ghost.used /\ (s = 1 \/ (s - 1) \in ghost.used)
       /\ (ghost.used = {} => u \in FirstUsers)
       /\ StartSession(s, u, ok)
       /\ mcp' = IF ok THEN mcp \cup {[op |-> "meta", u |-> u, s |-> s]} ELSE mcp
       /\ ghost' = [ghost EXCEPT !.used = @ \cup {s}, !.failed = IF ok THEN @ ELSE @ \cup {s}]
       /\ UNCHANGED <<meta, cur, quiet, sweep, svc>>

\* The write fails when the directory has gone meanwhile.
writeSessionMetadata(k) ==
    /\ k.op = "meta"
    /\ meta' = [meta EXCEPT ![k.s] = IF k.s \in dir THEN "running" ELSE @]
    /\ mcp' = (mcp \ {k}) \cup {[k EXCEPT !.op = "cur"]}
    /\ UNCHANGED <<pipeSide, dir, cur, quiet, sweep, ghost>>

StartWritesCurrent(k) ==
    /\ k.op = "cur"
    /\ writeCurrent(k.u, k.s, "running")
    /\ mcp' = mcp \ {k}
    /\ UNCHANGED <<pipeSide, dir, meta, quiet, sweep, ghost>>

\* handleStopCapture: the session named, or the current one; the pipeline is
\* told, and that it knows no such session is not an error.
StopCapture(u, s) ==
    /\ svc.up /\ Cardinality(mcp) < MaxMcp
    /\ s \in ghost.used
    /\ authorizeSession(s, u) \/ (cur[u].s = s /\ cur[u].status # "stopped")
    /\ task[s] \in {"none", "running"}
    /\ task' = [task EXCEPT ![s] = IF @ = "running" THEN "stopping" ELSE @]
    /\ mcp' = mcp \cup {[op |-> "stop", u |-> u, s |-> s]}
    /\ UNCHANGED <<ctl, svc, fileSide, quiet, sweep, ghost>>

\* The answer comes when the task is gone: the files are read ...
StopReads(k) ==
    /\ k.op = "stop" /\ task[k.s] \in {"none", "finalized"}
    /\ mcp' = (mcp \ {k}) \cup (IF readSessionMetadata(k.s, k.u) = "none" THEN {}
                                ELSE {[k EXCEPT !.op = IF cur[k.u].s = k.s THEN "both" ELSE "file"]})
    /\ UNCHANGED <<pipeSide, fileSide, quiet, sweep, ghost>>

\* ... and written.
handleStopCapture(k) ==
    /\ k.op \in {"both", "file"}
    /\ IF k.op = "both" THEN writeCurrent(k.u, k.s, "stopped") ELSE UNCHANGED cur
    /\ meta' = [meta EXCEPT ![k.s] = IF k.s \in dir THEN "stopped" ELSE @]
    /\ mcp' = mcp \ {k}
    /\ UNCHANGED <<pipeSide, dir, quiet, sweep, ghost>>

\* handleDeleteSession: refused when it is the caller's own running current;
\* the caller's shard is reset, the directory removed, the row kept.
handleDeleteSession(u, s) ==
    /\ s \in dir /\ authorizeSession(s, u)
    /\ cur[u] # [s |-> s, status |-> "running"]
    /\ cur' = IF cur[u].s = s THEN [cur EXCEPT ![u] = [s |-> 0, status |-> "none"]] ELSE cur
    /\ dir' = dir \ {s}
    /\ meta' = [meta EXCEPT ![s] = "none"] /\ quiet' = quiet \ {s}
    /\ UNCHANGED <<pipeSide, mcp, sweep, ghost>>

McpCrashes ==
    /\ svc.crashes > 0
    /\ mcp # {} \/ sweep # SweepIdle
    /\ svc' = [svc EXCEPT !.crashes = @ - 1]
    /\ mcp' = {} /\ sweep' = SweepIdle
    /\ UNCHANGED <<task, ctl, fileSide, quiet, ghost>>

-----------------------------------------------------------------------------
\* Retention.

\* Time passes over a session: finished, or running without a packet.
GoesQuiet(s) ==
    /\ s \in dir \ quiet
    /\ quiet' = quiet \cup {s}
    /\ UNCHANGED <<pipeSide, fileSide, mcp, sweep, ghost>>

\* What the count limit would delete of kept: all but the newest MaxKeep, and
\* of those not the ones whose file says running.
overLimit(kept) ==
    {s \in kept : Cardinality({t \in kept : t > s}) >= MaxKeep /\ readSessionMetadata(s, 0) # "running"}

\* enforceRetention: the list with its states is read once.
enforceRetention ==
    /\ sweep.pc = "idle"
    /\ LET expired == dir \cap quiet
           over    == overLimit(dir \ quiet)
       IN /\ expired \cup over # {}
          /\ sweep' = [pc |-> "delete", todo |-> expired \cup over]
          /\ ghost' = [ghost EXCEPT !.busy = @ \cup {s \in over : Running(s) /\ meta[s] # "none"}]
    /\ UNCHANGED <<pipeSide, fileSide, quiet, mcp>>

\* One directory, its shard and, in the end, its row.
deleteSessionForRetention(s) ==
    /\ sweep.pc = "delete" /\ s \in sweep.todo
    /\ dir' = dir \ {s}
    /\ meta' = [meta EXCEPT ![s] = "none"]
    /\ cur' = [u \in SesUsers |-> IF u \in currentPointers(s) THEN [s |-> 0, status |-> "none"] ELSE cur[u]]
    /\ ctl' = DeleteSession(s)
    /\ sweep' = [pc |-> IF sweep.todo = {s} THEN "idle" ELSE "delete", todo |-> sweep.todo \ {s}]
    /\ quiet' = quiet \ {s}
    /\ UNCHANGED <<task, svc, mcp, ghost>>

-----------------------------------------------------------------------------
\* list_sessions: what is shown for a session in the caller's list.
displayed(s, u) ==
    LET filed == readSessionMetadata(s, u) IN
    IF s \in ListLive THEN GetStatus(s)
    ELSE IF filed = "running" /\ svc.up THEN "stopped" ELSE filed

\* list_sessions: those with a directory and a file that names the caller, and
\* those only the pipeline knows.
listSessions(u) == {s \in dir : ctl[s].owner = u /\ (meta[s] # "none" \/ cur[u].s = s)}
handleListAllSessions(u) ==
    [s \in listSessions(u) \cup {t \in ListLive : authorizeSession(t, u)} |->
        IF s \in listSessions(u) THEN displayed(s, u) ELSE GetStatus(s)]

\* get_session_status: the pipeline, or the files when it cannot be reached.
handleGetSessionStatus(s, u) ==
    IF svc.up THEN GetStatus(s)
    ELSE IF readSessionMetadata(s, u) = "none" THEN "closed" ELSE readSessionMetadata(s, u)

\* Where queries find the database: the row, the files, the caller's current session.
getDBPath(s, u) ==
    IF ~authorizeSession(s, u) THEN 0
    ELSE IF GetSession(s) \/ readSessionMetadata(s, u) # "none" THEN s ELSE cur[u].s

SesNext ==
    \/ \E u \in SesUsers : StartCapture(u)
    \/ \E s \in Ses :
          \/ CaptureEnds(s) \/ TaskCloses(s) \/ FinalizeUpdates(s) \/ removeTask(s)
          \/ GoesQuiet(s) \/ deleteSessionForRetention(s)
          \/ \E u \in SesUsers : StopCapture(u, s) \/ handleDeleteSession(u, s)
    \/ \E k \in mcp : writeSessionMetadata(k) \/ StartWritesCurrent(k) \/ StopReads(k) \/ handleStopCapture(k)
    \/ PipelineCrashes \/ PipelineStarts \/ StopAll \/ McpCrashes
    \/ enforceRetention

SesSpec == SesInit /\ [][SesNext]_sesVars

-----------------------------------------------------------------------------
\* A control row says running only while the pipeline has the task, across
\* crashes and deletions (ReconcileRunningSessions, finalizeTask).  A start that
\* failed half-way leaves one until the next start of the pipeline.
RowsTruthful ==
    \A s \in Ses : svc.up /\ ctl[s].status = "running" => s \in ListLive \/ s \in ghost.failed

\* The count limit never takes a session that is being captured and whose
\* start_capture has said so (retention.go, "running sessions are not cut").
SweptWasIdle == ghost.busy = {}

\* Nobody is shown a session as running that cannot be stopped, and nobody
\* misses one of his own that runs (handleListAllSessions, "displayed as
\* running but stop fails"), except one whose directory was deleted under it:
\* retention takes a running session for dead that has been quiet for the TTL.
ListTellsTruth ==
    \A u \in SesUsers :
       LET list == handleListAllSessions(u) IN
       svc.up => /\ \A s \in DOMAIN list : (list[s] = "running") = Running(s)
                 /\ \A s \in dir : Running(s) /\ ctl[s].owner = u => s \in DOMAIN list
                 /\ \A s \in Ses : handleGetSessionStatus(s, u) = "running" => Running(s)

\* The three together: what files, control rows and the pipeline say of a session.
SessionsKept == RowsTruthful /\ SweptWasIdle /\ ListTellsTruth

\* A session started in a project stays in it.
SessionKeepsProject == [][\A s \in Ses : ctl[s].project /\ ctl'[s].status # "none" => ctl'[s].project]_sesVars

=============================================================================
