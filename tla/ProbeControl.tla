---------------------------- MODULE ProbeControl ----------------------------
(***************************************************************************)
(* The control plane of one probe: the server's Manager and its Connect    *)
(* streams, the probe's control client, and the calls that users make      *)
(* (gt-mcp's probe tools through CaptureControl).                          *)
(*                                                                         *)
(* Manager.mu guards conns, desired, latest and pendingResults.  A critical *)
(* section is one step that needs the lock to be free (~wedged).  A section *)
(* that asks for the lock again while it holds it never ends: syncLocked    *)
(* and QueryArchive build their command with nextCmdID, which locks mu.     *)
(* wedged records that some goroutine sits in such a section.               *)
(*                                                                         *)
(* The commands that are sent without the lock (UpdateFilter, ArchiveUpload)*)
(* go through the sender goroutine of a stream, the wire, the probe and     *)
(* back.  AssignCapture, Stop and ArchiveQuery are never sent: building one *)
(* is what wedges the Manager.                                              *)
(***************************************************************************)
EXTENDS Integers, Sequences, FiniteSets

CONSTANTS
    Streams,        \* Connect streams that the probe opens, in this order
    Sessions,       \* capture sessions that can be made
    Calls,          \* calls that may run at the same time
    Owner, Admin,   \* who may call: the probe's owner, an administrator
    Stranger,       \*   and somebody else
    NoSession,
    SendCap,        \* capacity of probeConn.send
    MaxCalls,       \* bound: calls in a behaviour
    MaxTokens,      \* bound: probe tokens issued in a behaviour
    MaxLocal        \* bound: captures started at the probe's machine

ASSUME ProbeAssumption ==
    /\ Streams \subseteq Nat \ {0} /\ NoSession \notin Sessions
    /\ Cardinality({Owner, Admin, Stranger}) = 3
    /\ SendCap \in Nat \ {0} /\ MaxCalls \in Nat /\ MaxTokens \in Nat /\ MaxLocal \in Nat

VARIABLES
    token,      \* probes.token_hash: the token it accepts, 0 when there is none
    tokens,     \* tokens issued so far
    saved,      \* probe.json: the probe's own token, 0 when it has none
    wedged,     \* a goroutine holds Manager.mu for good
    conns,      \* Manager.conns[probe]
    desired,    \* Manager.desired[probe]
    latest,     \* Manager.latest[probe]: what the last heartbeat said
    pending,    \* Manager.pendingResults: the ids somebody waits for
    seq,        \* Manager.seq
    stream,     \* a Connect handler and what belongs to it
    runner,     \* the probe's capture: [on, session], and how often it was changed there
    calls,      \* the calls of the users
    made,       \* calls made so far; numbers the commands (history)
    session,    \* capture sessions: their state, owner, and who knows of them
    uploads,    \* archive uploads the probe has started
    imported    \* <<session, accepted>> of finished uploads (history)

store == <<token, tokens, saved>>
manager == <<conns, desired, latest, pending, seq>>
vars == <<store, wedged, manager, stream, runner, calls, made, session, uploads, imported>>

NoStream == 0
\* n numbers its command; done: the probe has carried that out (history).
NoCall == [op |-> "stop", who |-> Stranger, at |-> "idle", session |-> NoSession,
           id |-> 0, n |-> 0, done |-> FALSE, answer |-> "none"]
\* at: "none", the credentials were "checked", the handler reads ("open"), or it
\* has still to run closeConn ("closing"); link: the probe is on the other end;
\* cancelled: its context has ended; sender: its sender goroutine runs.
NewStream == [at |-> "none", link |-> FALSE, cancelled |-> FALSE, sender |-> FALSE,
              send |-> <<>>, down |-> <<>>, up |-> <<>>]

Init ==
    /\ token = 0 /\ tokens = 0 /\ saved = 0 /\ wedged = FALSE
    /\ conns = NoStream /\ desired = NoSession /\ pending = {} /\ seq = 0
    /\ latest = [on |-> FALSE, session |-> NoSession]
    /\ runner = [on |-> FALSE, session |-> NoSession, changes |-> 0]
    /\ stream = [s \in Streams |-> NewStream]
    /\ calls = [c \in Calls |-> NoCall] /\ made = 0
    /\ session = [x \in Sessions |-> [st |-> "none", owner |-> Stranger, listed |-> FALSE]]
    /\ uploads = {} /\ imported = {}

-----------------------------------------------------------------------------
(* syncLocked with a probe that is cn: it has something to send.  Every such *)
(* call wedges the Manager, so what it would send is not modelled.           *)
syncSends(cn, d, force) ==
    /\ cn # NoStream
    /\ IF d # NoSession THEN force \/ ~latest.on \/ latest.session # d ELSE latest.on

-----------------------------------------------------------------------------
(* gt-agent registers only when it has no token of its own. *)
ensureRegistered == saved = 0

(* The server keeps the record of this machine and gives it a new token. *)
RegisterProbe ==
    /\ ensureRegistered /\ tokens < MaxTokens
    /\ tokens' = tokens + 1 /\ token' = tokens + 1 /\ saved' = tokens + 1
    /\ UNCHANGED <<wedged, manager, stream, runner, calls, made, session, uploads, imported>>

(* The probe's control client opens one stream after the other. *)
connectOnce(s) ==
    /\ stream[s].at = "none" /\ \A t \in Streams : t < s => stream[t].at # "none"
    /\ \A t \in Streams : ~stream[t].link
    /\ saved # 0

(* Connect checks its credentials and waits for the hello. *)
Connect(s) ==
    /\ connectOnce(s) /\ saved = token
    /\ stream' = [stream EXCEPT ![s].at = "checked", ![s].link = TRUE]
    /\ UNCHANGED <<store, wedged, manager, runner, calls, made, session, uploads, imported>>

(* Hello has arrived: openConn takes over from the stream that is entered,   *)
(* and syncs.  Then the sender goroutine starts.                             *)
openConn(s) ==
    /\ stream[s].at = "checked" /\ ~wedged
    /\ conns' = s
    /\ wedged' = syncSends(s, desired, FALSE)
    /\ stream' = [t \in Streams |->
           IF t = s THEN [stream[s] EXCEPT !.at = "open", !.sender = ~wedged']
           ELSE IF t = conns THEN [stream[t] EXCEPT !.cancelled = TRUE] ELSE stream[t]]
    /\ UNCHANGED <<store, desired, latest, pending, seq, runner, calls, made, session, uploads, imported>>

(* The connection breaks: the probe notices, the server not yet. *)
LinkBreaks(s) ==
    /\ stream[s].link
    /\ stream' = [stream EXCEPT ![s].link = FALSE, ![s].down = <<>>]
    /\ UNCHANGED <<store, wedged, manager, runner, calls, made, session, uploads, imported>>

(* Recv fails: the handler returns, and its deferred calls are due. *)
RecvFails(s) ==
    /\ stream[s].at \in {"checked", "open"} /\ ~stream[s].link /\ stream[s].up = <<>>
    /\ stream' = [stream EXCEPT ![s].at = IF @ = "open" THEN "closing" ELSE "closed"]
    /\ UNCHANGED <<store, wedged, manager, runner, calls, made, session, uploads, imported>>

(* closeConn deletes whatever connection the probe has by now, and cancels it. *)
closeConn_KeepsEntry(s) ==
    /\ stream[s].at = "closing" /\ ~wedged
    /\ stream' = [stream EXCEPT ![s].at = "closed", ![s].cancelled = TRUE]
    /\ UNCHANGED <<store, wedged, manager, runner, calls, made, session, uploads, imported>>

closeConn(s) ==
    /\ stream[s].at = "closing" /\ ~wedged
    /\ conns' = NoStream
    /\ stream' = [t \in Streams |->
           IF t = s THEN [stream[s] EXCEPT !.at = "closed", !.cancelled = TRUE]
           ELSE IF t = conns THEN [stream[t] EXCEPT !.cancelled = TRUE] ELSE stream[t]]
    /\ UNCHANGED <<store, wedged, desired, latest, pending, seq, runner, calls, made, session, uploads, imported>>

(* The sender goroutine of s selects on the channel of the connection it     *)
(* found when it last looked, its own or by now another stream's, and sends  *)
(* the command on its own stream; it ends when that fails, ...               *)
SenderSends(s) ==
    /\ stream[s].sender
    /\ \E t \in {s, conns} \ {NoStream} :
       /\ stream[t].send # <<>>
       /\ stream' = [u \in Streams |->
              [stream[u] EXCEPT !.send = IF u = t THEN Tail(@) ELSE @,
                                !.down = IF u = s /\ stream[s].link THEN Append(@, Head(stream[t].send)) ELSE @,
                                !.sender = IF u = s THEN stream[s].link ELSE @]]
    /\ UNCHANGED <<store, wedged, manager, runner, calls, made, session, uploads, imported>>

(* ... when its own context ends, or when it finds no connection. *)
SenderQuits(s) ==
    /\ stream[s].sender /\ (stream[s].cancelled \/ (conns = NoStream /\ ~wedged))
    /\ stream' = [stream EXCEPT ![s].sender = FALSE]
    /\ UNCHANGED <<store, wedged, manager, runner, calls, made, session, uploads, imported>>

-----------------------------------------------------------------------------
(* The probe.  execute: a filter needs a running capture; an upload is only  *)
(* started.  The result goes back on the same stream.                        *)
execute(s) ==
    LET cmd == Head(stream[s].down)
        ok == cmd.op = "import" \/ runner.on
    IN  /\ stream[s].link /\ stream[s].down # <<>>
        /\ calls' = [c \in Calls |-> IF ok /\ calls[c].n = cmd.n THEN [calls[c] EXCEPT !.done = TRUE] ELSE calls[c]]
        /\ uploads' = IF cmd.op = "import" THEN uploads \cup {cmd.session} ELSE uploads
        /\ stream' = [stream EXCEPT ![s].down = Tail(@), ![s].up = Append(@, [id |-> cmd.id, ok |-> ok])]
        /\ UNCHANGED <<store, wedged, manager, runner, made, session, imported>>

(* The capture of the probe is started and stopped at the machine itself. *)
handleStart(x) ==
    /\ session[x].st = "running" /\ ~(runner.on /\ runner.session = x) /\ runner.changes < MaxLocal
    /\ runner' = [on |-> TRUE, session |-> x, changes |-> runner.changes + 1]
    /\ UNCHANGED <<store, wedged, manager, stream, calls, made, session, uploads, imported>>

handleStop ==
    /\ runner.on
    /\ runner' = [runner EXCEPT !.on = FALSE]
    /\ UNCHANGED <<store, wedged, manager, stream, calls, made, session, uploads, imported>>

(* A heartbeat: latest is replaced by what the probe does now. *)
heartbeat == [on |-> runner.on, session |-> runner.session]

applyHeartbeat(s) ==
    /\ stream[s].link /\ stream[s].at = "open" /\ ~wedged /\ latest # heartbeat
    /\ latest' = heartbeat
    /\ UNCHANGED <<store, wedged, conns, desired, pending, seq, stream, runner, calls, made, session, uploads, imported>>

(* handleEvent with a result: it goes to whoever waits for its id. *)
handleEvent(s) ==
    LET res == Head(stream[s].up) IN
    /\ stream[s].at = "open" /\ stream[s].up # <<>> /\ ~wedged
    /\ stream' = [stream EXCEPT ![s].up = Tail(@)]
    /\ calls' = [c \in Calls |->
           IF res.id \in pending /\ calls[c].at = "wait" /\ calls[c].id = res.id /\ calls[c].answer = "none"
           THEN [calls[c] EXCEPT !.answer = IF res.ok THEN "ok" ELSE "refused"] ELSE calls[c]]
    /\ UNCHANGED <<store, wedged, manager, runner, made, session, uploads, imported>>

(* archiver.Upload pushes to the session; IngestServer.authorize lets it in. *)
authorize(x) == session[x].st # "none" /\ session[x].owner = Owner

Uploaded(x) ==
    /\ x \in uploads /\ ~wedged
    /\ uploads' = uploads \ {x}
    /\ imported' = imported \cup {<<x, authorize(x)>>}
    /\ UNCHANGED <<store, wedged, manager, stream, runner, calls, made, session>>

-----------------------------------------------------------------------------
authorizeProbe(who) == who \in {Owner, Admin}
Returned(c) == [calls EXCEPT ![c] = NoCall]
Goes(c, at) == [calls EXCEPT ![c].at = at]

(* Who may begin a call in slot c: anybody, as long as it is free. *)
Callers(c) == IF calls[c].at = "idle" /\ made < MaxCalls /\ ~wedged THEN {Owner, Admin, Stranger} ELSE {}

(* A user's call enters its method, which begins with Manager.Get (the       *)
(* connection is looked up under the lock) and authorizeProbe; ok is its own  *)
(* condition, at is where it goes on.  A call that is refused changes nothing.*)
Enters(c, op, who, ok, at) ==
    /\ tokens > 0 /\ authorizeProbe(who) /\ ok
    /\ made' = made + 1
    /\ calls' = [calls EXCEPT ![c] = [NoCall EXCEPT !.op = op, !.n = made + 1, !.at = at,
                                      !.who = IF at = "create" THEN who ELSE @]]
    /\ UNCHANGED <<store, wedged, manager, stream, runner, session, uploads, imported>>

(* The two calls that make a session want the probe to be online. *)
ProbeStartCapture(c, who) == Enters(c, "start", who, conns # NoStream, "create")
ProbeImportArchive(c, who) == Enters(c, "import", who, conns # NoStream, "create")
ProbeStopCapture(c, who) == Enters(c, "stop", who, TRUE, "manager")
ProbeUpdateFilter(c, who) == Enters(c, "filter", who, TRUE, "manager")
ProbeRetryCapture(c, who) == Enters(c, "retry", who, TRUE, "manager")
ProbeRevoke(c, who) == Enters(c, "revoke", who, TRUE, "manager")
(* With the probe offline the list comes from the cache. *)
ProbeListArchive(c, who) == Enters(c, "archive", who, conns # NoStream, "manager")

Call(c, who) ==
    \/ ProbeStartCapture(c, who) \/ ProbeImportArchive(c, who) \/ ProbeStopCapture(c, who)
    \/ ProbeUpdateFilter(c, who) \/ ProbeRetryCapture(c, who) \/ ProbeRevoke(c, who) \/ ProbeListArchive(c, who)

(* engine.StartSession makes the session in the name of the caller, or fails. *)
CreatesSession(c, x) ==
    /\ calls[c].at = "create" /\ session[x].st = "none"
    /\ session' = [session EXCEPT ![x].st = "running", ![x].owner = calls[c].who]
    /\ calls' = [calls EXCEPT ![c].at = "manager", ![c].session = x]
    /\ UNCHANGED <<store, wedged, manager, stream, runner, made, uploads, imported>>

CreateFails(c) ==
    /\ calls[c].at = "create"
    /\ calls' = Returned(c)
    /\ UNCHANGED <<store, wedged, manager, stream, runner, made, session, uploads, imported>>

(* What the call does once its section is through, or it sits in it for good. *)
Then(c, at) == calls' = IF wedged' THEN Goes(c, "stuck") ELSE IF at = "idle" THEN Returned(c) ELSE Goes(c, at)

(* Manager.StartCapture *)
StartCapture(c) ==
    /\ calls[c].at = "manager" /\ calls[c].op = "start" /\ ~wedged
    /\ desired' = calls[c].session
    /\ wedged' = syncSends(conns, desired', FALSE)
    /\ Then(c, "report")
    /\ UNCHANGED <<store, conns, latest, pending, seq, stream, runner, made, session, uploads, imported>>

(* Manager.StopCapture names the session of the last heartbeat; that one is *)
(* stopped next, if there is one.                                           *)
StopCapture(c) ==
    /\ calls[c].at = "manager" /\ calls[c].op = "stop" /\ ~wedged
    /\ desired' = NoSession
    /\ wedged' = syncSends(conns, NoSession, FALSE)
    /\ calls' = IF wedged' THEN Goes(c, "stuck")
                ELSE IF latest.session = NoSession THEN Returned(c)
                ELSE [calls EXCEPT ![c].at = "stopping", ![c].session = latest.session]
    /\ UNCHANGED <<store, conns, latest, pending, seq, stream, runner, made, session, uploads, imported>>

Retry(c) ==
    /\ calls[c].at = "manager" /\ calls[c].op = "retry" /\ ~wedged
    /\ wedged' = (desired # NoSession /\ syncSends(conns, desired, TRUE))
    /\ Then(c, "idle")
    /\ UNCHANGED <<store, manager, stream, runner, made, session, uploads, imported>>

(* Manager.QueryArchive asks for its command id under the lock as well. *)
QueryArchive(c) ==
    /\ calls[c].at = "manager" /\ calls[c].op = "archive" /\ ~wedged
    /\ wedged' = (conns # NoStream)
    /\ Then(c, "idle")
    /\ UNCHANGED <<store, manager, stream, runner, made, session, uploads, imported>>

(* Manager.Revoke: the connection is forgotten and its context ended; the    *)
(* stream itself stays.                                                      *)
Revoke_KeepsContext(c) ==
    /\ calls[c].at = "manager" /\ calls[c].op = "revoke" /\ ~wedged
    /\ conns' = NoStream /\ desired' = NoSession /\ token' = 0
    /\ calls' = Returned(c)
    /\ UNCHANGED <<stream, tokens, saved, wedged, latest, pending, seq, runner, made, session, uploads, imported>>

Revoke(c) ==
    /\ calls[c].at = "manager" /\ calls[c].op = "revoke" /\ ~wedged
    /\ conns' = NoStream /\ desired' = NoSession /\ token' = 0
    /\ stream' = [t \in Streams |-> IF t = conns THEN [stream[t] EXCEPT !.cancelled = TRUE] ELSE stream[t]]
    /\ calls' = Returned(c)
    /\ UNCHANGED <<tokens, saved, wedged, latest, pending, seq, runner, made, session, uploads, imported>>

(* nextCmdID; outside the lock it works. *)
nextCmdID_Same == 1
nextCmdID == seq + 1

(* sendAndWait hands the command to the connection's channel, unless there is *)
(* none or it is full, ...                                                    *)
sendAndWait(c) ==
    LET id == nextCmdID
        cmd == [id |-> id, n |-> calls[c].n, op |-> calls[c].op, session |-> calls[c].session]
        sent == conns # NoStream /\ Len(stream[conns].send) < SendCap
    IN  /\ calls[c].at = "manager" /\ ~wedged
        /\ seq' = seq + 1
        /\ IF sent
           THEN /\ pending' = pending \cup {id}
                /\ stream' = [stream EXCEPT ![conns].send = Append(@, cmd)]
                /\ calls' = [calls EXCEPT ![c].at = "wait", ![c].id = id]
           ELSE /\ calls' = IF calls[c].op = "import" THEN Goes(c, "rollback") ELSE Returned(c)
                /\ UNCHANGED <<pending, stream>>
        /\ UNCHANGED <<store, wedged, conns, desired, latest, runner, made, session, uploads, imported>>

(* Manager.UpdateFilter then also changes the filter of desired, which        *)
(* sessions do not tell apart.                                                *)
UpdateFilter(c) == calls[c].op = "filter" /\ sendAndWait(c)
StartArchiveUpload(c) == calls[c].op = "import" /\ sendAndWait(c)

(* ... and waits for the result or ten seconds. *)
WaitEnds_KeepsSession(c) ==
    /\ calls[c].at = "wait" /\ ~wedged
    /\ pending' = pending \ {calls[c].id}
    /\ calls' = IF calls[c].op = "import" /\ calls[c].answer = "ok" THEN Goes(c, "report") ELSE Returned(c)
    /\ UNCHANGED <<store, wedged, conns, desired, latest, seq, stream, runner, made, session, uploads, imported>>

WaitEnds(c) ==
    /\ calls[c].at = "wait" /\ ~wedged
    /\ pending' = pending \ {calls[c].id}
    /\ calls' = IF calls[c].op # "import" THEN Returned(c)
                ELSE Goes(c, IF calls[c].answer = "ok" THEN "report" ELSE "rollback")
    /\ UNCHANGED <<store, wedged, conns, desired, latest, seq, stream, runner, made, session, uploads, imported>>

(* finalizeTask of session x ends with OnSessionClosed. *)
OnSessionClosed(x) ==
    /\ session' = [session EXCEPT ![x].st = "stopped"]
    /\ desired' = IF desired = x THEN NoSession ELSE desired
    /\ wedged' = (desired = x /\ syncSends(conns, NoSession, FALSE))

(* engine.StopSession: for a failed import, and the second half of Stop;     *)
(* it returns when the session is finalized, at once if it is not running.   *)
StopSession(c) ==
    LET x == calls[c].session IN
    /\ calls[c].at \in {"rollback", "stopping"}
    /\ \/ /\ session[x].st = "running" /\ ~wedged
          /\ OnSessionClosed(x)
       \/ /\ session[x].st # "running"
          /\ UNCHANGED <<session, desired, wedged>>
    /\ Then(c, "idle")
    /\ UNCHANGED <<store, conns, latest, pending, seq, stream, runner, made, uploads, imported>>

(* A session ends by itself or from the session list. *)
SessionEnds(x) ==
    /\ session[x].st = "running" /\ ~wedged
    /\ OnSessionClosed(x)
    /\ UNCHANGED <<store, conns, latest, pending, seq, stream, runner, calls, made, uploads, imported>>

(* gt-mcp writes the metadata by which the session is listed. *)
writeProbeSessionMeta(c) ==
    /\ calls[c].at = "report"
    /\ session' = [session EXCEPT ![calls[c].session].listed = TRUE]
    /\ calls' = Returned(c)
    /\ UNCHANGED <<store, wedged, manager, stream, runner, made, uploads, imported>>

-----------------------------------------------------------------------------
CallSteps(c) ==
    \/ CreateFails(c) \/ StartCapture(c) \/ StopCapture(c) \/ Retry(c) \/ QueryArchive(c)
    \/ Revoke(c) \/ UpdateFilter(c) \/ StartArchiveUpload(c) \/ WaitEnds(c) \/ StopSession(c) \/ writeProbeSessionMeta(c)
    \/ \E x \in Sessions : CreatesSession(c, x)

StreamSteps(s) ==
    \/ Connect(s) \/ openConn(s) \/ LinkBreaks(s) \/ RecvFails(s) \/ closeConn(s)
    \/ SenderSends(s) \/ SenderQuits(s) \/ execute(s) \/ applyHeartbeat(s) \/ handleEvent(s)

Next ==
    \/ RegisterProbe \/ handleStop
    \/ \E s \in Streams : StreamSteps(s)
    \/ \E c \in Calls : CallSteps(c) \/ \E who \in Callers(c) : Call(c, who)
    \/ \E x \in Sessions : handleStart(x) \/ Uploaded(x) \/ SessionEnds(x)

Spec == Init /\ [][Next]_vars

(* A call's goroutine is scheduled: what it can do next, it does. *)
FairSpec == Spec /\ \A c \in Calls : WF_vars(CallSteps(c))

-----------------------------------------------------------------------------
(* When sendAndWait reports success the probe has carried out that very      *)
(* command: not an earlier one whose caller had given up before the answer   *)
(* came, whatever streams broke and were replaced in between.                *)
AcceptedWasExecuted ==
    \A c \in Calls : calls[c].answer = "ok" => calls[c].done

(* Manager.Online tells the truth: a probe is in conns exactly while one of   *)
(* its handlers, the one entered last, is still running with a live context,  *)
(* although handlers end in any order and each closeConn takes out whatever   *)
(* entry it finds.  (So a context ends by Revoke, by the next openConn, or by *)
(* the closeConn of an older handler, manager.go:128.)                        *)
OnlineTruthful ==
    \A s \in Streams : conns = s <=> stream[s].at \in {"open", "closing"} /\ ~stream[s].cancelled

(* A session that a probe call made is listed, is being dealt with by its    *)
(* call, or has been stopped: a failed assignment or import leaves none.     *)
NoSessionLeft ==
    \A x \in Sessions :
        session[x].st = "running" /\ ~session[x].listed =>
            \E c \in Calls : calls[c].session = x /\ calls[c].at # "idle"

(* Archived packets enter only a session of the probe's owner, also when an  *)
(* administrator asked for the import.                                       *)
ImportOwned == \A x \in Sessions : <<x, TRUE>> \in imported => session[x].owner = Owner

(* What a probe call makes is accounted for, and belongs to the probe's owner. *)
SessionsAccounted == NoSessionLeft /\ ImportOwned

(* A call returns: StartCapture as soon as the command is accepted.          *)
CallsReturn == \A c \in Calls : calls[c].at # "idle" ~> calls[c].at = "idle"
=============================================================================
