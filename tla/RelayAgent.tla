----------------------------- MODULE RelayAgent -----------------------------
(***************************************************************************)
(* gt-singbox-agent and the mobile capture source it reports to.  The      *)
(* agent relays a phone's connections all the time; a CaptureGate, idle or *)
(* capturing, decides whether what passes is reported, and to which        *)
(* session.  Every start is a new epoch with a gRPC stream of its own; the *)
(* conn_id of a connection contains the epoch.                             *)
(*                                                                         *)
(* Each connection has two forwarding goroutines.  They load the gate's    *)
(* state without a lock, so that a start or stop can come between the load *)
(* and the use.  A stream may break with what is in it.                    *)
(***************************************************************************)
EXTENDS Integers, Sequences, FiniteSets, FiniteSetsExt, SequencesExt

CONSTANTS
    Phones,         \* connections through the relay
    Directions,     \* "request" and "response"
    Filtered,       \* the connections that a filtered capture reports
    Sources,        \* sessions with a mobile source, each at its own address
    MaxEpochs,      \* bound: captures started
    MaxChunks,      \* bound: chunks of one connection
    MaxStreams,     \* bound: Push streams opened
    MaxInFlight,    \* messages a stream takes before Send waits
    MaxBreaks       \* bound: streams broken

VARIABLES
    gate,           \* the current epoch, 0 when idle
    captures,       \* epoch -> [session, filter]
    sink,           \* epoch -> [stream: of PushClient or 0, open: not closed]
    pushes,         \* stream -> [epoch, q: on the way, alive, ids: connections opened on it]
    conn,           \* connection -> [at, st, epoch, opened]
    fwd,            \* <<connection, direction>> -> [at, st, n]
    sources,        \* session -> [up, table: connections, active: activeConns, got: packets, late: connections with one out of order]
    lost,           \* ghost: data dropped for a connection that is not open
    breaks,
    cut             \* ghost: epochs one of whose streams broke

relVars == <<gate, captures, sink, pushes, conn, fwd, sources, lost, breaks, cut>>
gateVars == <<gate, captures>>
pushVars == <<sink, pushes>>

RelInit ==
    /\ gate = 0 /\ captures = <<>>
    /\ sink = <<>> /\ pushes = <<>>
    /\ conn = [k \in Phones |-> [at |-> "new", st |-> 0, epoch |-> 0, opened |-> FALSE]]
    /\ fwd = [f \in Phones \X Directions |-> [at |-> "read", st |-> 0, n |-> 0]]
    /\ sources = [s \in Sources |-> [up |-> TRUE, table |-> {}, active |-> 0, got |-> {}, late |-> {}]]
    /\ lost = {} /\ breaks = MaxBreaks /\ cut = {}

Session(e) == captures[e].session

-----------------------------------------------------------------------------
(* PushClient *)

\* dialLocked: a stream to the session's source, if that listens.
CanDial(e) == sources[Session(e)].up
NewStream(e, q) == [epoch |-> e, q |-> q, alive |-> TRUE, ids |-> {}]

\* Send dials when there is no stream, and whether or not the client was closed; a
\* stream that turns out to be broken is reset and the message is lost.
Send(e, m) ==
    LET i == sink[e].stream IN
    IF i = 0
    THEN IF CanDial(e)
         THEN /\ Len(pushes) < MaxStreams
              /\ pushes' = Append(pushes, NewStream(e, <<m>>))
              /\ sink' = [sink EXCEPT ![e].stream = Len(pushes) + 1]
         ELSE UNCHANGED pushVars
    ELSE IF pushes[i].alive
    THEN /\ Len(pushes[i].q) < MaxInFlight
         /\ pushes' = [pushes EXCEPT ![i].q = Append(@, m)] /\ UNCHANGED sink
    ELSE sink' = [sink EXCEPT ![e].stream = 0] /\ UNCHANGED pushes

\* Every two seconds.  A tick taken just before Close may still dial, and leave an
\* empty stream; this is left out.
keepalive(e) ==
    /\ sink[e].open /\ sink[e].stream = 0 /\ CanDial(e) /\ Len(pushes) < MaxStreams
    /\ pushes' = Append(pushes, NewStream(e, <<>>))
    /\ sink' = [sink EXCEPT ![e].stream = Len(pushes) + 1]
    /\ UNCHANGED <<gateVars, conn, fwd, sources, lost, breaks, cut>>

\* Close ends the stream after what is in it.
Ended(q) == Append(q, [ev |-> "eof"])
ClosedPushes(e) ==
    IF e = 0 \/ sink[e].stream = 0 THEN pushes
    ELSE [pushes EXCEPT ![sink[e].stream].q = Ended(@)]
ClosedSinks(e) == IF e = 0 THEN sink ELSE [sink EXCEPT ![e] = [stream |-> 0, open |-> FALSE]]

-----------------------------------------------------------------------------
(* CaptureGate *)

\* Start of the capture that runs already changes nothing; any other one gets a new
\* epoch and a new PushClient, and that of the former capture is closed.
GateStart(s, filter) ==
    LET e == Len(captures) + 1 IN
    /\ e <= MaxEpochs /\ (e > 1 => filter = Phones)     \* bound: only the first is filtered
    /\ gate # 0 => Session(gate) # s
    /\ captures' = Append(captures, [session |-> s, filter |-> filter])
    /\ gate' = e
    /\ \/ /\ sink' = Append(ClosedSinks(gate), [stream |-> 0, open |-> TRUE])
          /\ pushes' = ClosedPushes(gate)
       \/ /\ sources[s].up /\ Len(pushes) < MaxStreams
          /\ sink' = Append(ClosedSinks(gate), [stream |-> Len(pushes) + 1, open |-> TRUE])
          /\ pushes' = Append(ClosedPushes(gate), NewStream(e, <<>>))
    /\ UNCHANGED <<conn, fwd, sources, lost, breaks, cut>>

Stop ==
    /\ gate # 0 /\ gate' = 0
    /\ sink' = ClosedSinks(gate) /\ pushes' = ClosedPushes(gate)
    /\ UNCHANGED <<captures, conn, fwd, sources, lost, breaks, cut>>

\* ControlServer: the handlers of /capture/start and /capture/stop.
handleStart == \E s \in Sources, filter \in {Filtered, Phones} : GateStart(s, filter)
handleStop == Stop

-----------------------------------------------------------------------------
(* Relay *)

allow(k, e) == k \in captures[e].filter
ConnId(k, e) == <<k, e>>
Event(ev, k, e, d, n) == [ev |-> ev, id |-> ConnId(k, e), dir |-> d, n |-> n]

\* relayConn.begin: the connection is announced once in each epoch.
NewEpoch_StaysOpened(c, e) == [c EXCEPT !.epoch = e]
NewEpoch(c, e) == IF c.epoch # e THEN [c EXCEPT !.epoch = e, !.opened = FALSE] ELSE c
begin(k, e, at) ==
    IF e = 0 \/ ~allow(k, e) THEN conn' = [conn EXCEPT ![k].at = at, ![k].st = 0] /\ UNCHANGED pushVars
    ELSE LET c == NewEpoch(conn[k], e) IN
         /\ conn' = [conn EXCEPT ![k] = [c EXCEPT !.at = at, !.st = 0, !.opened = TRUE]]
         /\ IF c.opened THEN UNCHANGED pushVars ELSE Send(e, Event("open", k, e, "", 0))

\* handleConn: the target is found and dialled, or nothing is ever reported.
Accepts(k) ==
    /\ conn[k].at = "new"
    /\ \/ conn' = [conn EXCEPT ![k].at = "announce", ![k].st = gate]
       \/ conn' = [conn EXCEPT ![k].at = "done"]
    /\ UNCHANGED <<gateVars, pushVars, fwd, sources, lost, breaks, cut>>
handleConn(k) ==
    /\ conn[k].at = "announce"
    /\ begin(k, conn[k].st, "relay")
    /\ UNCHANGED <<gateVars, fwd, sources, lost, breaks, cut>>

ChunksOf(k) == FoldSet(LAMBDA d, n : n + fwd[<<k, d>>].n, 0, Directions)
\* forward: a chunk is read and the gate's state loaded.
Reads(k, d) ==
    LET f == fwd[<<k, d>>] IN
    /\ conn[k].at = "relay" /\ f.at = "read"
    /\ ChunksOf(k) < MaxChunks
    /\ fwd' = [fwd EXCEPT ![<<k, d>>] = [at |-> "begin", st |-> gate, n |-> f.n + 1]]
    /\ UNCHANGED <<gateVars, pushVars, conn, sources, lost, breaks, cut>>
forward(k, d) ==
    LET f == fwd[<<k, d>>] IN
    /\ f.at = "begin"
    /\ begin(k, f.st, "relay")
    /\ fwd' = [fwd EXCEPT ![<<k, d>>].at = IF f.st # 0 /\ allow(k, f.st) THEN "send" ELSE "read"]
    /\ UNCHANGED <<gateVars, sources, lost, breaks, cut>>
\* The chunk is written to the other side, and then reported.
Reports(k, d) ==
    LET f == fwd[<<k, d>>] IN
    /\ f.at = "send"
    /\ Send(f.st, Event("data", k, f.st, d, f.n))
    /\ fwd' = [fwd EXCEPT ![<<k, d>>].at = "read"]
    /\ UNCHANGED <<gateVars, conn, sources, lost, breaks, cut>>
\* End of the data (after MaxChunks), or the write to the other side fails.
ForwardEnds(k, d) ==
    /\ conn[k].at = "relay"
    /\ fwd[<<k, d>>].at = "send" \/ (fwd[<<k, d>>].at = "read" /\ ChunksOf(k) = MaxChunks)
    /\ fwd' = [fwd EXCEPT ![<<k, d>>].at = "stopped"]
    /\ UNCHANGED <<gateVars, pushVars, conn, sources, lost, breaks, cut>>
\* relayConn.end, when both directions have ended.
BothStopped(k) ==
    /\ conn[k].at = "relay" /\ \A d \in Directions : fwd[<<k, d>>].at = "stopped"
    /\ conn' = [conn EXCEPT ![k].at = "end", ![k].st = gate]
    /\ UNCHANGED <<gateVars, pushVars, fwd, sources, lost, breaks, cut>>
end(k) ==
    LET c == conn[k] IN
    /\ c.at = "end"
    /\ conn' = [conn EXCEPT ![k].at = "done"]
    /\ IF c.st # 0 /\ c.epoch = c.st /\ c.opened THEN Send(c.st, Event("close", k, c.st, "", 0))
       ELSE UNCHANGED pushVars
    /\ UNCHANGED <<gateVars, fwd, sources, lost, breaks, cut>>

-----------------------------------------------------------------------------
(* The mobile source *)

connKey(i, id) == <<i, id>>

\* Opened twice on one stream, a connection only gets new addresses.
handleOpen(s, i, m) ==
    LET new == connKey(i, m.id) \notin sources[s].table IN
    sources' = [sources EXCEPT ![s].table = @ \cup {connKey(i, m.id)}, ![s].active = IF new THEN @ + 1 ELSE @]
\* buildPacket: the data, with its direction and its connection.
buildPacket(m) == [id |-> m.id, dir |-> m.dir, n |-> m.n]
emit(s, p) ==
    sources' = [sources EXCEPT ![s].got = @ \cup {p},
                  ![s].late = @ \cup {o.id : o \in {q \in sources[s].got : q.id = p.id /\ q.dir = p.dir /\ q.n >= p.n}}]
\* Data of a connection that is not open on this stream is counted as an error.
handleData(s, i, m) ==
    IF connKey(i, m.id) \in sources[s].table
    THEN emit(s, buildPacket(m)) /\ UNCHANGED lost
    ELSE lost' = lost \cup {m.id} /\ UNCHANGED sources
KnownConn_Always(s, key) == TRUE
KnownConn(s, key) == key \in sources[s].table
handleClose(s, i, m) ==
    LET key == connKey(i, m.id) IN
    sources' = [sources EXCEPT ![s].table = @ \ {key}, ![s].active = IF KnownConn(s, key) THEN @ - 1 ELSE @]

\* The connections the stream still has are forgotten.
dropStream(s, i) ==
    LET left == {id \in pushes[i].ids : connKey(i, id) \in sources[s].table} IN
    sources' = [sources EXCEPT ![s].table = @ \ {connKey(i, id) : id \in left}, ![s].active = @ - Cardinality(left)]

\* Push: the next message of a stream, or its end.
Push(i) ==
    LET p == pushes[i] s == Session(p.epoch) m == Head(p.q) IN
    /\ p.alive /\ p.q # <<>>
    /\ pushes' = [pushes EXCEPT ![i].q = Tail(@), ![i].alive = m.ev # "eof",
                                ![i].ids = CASE m.ev = "open" -> @ \cup {m.id} [] m.ev = "data" -> @
                                             [] m.ev = "close" -> @ \ {m.id} [] m.ev = "eof" -> {}]
    /\ CASE m.ev = "open" -> handleOpen(s, i, m) /\ UNCHANGED lost
         [] m.ev = "data" -> handleData(s, i, m)
         [] m.ev = "close" -> handleClose(s, i, m) /\ UNCHANGED lost
         [] OTHER -> dropStream(s, i) /\ UNCHANGED lost
    /\ UNCHANGED <<gateVars, sink, conn, fwd, breaks, cut>>

\* The stream breaks; a closed one may do so before its end was read.
StreamBreaks(i) ==
    LET p == pushes[i] closing == p.q # <<>> /\ Last(p.q).ev = "eof" IN
    /\ p.alive /\ (closing \/ breaks > 0)
    /\ breaks' = IF closing THEN breaks ELSE breaks - 1
    /\ cut' = cut \cup {p.epoch}
    /\ pushes' = [pushes EXCEPT ![i].alive = FALSE, ![i].q = <<>>, ![i].ids = {}]
    /\ dropStream(Session(p.epoch), i)
    /\ UNCHANGED <<gateVars, sink, conn, fwd, lost>>

\* The session ends: the server stops and with it every stream.
SourceCloses(s) ==
    LET own == {i \in DOMAIN pushes : pushes[i].alive /\ Session(pushes[i].epoch) = s} IN
    /\ sources[s].up
    /\ sources' = [sources EXCEPT ![s].up = FALSE, ![s].table = {}, ![s].active = 0]
    /\ pushes' = [i \in DOMAIN pushes |-> IF i \in own THEN [pushes[i] EXCEPT !.alive = FALSE, !.q = <<>>, !.ids = {}] ELSE pushes[i]]
    /\ cut' = cut \cup {pushes[i].epoch : i \in own}
    /\ UNCHANGED <<gateVars, sink, conn, fwd, lost, breaks>>

RelNext ==
    \/ handleStart \/ handleStop \/ \E s \in Sources : SourceCloses(s)
    \/ \E e \in DOMAIN sink : keepalive(e)
    \/ \E k \in Phones : \/ Accepts(k) \/ handleConn(k) \/ BothStopped(k) \/ end(k)
                         \/ \E d \in Directions : Reads(k, d) \/ forward(k, d) \/ Reports(k, d) \/ ForwardEnds(k, d)
    \/ \E i \in DOMAIN pushes : Push(i) \/ StreamBreaks(i)

RelSpec == RelInit /\ [][RelNext]_relVars

-----------------------------------------------------------------------------
\* A session receives only what was read while a capture for it was on, whatever
\* starts, stops and broken streams came between a goroutine's look at the gate and
\* its sends; while its capture goes on, each direction of a connection in order
\* and once (a goroutine that is late for one which is over may announce the
\* connection again, on a second stream that overtakes the first); and it counts as
\* active the connections that it knows.
RelayedApart ==
    \A s \in Sources :
        /\ \A p \in sources[s].got : Session(p.id[2]) = s
        /\ \A id \in sources[s].late : ~sink[id[2]].open
        /\ sources[s].active = Cardinality(sources[s].table)

\* While a capture goes on and its stream holds, nothing is dropped for want of its
\* ConnOpen: also of connections that are older than the capture or saw another one.
NothingUnannounced == \A id \in lost : id[2] \in cut \/ ~sink[id[2]].open

\* A comment says that pushing recovers when the source can be reached again.
PushingRecovers == \A id \in lost : ~sink[id[2]].open

\* A comment says that a session that was switched away from gets nothing more.
StoppedIsSilent == [][\A i \in DOMAIN pushes' : i \notin DOMAIN pushes => sink'[pushes'[i].epoch].open]_relVars
=============================================================================
