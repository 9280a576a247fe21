------------------------------- MODULE Uplink -------------------------------
(***************************************************************************)
(* The data path of the agent: the capture state machine (captureRunner),  *)
(* and per run of it the capture goroutine, the goroutine that watches for *)
(* its end, and the ingest client that moves packets from the capture      *)
(* channel into the spool and from the spool onto a gRPC stream.  A run    *)
(* that is replaced is only told to stop: its goroutines go on until they  *)
(* see it, while those of the next run work on the same spool queue.       *)
(*                                                                         *)
(* The queue is Spool's index: the packets not yet confirmed, the first    *)
(* nextIdx of them in flight.  Steps of different goroutines interleave    *)
(* wherever the code takes a lock or a channel operation.                  *)
(***************************************************************************)
EXTENDS Integers, Sequences, FiniteSets

CONSTANTS
    Params,      \* interface and filter of a capture
    BatchSize,   \* ingestClient.batchSize
    ChanCap,     \* capacity of the packets channel
    Quota,       \* packets the spool takes before ErrFull
    MaxUpRuns,     \* bound: starts in a behaviour
    MaxPackets,  \* bound: packets captured in a behaviour
    MaxBreaks,   \* bound: streams that end in a behaviour
    MaxUpdates   \* bound: filter updates in a behaviour

ASSUME UplinkAssumption ==
    /\ Params # {} /\ BatchSize \in Nat \ {0} /\ ChanCap \in Nat \ {0}
    /\ Quota \in Nat \ {0}
    /\ MaxUpRuns \in Nat \ {0} /\ MaxPackets \in Nat /\ MaxBreaks \in Nat /\ MaxUpdates \in Nat

VARIABLES
    state,      \* captureRunner.state
    params,     \* captureRunner.params
    cancelFn,   \* the run captureRunner.cancelFn cancels, 0 if nil
    live,       \* the run captureRunner.live belongs to, 0 if nil
    runs,       \* number of runs started; r.capEnded is that of the last one
    cancelled,  \* run -> its context is cancelled
    capture,    \* run -> capture goroutine: "none", "on", "closed", "off"
    filter,     \* run -> the BPF filter of its pcap handle
    packets,    \* run -> its packets channel
    capEnded,   \* run -> its capEnded channel holds an error
    watcher,    \* run -> watchCapEnded: "none", "begin", "select", "got", "done"
    watched,    \* run -> the run whose capEnded channel the watcher selects on
    client,     \* run -> where its ingest client is
    pending,    \* run -> pushOnce's pending
    stream,     \* run -> its stream: "up" or "broken"
    wire,       \* run -> batches sent on its stream that are not received yet
    queue,      \* spool: unconfirmed packets, head first
    nextIdx,    \* spool: queue[1..nextIdx] are in flight
    captured, spooled, dropped, sent, acked, received, lost, breaks, updates  \* history

runner == <<state, params, cancelFn, live, runs>>
captureVars == <<capture, filter, packets, capEnded>>
watchVars == <<watcher, watched>>
clientVars == <<client, pending, stream, wire>>
spoolVars == <<queue, nextIdx>>
history == <<captured, spooled, dropped, sent, acked, received, lost, breaks, updates>>
upVars == <<runner, cancelled, captureVars, watchVars, clientVars, spoolVars, history>>

Runs == 1 .. MaxUpRuns
None == 0
NoParams == "none"
Elems(s) == {s[i] : i \in 1 .. Len(s)}
Lesser(a, b) == IF a < b THEN a ELSE b

UpInit ==
    /\ state = "idle" /\ params = NoParams /\ cancelFn = None /\ live = None /\ runs = 0
    /\ cancelled = [r \in Runs |-> FALSE]
    /\ capture = [r \in Runs |-> "none"] /\ filter = [r \in Runs |-> NoParams]
    /\ packets = [r \in Runs |-> << >>] /\ capEnded = [r \in Runs |-> FALSE]
    /\ watcher = [r \in Runs |-> "none"] /\ watched = [r \in Runs |-> None]
    /\ client = [r \in Runs |-> "none"] /\ pending = [r \in Runs |-> << >>]
    /\ stream = [r \in Runs |-> "broken"] /\ wire = [r \in Runs |-> << >>]
    /\ queue = << >> /\ nextIdx = 0
    /\ captured = 0 /\ spooled = {} /\ dropped = {} /\ sent = {} /\ acked = {}
    /\ received = {} /\ lost = {} /\ breaks = 0 /\ updates = 0

(***************************************************************************)
(* captureRunner.  Every method holds r.mu from the first check to the     *)
(* last assignment.                                                        *)
(***************************************************************************)
\* stopLocked, as the contexts it leaves behind
StoppedLocked_Nobody == cancelled
StoppedLocked == IF cancelFn = None THEN cancelled ELSE [cancelled EXCEPT ![cancelFn] = TRUE]

AlreadyRunning(p) == state = "running" /\ params = p

Start(p) ==
    LET r == runs + 1 IN
    /\ runs < MaxUpRuns /\ ~AlreadyRunning(p)
    /\ runs' = r /\ params' = p /\ cancelFn' = r /\ live' = r
    /\ state' = "running"
    /\ cancelled' = StoppedLocked
    /\ capture' = [capture EXCEPT ![r] = "on"] /\ filter' = [filter EXCEPT ![r] = p]
    /\ client' = [client EXCEPT ![r] = "retry"]
    /\ watcher' = [watcher EXCEPT ![r] = "begin"]
    /\ UNCHANGED <<packets, capEnded, watched, pending, stream, wire, spoolVars, history>>

\* runCapture or spool.Open fails
StartFails(p) ==
    LET r == runs + 1 IN
    /\ runs < MaxUpRuns /\ ~AlreadyRunning(p)
    /\ runs' = r /\ params' = p /\ cancelFn' = r /\ live' = None
    /\ state' = "failed"
    /\ cancelled' = [StoppedLocked EXCEPT ![r] = TRUE]
    /\ UNCHANGED <<captureVars, watchVars, clientVars, spoolVars, history>>

Stop ==
    /\ state \notin {"idle", "stopped"}
    /\ cancelled' = StoppedLocked /\ cancelFn' = None /\ live' = None /\ state' = "stopped"
    /\ UNCHANGED <<params, runs, captureVars, watchVars, clientVars, spoolVars, history>>

NewParams_Forgotten(p) == params
NewParams(p) == p

UpdateFilter(p) ==
    /\ state = "running" /\ live # None /\ p # params /\ updates < MaxUpdates
    /\ capture[live] = "on"
    /\ filter' = [filter EXCEPT ![live] = p]
    /\ params' = NewParams(p)
    /\ updates' = updates + 1
    /\ UNCHANGED <<state, cancelFn, live, runs, cancelled, capture, packets, capEnded,
                   watchVars, clientVars, spoolVars, captured, spooled, dropped, sent,
                   acked, received, lost, breaks>>

(***************************************************************************)
(* The capture goroutine and the watcher of a run.                         *)
(***************************************************************************)
CapturePacket(r) ==
    /\ capture[r] = "on" /\ Len(packets[r]) < ChanCap /\ captured < MaxPackets
    /\ captured' = captured + 1
    /\ packets' = [packets EXCEPT ![r] = Append(@, captured + 1)]
    /\ UNCHANGED <<runner, cancelled, capture, filter, capEnded, watchVars, clientVars,
                   spoolVars, spooled, dropped, sent, acked, received, lost, breaks, updates>>

CaptureStops(r) ==
    /\ capture[r] = "on" /\ cancelled[r]
    /\ capture' = [capture EXCEPT ![r] = "off"]
    /\ UNCHANGED <<runner, cancelled, filter, packets, capEnded, watchVars, clientVars,
                   spoolVars, history>>

\* the interface went away: notifyCaptureEnded
CaptureCloses(r) ==
    /\ capture[r] = "on"
    /\ capture' = [capture EXCEPT ![r] = "closed"]
    /\ capEnded' = [capEnded EXCEPT ![r] = TRUE]
    /\ UNCHANGED <<runner, cancelled, filter, packets, watchVars, clientVars,
                   spoolVars, history>>

\* the goroutine reads r.capEnded without r.mu when it reaches its select
WatchBegins(r) ==
    /\ watcher[r] = "begin"
    /\ watcher' = [watcher EXCEPT ![r] = "select"]
    /\ watched' = [watched EXCEPT ![r] = runs]
    /\ UNCHANGED <<runner, cancelled, captureVars, clientVars, spoolVars, history>>

WatchDone(r) ==
    /\ watcher[r] = "select" /\ cancelled[r]
    /\ watcher' = [watcher EXCEPT ![r] = "done"]
    /\ UNCHANGED <<runner, cancelled, captureVars, watched, clientVars, spoolVars, history>>

WatchGets(r) ==
    /\ watcher[r] = "select" /\ capEnded[watched[r]]
    /\ capEnded' = [capEnded EXCEPT ![watched[r]] = FALSE]
    /\ watcher' = [watcher EXCEPT ![r] = "got"]
    /\ UNCHANGED <<runner, cancelled, capture, filter, packets, watched, clientVars,
                   spoolVars, history>>

FailsNow_OwnRunOnly(r) == state = "running" /\ cancelFn = r
FailsNow(r) == state = "running"

\* under r.mu again: whichever run is current by now is failed and cancelled
WatchFails(r) ==
    /\ watcher[r] = "got"
    /\ watcher' = [watcher EXCEPT ![r] = "done"]
    /\ IF FailsNow(r)
       THEN state' = "failed" /\ cancelled' = StoppedLocked
       ELSE UNCHANGED <<state, cancelled>>
    /\ UNCHANGED <<params, cancelFn, live, runs, captureVars, watched, clientVars,
                   spoolVars, history>>

(***************************************************************************)
(* The ingest client of a run: run and pushOnce.  Each call into the spool *)
(* and each Send is a step of its own.                                     *)
(***************************************************************************)
Wakes(r) ==
    /\ client[r] = "retry"
    /\ client' = [client EXCEPT ![r] = IF cancelled[r] THEN "done" ELSE "connect"]
    /\ UNCHANGED <<runner, cancelled, captureVars, watchVars, pending, stream, wire,
                   spoolVars, history>>

\* Requeue: nothing is in flight any more
Requeued_Kept == nextIdx
Requeued == 0

\* the stream opens, and what an earlier stream left in flight is put back
Connects(r) ==
    /\ client[r] = "connect"
    /\ client' = [client EXCEPT ![r] = "poll"]
    /\ stream' = [stream EXCEPT ![r] = "up"] /\ wire' = [wire EXCEPT ![r] = << >>]
    /\ nextIdx' = Requeued
    /\ UNCHANGED <<runner, cancelled, captureVars, watchVars, pending, queue, history>>

ConnectFails(r) ==
    /\ client[r] = "connect"
    /\ client' = [client EXCEPT ![r] = "retry"]
    /\ UNCHANGED <<runner, cancelled, captureVars, watchVars, pending, stream, wire,
                   spoolVars, history>>

\* a full batch is sent at once, and confirmed after that
WhenFull_ConfirmFirst == "ack"
WhenFull == "send"

\* spool.Next(n) hands out at most n packets, fewer at the end of a segment
TakesBatch(r, n) ==
    LET avail == Len(queue) - nextIdx IN
    \E m \in IF avail = 0 THEN {0} ELSE 1 .. Lesser(n, avail) :
        /\ nextIdx' = nextIdx + m
        /\ pending' = [pending EXCEPT ![r] = @ \o SubSeq(queue, nextIdx + 1, nextIdx + m)]
        /\ client' = [client EXCEPT ![r] = IF Len(pending'[r]) >= BatchSize THEN WhenFull ELSE "wait"]

Polls(r) ==
    /\ client[r] = "poll" /\ TakesBatch(r, BatchSize)
    /\ UNCHANGED <<runner, cancelled, captureVars, watchVars, stream, wire, queue, history>>

Room_WholeBatch(r) == BatchSize
Room(r) == BatchSize - Len(pending[r])

TopsUp(r) ==
    /\ client[r] = "topup" /\ TakesBatch(r, Room(r))
    /\ UNCHANGED <<runner, cancelled, captureVars, watchVars, stream, wire, queue, history>>

SpoolsPacket(r) ==
    /\ client[r] = "wait" /\ packets[r] # << >>
    /\ packets' = [packets EXCEPT ![r] = Tail(@)]
    /\ IF Len(queue) < Quota
       THEN /\ queue' = Append(queue, Head(packets[r]))
            /\ spooled' = spooled \cup {Head(packets[r])} /\ dropped' = dropped
            /\ client' = [client EXCEPT ![r] = IF pending[r] = << >> THEN "poll" ELSE "topup"]
       ELSE /\ dropped' = dropped \cup {Head(packets[r])} /\ UNCHANGED <<queue, spooled>>
            /\ client' = [client EXCEPT ![r] = IF pending[r] = << >> THEN "poll" ELSE "wait"]
    /\ UNCHANGED <<runner, cancelled, capture, filter, capEnded, watchVars, pending, stream,
                   wire, nextIdx, captured, sent, acked, received, lost, breaks, updates>>

TimerFires(r) ==
    /\ client[r] = "wait" /\ pending[r] # << >>
    /\ client' = [client EXCEPT ![r] = "send"]
    /\ UNCHANGED <<runner, cancelled, captureVars, watchVars, pending, stream, wire,
                   spoolVars, history>>

\* ctx.Done: the half batch is sent once more before the stream is closed
SeesCancel(r) ==
    /\ client[r] = "wait" /\ cancelled[r]
    /\ client' = [client EXCEPT ![r] = IF pending[r] = << >> THEN "closing" ELSE "flush"]
    /\ UNCHANGED <<runner, cancelled, captureVars, watchVars, pending, stream, wire,
                   spoolVars, history>>

\* the batch is not confirmed
SendFails(r) ==
    /\ client[r] \in {"send", "flush"} /\ stream[r] = "broken"
    /\ client' = [client EXCEPT ![r] = IF @ = "send" THEN "retry" ELSE "closing"]
    /\ pending' = [pending EXCEPT ![r] = << >>]
    /\ UNCHANGED <<runner, cancelled, captureVars, watchVars, stream, wire, spoolVars, history>>

\* Send returns once the batch is handed to the transport
Sends(r) ==
    /\ client[r] \in {"send", "flush"} /\ stream[r] = "up"
    /\ client' = [client EXCEPT ![r] = IF @ = "send" THEN "ack" ELSE "flushack"]
    /\ wire' = [wire EXCEPT ![r] = Append(@, pending[r])]
    /\ sent' = sent \cup Elems(pending[r])
    /\ UNCHANGED <<runner, cancelled, captureVars, watchVars, pending, stream, spoolVars,
                   captured, spooled, dropped, acked, received, lost, breaks, updates>>

\* AckN(len(pending)) confirms from the head of the queue
Confirms(r) ==
    LET k == Lesser(Len(pending[r]), nextIdx) IN
    /\ client[r] \in {"ack", "flushack"}
    /\ client' = [client EXCEPT ![r] = IF @ = "ack" THEN "poll" ELSE "closing"]
    /\ acked' = acked \cup Elems(SubSeq(queue, 1, k))
    /\ queue' = SubSeq(queue, k + 1, Len(queue)) /\ nextIdx' = nextIdx - k
    /\ pending' = [pending EXCEPT ![r] = << >>]
    /\ UNCHANGED <<runner, cancelled, captureVars, watchVars, stream, wire,
                   captured, spooled, dropped, sent, received, lost, breaks, updates>>

Carried(r) == UNION {Elems(wire[r][i]) : i \in 1 .. Len(wire[r])}

\* a stream ends, and what the transport holds goes with it
Cut(r) ==
    /\ stream' = [stream EXCEPT ![r] = "broken"] /\ wire' = [wire EXCEPT ![r] = << >>]
    /\ lost' = lost \cup (Carried(r) \ received)

\* finishStream: the server's PushAck comes after the last batch, or the wait
\* times out and the stream is torn down
Finishes(r) ==
    /\ client[r] = "closing"
    /\ client' = [client EXCEPT ![r] = "done"]
    /\ Cut(r)
    /\ UNCHANGED <<runner, cancelled, captureVars, watchVars, pending, spoolVars,
                   captured, spooled, dropped, sent, acked, received, breaks, updates>>

(***************************************************************************)
(* The network and the server.                                             *)
(***************************************************************************)
Receives(r) ==
    /\ wire[r] # << >>
    /\ wire' = [wire EXCEPT ![r] = Tail(@)]
    /\ received' = received \cup Elems(Head(wire[r]))
    /\ UNCHANGED <<runner, cancelled, captureVars, watchVars, client, pending, stream,
                   spoolVars, captured, spooled, dropped, sent, acked, lost, breaks, updates>>

Breaks(r) ==
    /\ stream[r] = "up" /\ breaks < MaxBreaks
    /\ Cut(r)
    /\ breaks' = breaks + 1
    /\ UNCHANGED <<runner, cancelled, captureVars, watchVars, client, pending, spoolVars,
                   captured, spooled, dropped, sent, acked, received, updates>>

Control == \E p \in Params : Start(p) \/ StartFails(p) \/ UpdateFilter(p)
Capturing(r) == CapturePacket(r) \/ CaptureStops(r) \/ CaptureCloses(r)
Watching(r) == WatchBegins(r) \/ WatchDone(r) \/ WatchGets(r) \/ WatchFails(r)
Ingesting(r) ==
    \/ Wakes(r) \/ Polls(r) \/ TopsUp(r) \/ SpoolsPacket(r)
    \/ TimerFires(r) \/ SeesCancel(r) \/ SendFails(r) \/ Sends(r) \/ Confirms(r) \/ Finishes(r)
Connecting(r) == Connects(r) \/ ConnectFails(r)

UpNext ==
    \/ Control \/ Stop
    \/ \E r \in Runs : \/ Capturing(r) \/ Watching(r) \/ Ingesting(r) \/ Connecting(r)
                       \/ Receives(r) \/ Breaks(r)

UpSpec == UpInit /\ [][UpNext]_upVars

\* Goroutines are scheduled, timers fire and the transport moves what it took;
\* nobody has to start, stop or capture anything, and a server need not answer.
Scheduled ==
    \A r \in Runs : WF_upVars(Watching(r)) /\ WF_upVars(Ingesting(r)) /\ WF_upVars(Connecting(r))
                    /\ WF_upVars(Receives(r))
ServerDownSpec == UpSpec /\ Scheduled
\* The server can be reached again and again, and a select with two ready cases
\* takes each of them eventually.
UpFairSpec ==
    /\ UpSpec /\ Scheduled
    /\ \A r \in Runs : SF_upVars(Connects(r)) /\ SF_upVars(TimerFires(r))

\* The behaviours in which a run's client has ended before that of the next run
\* begins: Start replaces a run without waiting for it (capture_runner.go:200), and
\* two clients that take turns on one queue confirm each other's packets.
OneClient == \A r, s \in Runs : {client[r], client[s]} \cap {"none", "done"} = {} => r = s
OneClientSpec == UpInit /\ [][UpNext /\ OneClient']_upVars

(***************************************************************************)
(* Properties.                                                             *)
(***************************************************************************)
States == {"idle", "running", "stopped", "failed"}
UpTypeOK ==
    /\ state \in States /\ params \in Params \cup {NoParams}
    /\ cancelFn \in 0 .. MaxUpRuns /\ live \in 0 .. MaxUpRuns /\ runs \in 0 .. MaxUpRuns
    /\ cancelled \in [Runs -> BOOLEAN] /\ capEnded \in [Runs -> BOOLEAN]
    /\ capture \in [Runs -> {"none", "on", "closed", "off"}]
    /\ filter \in [Runs -> Params \cup {NoParams}]
    /\ watcher \in [Runs -> {"none", "begin", "select", "got", "done"}]
    /\ watched \in [Runs -> 0 .. MaxUpRuns]
    /\ client \in [Runs -> {"none", "retry", "connect", "poll", "topup", "wait", "send",
                            "ack", "flush", "flushack", "closing", "done"}]
    /\ \A r \in Runs : /\ packets[r] \in Seq(1 .. MaxPackets) /\ Len(packets[r]) <= ChanCap
                       /\ pending[r] \in Seq(1 .. MaxPackets) /\ Len(pending[r]) <= BatchSize
                       /\ wire[r] \in Seq(Seq(1 .. MaxPackets))
    /\ stream \in [Runs -> {"up", "broken"}]
    /\ queue \in Seq(1 .. MaxPackets) /\ Len(queue) <= Quota /\ nextIdx \in 0 .. Len(queue)

\* A packet is confirmed only after it was sent (ingest.go:136-137, queue.go:100).
AckedWereSent == acked \subseteq sent

\* The server misses a packet earlier than one it has only if that packet was
\* confirmed and then lost with its stream: whatever is not confirmed is sent
\* again before anything newer (ingest.go:23-25).
ReceivedInOrder ==
    \A p \in received, q \in spooled : q < p => q \in received \/ q \in acked \cap lost

\* While the runner says running, the run it would cancel is the last one, that
\* run is not cancelled, and it captures with the parameters the runner reports:
\* the next Start with the same parameters may be skipped (capture_runner.go:194).
RunningAsReported ==
    state = "running" =>
        cancelFn = runs /\ ~cancelled[runs] /\ filter[runs] = params

\* No run but the current one is left uncancelled, so no capture goes on unseen.
NoOrphanRun == \A r \in 1 .. runs : cancelled[r] \/ (r = cancelFn /\ state = "running")

\* Every packet in the spool reaches the server unless the capture ends first,
\* or a stream broke after the packet was confirmed and before it arrived.
EverythingArrives ==
    \A p \in 1 .. MaxPackets :
        (p \in spooled) ~> (p \in received \/ p \in acked \cap lost \/ state # "running")

\* A capture that ends by itself while it is the current one is noticed: the
\* runner does not go on saying running (capture_pcap.go:82-83).
CaptureNoticed ==
    \A r \in Runs : (capture[r] = "closed" /\ runs = r) ~> (state # "running" \/ runs # r)

\* What gt-agent confirms it has sent, and the server receives the packets of a
\* run in the order they were captured, without a repetition out of order
\* (sendAndAck, Requeue).
PushedInOrder == UpTypeOK /\ AckedWereSent /\ ReceivedInOrder

\* A run that captures is the one the runner reports, with the reported
\* parameters, or it is cancelled (captureRunner.Start, UpdateFilter, Stop).
RunsTruthful == RunningAsReported /\ NoOrphanRun
=============================================================================
