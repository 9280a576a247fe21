----------------------------- MODULE IngestHub ------------------------------
(***************************************************************************)
(* The server's end of the agents' streams: Push handlers (IngestServer),   *)
(* the Hub that routes their packets by session, and the capture sources    *)
(* that subscribe to it.  Deliver takes a snapshot of the subscribers under *)
(* the Hub's lock and sends outside it, waiting a while for a full channel; *)
(* a source unsubscribes, waits for the deliveries under way and closes its *)
(* channel.  A packet is the stream it came by and the number under which   *)
(* it was pushed.                                                           *)
(***************************************************************************)
EXTENDS Integers, Sequences, FiniteSets

CONSTANTS
    Sessions, Existing,  \* session ids, and those in the store
    SessionOwner,        \* session -> its owner
    Principals,          \* [owner, probe] of an authenticated stream
    NoProbe, NoSession,
    Probes,
    Sources,             \* capture sources
    Streams,             \* Push calls
    ChannelSize,         \* capacity of a source's channel
    MaxBatch,            \* packets of a batch
    MaxPackets,          \* bound: packets pushed in a behaviour
    MaxAssigns           \* bound: changes of a session's probe

ASSUME HubAssumption ==
    /\ Existing \subseteq Sessions /\ NoSession \notin Sessions /\ NoProbe \notin Probes
    /\ ChannelSize \in Nat \ {0} /\ MaxBatch \in Nat \ {0} /\ MaxPackets \in Nat /\ MaxAssigns \in Nat
    /\ \A p \in Principals : p.probe \in Probes \cup {NoProbe}
    /\ IsFiniteSet(Streams) /\ IsFiniteSet(Sources)

VARIABLES
    subs,       \* Hub.subs: session -> subscribed sources
    source,     \* source -> [st, session]
    ch,         \* source -> its channel
    inflight,   \* source -> Subscription.inflight
    stream,     \* Push call -> [st, as, bound, session, pkts, order, at]
    live,       \* session -> sessionLiveness.streams
    touched,    \* sessions whose lastSeen is set
    assigned,   \* session -> the probe it is assigned to
    pushed,     \* packets pushed so far
    got,        \* source -> packets its consumer has read
    offered, delivered, droppedBusy, droppedNoSub,  \* totals of the Hub
    assigns

hub == <<subs, inflight, delivered, droppedBusy, droppedNoSub>>
vars == <<hub, source, ch, stream, live, touched, assigned, pushed, got, offered, assigns>>

Nobody == [owner |-> "", probe |-> NoProbe]
NoStream == [st |-> "none", as |-> Nobody, bound |-> NoSession, session |-> NoSession,
             pkts |-> <<>>, order |-> <<>>, at |-> 1]

Init ==
    /\ subs = [se \in Sessions |-> {}] /\ inflight = [s \in Sources |-> 0]
    /\ delivered = 0 /\ droppedBusy = 0 /\ droppedNoSub = 0 /\ offered = 0
    /\ source = [s \in Sources |-> [st |-> "created", session |-> NoSession]]
    /\ ch = [s \in Sources |-> <<>>] /\ got = [s \in Sources |-> <<>>]
    /\ stream = [p \in Streams |-> NoStream]
    /\ live = [se \in Sessions |-> 0] /\ touched = {}
    /\ assigned = [se \in Sessions |-> NoProbe] /\ assigns = 0
    /\ pushed = 0

-----------------------------------------------------------------------------
(* Push *)

(* openStream and closeStream *)
Opened(l, se) == IF se = NoSession THEN l ELSE [l EXCEPT ![se] = @ + 1]
Closed(l, se) == IF se = NoSession \/ l[se] = 0 THEN l ELSE [l EXCEPT ![se] = @ - 1]

(* A stream opens; new agents name its session in the metadata, which is    *)
(* not checked.                                                             *)
PushOpens(p, as, se) ==
    /\ stream[p].st = "none"
    /\ stream' = [stream EXCEPT ![p].st = "open", ![p].as = as, ![p].bound = se]
    /\ live' = Opened(live, se)
    /\ UNCHANGED <<hub, source, ch, touched, assigned, pushed, got, offered, assigns>>

authorize_AnyOwner(as, se) == se \in Existing /\ (as.probe # NoProbe => assigned[se] \in {NoProbe, as.probe})
authorize(as, se) ==
    /\ se \in Existing /\ SessionOwner[se] = as.owner
    /\ as.probe # NoProbe => assigned[se] \in {NoProbe, as.probe}

(* A batch that is not authorized is counted and skipped. *)
PushRejects(p, se) ==
    /\ stream[p].st = "open" /\ ~authorize(stream[p].as, se)
    /\ UNCHANGED vars

(* A batch is authorized: an old agent's stream is bound to its session now.*)
PushAccepts(p, se, n) ==
    /\ stream[p].st = "open" /\ authorize(stream[p].as, se) /\ pushed + n <= MaxPackets
    /\ pushed' = pushed + n
    /\ stream' = [stream EXCEPT ![p].st = "accepted", ![p].session = se, ![p].pkts = [i \in 1..n |-> <<p, pushed + i>>],
                                ![p].bound = IF @ = NoSession THEN se ELSE @]
    /\ live' = IF stream[p].bound = NoSession THEN Opened(live, se) ELSE live
    /\ touched' = IF n > 0 THEN touched \cup {se} ELSE touched
    /\ UNCHANGED <<hub, source, ch, assigned, got, offered, assigns>>

(* A Deliver that is over leaves the stream open for the next batch. *)
Reopened(r) == [NoStream EXCEPT !.st = "open", !.as = r.as, !.bound = r.bound]

(* Deliver starts: without subscribers the batch is dropped, otherwise they *)
(* are counted in, in the order of a map.                                   *)
Orders(S) == {q \in [1..Cardinality(S) -> S] : \A i, j \in DOMAIN q : q[i] = q[j] => i = j}
Deliver(p) ==
    LET to == subs[stream[p].session]
        n == Len(stream[p].pkts)
    IN  /\ stream[p].st = "accepted"
        /\ IF to = {}
           THEN /\ stream' = [stream EXCEPT ![p] = Reopened(@)]
                /\ droppedNoSub' = droppedNoSub + n /\ offered' = offered + n
                /\ UNCHANGED inflight
           ELSE /\ \E q \in Orders(to) : stream' = [stream EXCEPT ![p].st = "sending", ![p].order = q]
                /\ inflight' = [s \in Sources |-> IF s \in to THEN inflight[s] + 1 ELSE inflight[s]]
                /\ offered' = offered + n * Cardinality(to)
                /\ UNCHANGED droppedNoSub
        /\ UNCHANGED <<subs, delivered, droppedBusy, source, ch, live, touched, assigned, pushed, got, assigns>>

(* The packet and the subscriber whose turn it is. *)
Target(p) == stream[p].order[stream[p].at]

(* The next subscriber, or the next packet with the first one. *)
Advanced(r) ==
    IF r.at < Len(r.order) THEN [r EXCEPT !.st = "sending", !.at = @ + 1]
                           ELSE [r EXCEPT !.st = "sending", !.at = 1, !.pkts = Tail(@)]

Sends(p) ==
    LET s == Target(p)
    IN  /\ stream[p].st \in {"sending", "waiting"} /\ stream[p].pkts # <<>>
        /\ Len(ch[s]) < ChannelSize
        /\ ch' = [ch EXCEPT ![s] = Append(@, Head(stream[p].pkts))]
        /\ delivered' = delivered + 1
        /\ stream' = [stream EXCEPT ![p] = Advanced(@)]
        /\ UNCHANGED <<subs, inflight, droppedBusy, droppedNoSub, source, live, touched, assigned, pushed, got, offered, assigns>>

(* The channel is full: the send waits, up to the timeout. *)
SendWaits(p) ==
    /\ stream[p].st = "sending" /\ stream[p].pkts # <<>> /\ Len(ch[Target(p)]) = ChannelSize
    /\ stream' = [stream EXCEPT ![p].st = "waiting"]
    /\ UNCHANGED <<hub, source, ch, live, touched, assigned, pushed, got, offered, assigns>>

SendTimesOut_Uncounted(p) ==
    /\ stream[p].st = "waiting"
    /\ stream' = [stream EXCEPT ![p] = Advanced(@)]
    /\ UNCHANGED <<hub, source, ch, live, touched, assigned, pushed, got, offered, assigns>>

SendTimesOut_Retries(p) ==
    /\ stream[p].st = "waiting"
    /\ stream' = [stream EXCEPT ![p].st = "sending", ![p].at = 1, ![p].pkts = Append(Tail(@), Head(@))]
    /\ UNCHANGED <<hub, source, ch, live, touched, assigned, pushed, got, offered, assigns>>

SendTimesOut(p) ==
    /\ stream[p].st = "waiting"
    /\ droppedBusy' = droppedBusy + 1
    /\ stream' = [stream EXCEPT ![p] = Advanced(@)]
    /\ UNCHANGED <<subs, inflight, delivered, droppedNoSub, source, ch, live, touched, assigned, pushed, got, offered, assigns>>

(* Deliver returns: only now are its subscribers counted out. *)
DeliverReturns_NotCounted(p) ==
    /\ stream[p].st = "sending" /\ stream[p].pkts = <<>>
    /\ stream' = [stream EXCEPT ![p] = Reopened(@)]
    /\ UNCHANGED <<hub, source, ch, live, touched, assigned, pushed, got, offered, assigns>>

DeliverReturns(p) ==
    /\ stream[p].st = "sending" /\ stream[p].pkts = <<>>
    /\ inflight' = [s \in Sources |-> IF \E i \in DOMAIN stream[p].order : stream[p].order[i] = s
                                      THEN inflight[s] - 1 ELSE inflight[s]]
    /\ stream' = [stream EXCEPT ![p] = Reopened(@)]
    /\ UNCHANGED <<subs, delivered, droppedBusy, droppedNoSub, source, ch, live, touched, assigned, pushed, got, offered, assigns>>

(* Recv ends the stream, with an error or with EOF and the PushAck. *)
PushReturns_StillLive(p) ==
    /\ stream[p].st = "open"
    /\ stream' = [stream EXCEPT ![p].st = "ended"]
    /\ UNCHANGED <<hub, source, ch, live, touched, assigned, pushed, got, offered, assigns>>

PushReturns(p) ==
    /\ stream[p].st = "open"
    /\ stream' = [stream EXCEPT ![p].st = "ended"]
    /\ live' = Closed(live, stream[p].bound)
    /\ UNCHANGED <<hub, source, ch, touched, assigned, pushed, got, offered, assigns>>

(* The probe manager gives the session to a probe, or takes it back. *)
Assign(se, probe) ==
    /\ assigns < MaxAssigns /\ assigned[se] # probe
    /\ assigned' = [assigned EXCEPT ![se] = probe] /\ assigns' = assigns + 1
    /\ UNCHANGED <<hub, source, ch, stream, live, touched, pushed, got, offered>>

-----------------------------------------------------------------------------
(* A source: Start subscribes; at the end of its context it unsubscribes,   *)
(* waits for the deliveries under way and closes the channel.               *)

SourceUnchanged == UNCHANGED <<stream, live, touched, assigned, pushed, offered, delivered, droppedBusy, droppedNoSub, assigns>>

Start(s, se) ==
    /\ source[s].st = "created"
    /\ source' = [source EXCEPT ![s] = [st |-> "running", session |-> se]]
    /\ subs' = [subs EXCEPT ![se] = @ \cup {s}]
    /\ UNCHANGED <<ch, inflight, got>> /\ SourceUnchanged

(* Lifecycle.Close or the end of the session's context, then cancel up to   *)
(* the point where it waits.                                                *)
Unsubscribes(s) ==
    /\ source[s].st = "running"
    /\ source' = [source EXCEPT ![s].st = "waiting"]
    /\ subs' = [subs EXCEPT ![source[s].session] = @ \ {s}]
    /\ UNCHANGED <<ch, inflight, got>> /\ SourceUnchanged

MayClose_AtOnce(s) == TRUE
MayClose_Drained(s) == inflight[s] = 0 /\ ch[s] = <<>>
MayClose(s) == inflight[s] = 0

ClosesChannel(s) ==
    /\ source[s].st = "waiting" /\ MayClose(s)
    /\ source' = [source EXCEPT ![s].st = "closed"]
    /\ UNCHANGED <<subs, ch, inflight, got>> /\ SourceUnchanged

(* The capture loop reads the channel as long as it wants. *)
Reads(s) ==
    /\ ch[s] # <<>>
    /\ got' = [got EXCEPT ![s] = Append(@, Head(ch[s]))]
    /\ ch' = [ch EXCEPT ![s] = Tail(@)]
    /\ UNCHANGED <<source, subs, inflight>> /\ SourceUnchanged

Delivering(p) == Deliver(p) \/ Sends(p) \/ SendWaits(p) \/ SendTimesOut(p) \/ DeliverReturns(p)

Next ==
    \/ \E p \in Streams :
          \/ \E as \in Principals, se \in Sessions \cup {NoSession} : PushOpens(p, as, se)
          \/ \E se \in Sessions : PushRejects(p, se) \/ \E n \in 0..MaxBatch : PushAccepts(p, se, n)
          \/ Delivering(p) \/ PushReturns(p)
    \/ \E se \in Sessions, probe \in Probes \cup {NoProbe} : Assign(se, probe)
    \/ \E s \in Sources : (\E se \in Existing : Start(s, se)) \/ Unsubscribes(s) \/ ClosesChannel(s) \/ Reads(s)

Spec == Init /\ [][Next]_vars

(* Handlers run and timers fire; nobody need read a channel. *)
FairSpec ==
    /\ Spec /\ \A p \in Streams : WF_vars(Delivering(p))
    /\ \A s \in Sources : WF_vars(ClosesChannel(s))

-----------------------------------------------------------------------------
(* Properties *)

TypeOK ==
    /\ subs \in [Sessions -> SUBSET Sources] /\ inflight \in [Sources -> 0..Cardinality(Streams)]
    /\ \A s \in Sources : /\ source[s].st \in {"created", "running", "waiting", "closed"}
                          /\ source[s].session \in Sessions \cup {NoSession}
                          /\ ch[s] \in Seq(Streams \X (1..MaxPackets)) /\ Len(ch[s]) <= ChannelSize
                          /\ got[s] \in Seq(Streams \X (1..MaxPackets))
    /\ \A p \in Streams : /\ stream[p].st \in {"none", "open", "accepted", "sending", "waiting", "ended"}
                          /\ stream[p].as \in Principals \cup {Nobody}
                          /\ stream[p].bound \in Sessions \cup {NoSession}
                          /\ stream[p].session \in Sessions \cup {NoSession}
                          /\ stream[p].pkts \in Seq(Streams \X (1..MaxPackets)) /\ stream[p].order \in Seq(Sources)
    /\ live \in [Sessions -> 0..Cardinality(Streams)] /\ touched \subseteq Sessions
    /\ assigned \in [Sessions -> Probes \cup {NoProbe}] /\ pushed \in 0..MaxPackets
    /\ {offered, delivered, droppedBusy, droppedNoSub, assigns} \subseteq Nat

(* No Deliver holds a subscriber whose channel is closed: a send on it      *)
(* would panic the server.  The wait in cancel covers every snapshot.       *)
NoSendOnClosed ==
    \A p \in Streams : \A i \in DOMAIN stream[p].order :
        stream[p].pkts # <<>> => source[stream[p].order[i]].st # "closed"

(* What a running Deliver has still to send, and that of all of them. *)
Left(r) ==
    IF r.st \notin {"sending", "waiting"} \/ r.pkts = <<>> THEN 0
    ELSE Len(r.pkts) * Len(r.order) - (r.at - 1)
ToSend == UNION {{p} \X (1..Left(stream[p])) : p \in Streams}

(* Every packet offered to a subscriber is delivered, counted as dropped,   *)
(* or still in a Deliver that runs: a drop is always recorded (hub.go       *)
(* 38-41).                                                                  *)
DropsRecorded ==
    offered = delivered + droppedBusy + droppedNoSub + Cardinality(ToSend)

(* SessionLiveness reports a session connected exactly while a stream bound *)
(* to it is open, although the binding may come with the first batch and    *)
(* later batches may name other sessions.                                   *)
ConnectedIsTrue ==
    \A se \in Sessions :
        live[se] = Cardinality({p \in Streams : stream[p].st \notin {"none", "ended"} /\ stream[p].bound = se})

(* A batch that is being delivered goes to sources of the session it names, *)
(* and comes from that session's owner.                                     *)
RightSession ==
    \A p \in Streams : \A i \in DOMAIN stream[p].order :
        /\ source[stream[p].order[i]].session = stream[p].session
        /\ SessionOwner[stream[p].session] = stream[p].as.owner

(* What a consumer reads, followed by what waits in its channel, has the    *)
(* packets of each stream in the order in which they were pushed, none      *)
(* twice, also when some in between were dropped (hub.go 184-185).          *)
ReadInOrder ==
    \A s \in Sources : LET q == got[s] \o ch[s] IN
        \A i, j \in DOMAIN q : i < j /\ q[i][1] = q[j][1] => q[i][2] < q[j][2]

(* A source that unsubscribes closes its channel in the end, even if nobody *)
(* reads it any more: Close does not hang.                                  *)
CloseReturns == \A s \in Sources : source[s].st = "waiting" ~> source[s].st = "closed"

\* Every packet a stream pushed is read by the consumer, in the stream's order,
\* or counted as dropped, or on its way (Hub.Deliver).
DeliveryRecorded == DropsRecorded /\ ReadInOrder

\* A packet reaches only the session it names and its stream may use, and a
\* session is shown as connected exactly while a stream is bound to it.
BindingTruthful == TypeOK /\ ConnectedIsTrue /\ RightSession
=============================================================================
