---------------------------- MODULE CaptureTask ----------------------------
(***************************************************************************)
(* One capture session of gt-pipeline: the main loop of captureTask.run,   *)
(* the decode worker, the Dispatcher that owns the stream to a decoder     *)
(* plugin, the overflow queue of packets that cannot be decoded yet and    *)
(* the write buffers.                                                      *)
(*                                                                         *)
(* Packets are numbered in the order the main loop receives them; an event *)
(* is named by its packet.  Every select case of the main loop is an       *)
(* action, every take, submission and delivery of the worker another.      *)
(* Clients of the registry are numbers, 0 for none; so are dispatchers, in *)
(* the order they are made.  Byte limits and time-outs become counts and   *)
(* steps that may be taken.                                                *)
(***************************************************************************)
EXTENDS Naturals, Sequences, FiniteSets

CONSTANTS
    MaxPkts,       \* bound: packets the sources deliver
    DecodeCap,     \* decodeQueueSize
    DecodedCap,    \* decodedQueueSize
    Window,        \* decodeWindow
    PendMax,       \* pendingQueueMaxBytes, in packets
    BufMax,        \* rawBufMax, eventBufMax, stateChangeMax, in entries
    MaxDisp,       \* bound: dispatchers made
    MaxFaults      \* bound: failed writes, broken streams, plugin changes

ASSUME TaskAssumption ==
    /\ {DecodeCap, DecodedCap, Window, PendMax} \subseteq Nat \ {0}
    /\ {MaxPkts, BufMax, MaxDisp, MaxFaults} \subseteq Nat

VARIABLES
    ct,          \* [pc, state, stop, pcap, hand, got, tcp]: the task and its main loop
    pend,        \* pendingQueue: [items, dropped]
    decodeCh,    \* [q, closed]
    decodedCh,   \* [q, closed]
    wk,          \* the worker: [pkt, d, window]; pkt = 0 between packets
    fut,         \* Future of a packet: [d, st], st in none, pending, ok, empty, err
    disps,       \* dispatchers made: sequence of [client, closed, broken]
    dec,         \* [disp, client]: the current dispatcher and decoderClient
    reg,         \* [found, evt, resig]: what the registry resolves to, its event, t.reresolve
    buf,         \* write buffers: [raws, events, scs]
    db,          \* the session's database: [raws, events, scs]
    cnt,         \* [errs, rawOver, evOver, scOver] and ghosts [empty, skipped]
    taskFaults   \* faults left

taskVars == <<ct, pend, decodeCh, decodedCh, wk, fut, disps, dec, reg, buf, db, cnt, taskFaults>>

TaskPkts == 1..MaxPkts
Least(a, b) == IF a < b THEN a ELSE b
DropFirst(q, n) == SubSeq(q, n + 1, Len(q))

TaskInit ==
    /\ ct \in [pc : {"boot"}, state : {"created"}, stop : {FALSE}, pcap : BOOLEAN, hand : {0}, got : {0}, tcp : {0}]
    /\ pend = [items |-> <<>>, dropped |-> 0]
    /\ decodeCh = [q |-> <<>>, closed |-> FALSE]
    /\ decodedCh = [q |-> <<>>, closed |-> FALSE]
    /\ wk = [pkt |-> 0, d |-> 0, window |-> <<>>]
    /\ fut = [p \in TaskPkts |-> [d |-> 0, st |-> "none"]]
    /\ disps = <<>>
    /\ dec = [disp |-> 0, client |-> 0]
    /\ reg \in [found : {0, 1}, evt : {FALSE}, resig : {FALSE}]
    /\ buf = [raws |-> <<>>, events |-> <<>>, scs |-> <<>>]
    /\ db = [raws |-> <<>>, events |-> <<>>, scs |-> <<>>]
    /\ cnt = [errs |-> 0, rawOver |-> 0, evOver |-> 0, scOver |-> 0, empty |-> 0, skipped |-> 0]
    /\ taskFaults = MaxFaults

decodeSide == <<decodeCh, decodedCh, wk, fut, disps, dec>>
storeSide == <<buf, db>>

-----------------------------------------------------------------------------
\* The overflow queue and the way into the decode pipeline.  in is [pend, q]:
\* the overflow queue and the contents of decodeCh.

push(pe, p) ==
    LET items == Append(pe.items, p) IN
    IF Len(items) > PendMax /\ Len(items) > 1
    THEN [items |-> Tail(items), dropped |-> pe.dropped + 1]
    ELSE [pe EXCEPT !.items = items]

\* As many of the waiting packets as decodeCh has room for, while there is a decoder.
drainPending(in, on) ==
    LET n == IF on THEN Least(Len(in.pend.items), DecodeCap - Len(in.q)) ELSE 0 IN
    [pend |-> [in.pend EXCEPT !.items = DropFirst(@, n)], q |-> in.q \o SubSeq(in.pend.items, 1, n)]

\* Mutant: a packet that finds room goes ahead of those that wait.
feedDecode_JumpsQueue(in, on, p) ==
    IF on /\ Len(in.q) < DecodeCap
    THEN [in EXCEPT !.q = Append(@, p)]
    ELSE [in EXCEPT !.pend = push(@, p)]

\* Waiting packets first; a new one waits behind them.
feedDecode(in, on, p) ==
    LET d == drainPending(in, on) IN
    IF on /\ d.pend.items = <<>> /\ Len(d.q) < DecodeCap
    THEN [d EXCEPT !.q = Append(@, p)]
    ELSE [d EXCEPT !.pend = push(@, p)]

InQueues == [pend |-> pend, q |-> decodeCh.q]
PutQueues(in) == pend' = in.pend /\ decodeCh' = [decodeCh EXCEPT !.q = in.q]

-----------------------------------------------------------------------------
\* Writing.  A buffer whose write fails is kept, but for its oldest entries.

retainOnFailure(b) == DropFirst(b, IF Len(b) > BufMax THEN Len(b) - BufMax ELSE 0)
overflow(b) == IF Len(b) > BufMax THEN Len(b) - BufMax ELSE 0

\* State changes are written after events, and only when there were some.
flush(ok) ==
    LET scsToo == buf.events # <<>> /\ ok.events IN
    /\ buf' = [raws |-> IF ok.raws THEN <<>> ELSE retainOnFailure(buf.raws),
               events |-> IF ok.events THEN <<>> ELSE retainOnFailure(buf.events),
               scs |-> IF ~scsToo THEN buf.scs ELSE IF ok.scs THEN <<>> ELSE retainOnFailure(buf.scs)]
    /\ db' = [raws |-> IF ok.raws THEN db.raws \o buf.raws ELSE db.raws,
              events |-> IF ok.events THEN db.events \o buf.events ELSE db.events,
              scs |-> IF scsToo /\ ok.scs THEN db.scs \o buf.scs ELSE db.scs]
    /\ cnt' = [cnt EXCEPT !.rawOver = IF ok.raws THEN @ ELSE @ + overflow(buf.raws),
                          !.evOver = IF ok.events THEN @ ELSE @ + overflow(buf.events),
                          !.scOver = IF scsToo /\ ~ok.scs THEN @ + overflow(buf.scs) ELSE @]
    /\ IF ok = [raws |-> TRUE, events |-> TRUE, scs |-> TRUE] THEN UNCHANGED taskFaults
       ELSE taskFaults > 0 /\ taskFaults' = taskFaults - 1

Writes == [raws : BOOLEAN, events : BOOLEAN, scs : BOOLEAN]

\* What processDecoded adds for the batch at the head of decodedCh.
Processed == [buf EXCEPT !.events = Append(@, Head(decodedCh.q)), !.scs = Append(@, Head(decodedCh.q))]
processDecoded ==
    /\ decodedCh.q # <<>>
    /\ buf' = Processed
    /\ decodedCh' = [decodedCh EXCEPT !.q = Tail(@)]

-----------------------------------------------------------------------------
\* The decoder.

decoderAction(found, client, have) ==
    IF found = 0 THEN (IF have THEN "drop" ELSE "idle")
    ELSE IF found = client THEN "keep" ELSE "build"

failPending(f, d) == [p \in TaskPkts |-> IF f[p].d = d /\ f[p].st = "pending" THEN [f[p] EXCEPT !.st = "err"] ELSE f[p]]

Keep == [disp |-> dec.disp, client |-> dec.client, close |-> FALSE, make |-> FALSE]

\* What one call of resolveDecoder may do: nothing while throttled (3 s) or
\* backing off (5 s); otherwise a broken stream is closed and the registry's
\* answer is acted upon.  make: a dispatcher is made; opening it may fail.
ResolveOutcomes(force) ==
    LET broken == dec.disp # 0 /\ disps[dec.disp].broken
        have   == dec.disp # 0 /\ ~broken
        act    == decoderAction(reg.found, IF broken THEN 0 ELSE dec.client, have)
        none   == [disp |-> 0, client |-> 0, close |-> dec.disp # 0, make |-> FALSE]
    IN (IF dec.disp # 0 /\ (~force \/ broken) THEN {Keep} ELSE {}) \cup
       (IF act \in {"idle", "drop"} THEN {none}
        ELSE IF act = "keep" THEN {Keep}
        ELSE {none} \cup (IF Len(disps) = MaxDisp THEN {}
                          ELSE {[disp |-> Len(disps) + 1, client |-> reg.found, close |-> dec.disp # 0, make |-> TRUE]}))

\* Closing fails what is in flight; while there is no decoder the worker throws
\* away what it takes (lost of them here); a new decoder gets the waiting packets.
resolveDecoder(r, lost) ==
    /\ lost \in 0..(IF r.close /\ wk.pkt = 0 THEN Len(decodeCh.q) ELSE 0)
    /\ dec' = [disp |-> r.disp, client |-> r.client]
    /\ disps' = LET ds == IF r.close THEN [disps EXCEPT ![dec.disp].closed = TRUE] ELSE disps IN
                IF r.make THEN Append(ds, [client |-> r.client, closed |-> FALSE, broken |-> FALSE]) ELSE ds
    /\ fut' = IF r.close THEN failPending(fut, dec.disp) ELSE fut

AfterResolve(r, lost) ==
    LET in == [InQueues EXCEPT !.q = DropFirst(@, lost)] IN
    IF r.make THEN drainPending(in, TRUE) ELSE in

Skips(n) == [cnt EXCEPT !.skipped = @ + n]

-----------------------------------------------------------------------------
\* The main loop.

\* The error of protocolresolver.New: the task is closed and never runs.
TaskStart ==
    /\ ct.state = "created"
    /\ ct' \in {[ct EXCEPT !.state = "running"], [ct EXCEPT !.state = "closed"]}
    /\ UNCHANGED <<pend, decodeSide, reg, storeSide, cnt, taskFaults>>

\* Opening the sources; when it fails the worker keeps waiting for packets.
OpenCaptureSources ==
    /\ ct.pc = "boot" /\ ct.state = "running"
    /\ ct' \in {[ct EXCEPT !.pc = "loop"], [ct EXCEPT !.pc = "final"]}
    /\ UNCHANGED <<pend, decodeSide, reg, storeSide, cnt, taskFaults>>

InLoop == ct.pc = "loop"

OnReresolve ==
    /\ InLoop /\ reg.resig
    /\ reg' = [reg EXCEPT !.resig = FALSE]
    /\ \E r \in ResolveOutcomes(TRUE), n \in 0..DecodeCap :
          resolveDecoder(r, n) /\ PutQueues(AfterResolve(r, n)) /\ cnt' = Skips(n)
    /\ UNCHANGED <<ct, decodedCh, wk, storeSide, taskFaults>>

OnRegistryEvent ==
    /\ InLoop /\ reg.evt
    /\ reg' = [reg EXCEPT !.evt = FALSE]
    /\ \E r \in ResolveOutcomes(TRUE), n \in 0..DecodeCap :
          /\ resolveDecoder(r, n)
          /\ PutQueues(drainPending(AfterResolve(r, n), r.disp # 0))
          /\ cnt' = Skips(n)
    /\ UNCHANGED <<ct, decodedCh, wk, storeSide, taskFaults>>

\* Once a second: resolve, drain, flush (the flush is a step of its own).
OnTick ==
    /\ InLoop
    /\ \E r \in ResolveOutcomes(FALSE), n \in 0..DecodeCap :
          /\ resolveDecoder(r, n)
          /\ PutQueues(drainPending(AfterResolve(r, n), r.disp # 0))
          /\ cnt' = Skips(n)
    /\ ct' = [ct EXCEPT !.pc = "tick"]
    /\ UNCHANGED <<decodedCh, wk, reg, storeSide, taskFaults>>

TickFlushes ==
    /\ ct.pc = "tick"
    /\ \E ok \in Writes : flush(ok)
    /\ ct' = [ct EXCEPT !.pc = "loop"]
    /\ UNCHANGED <<pend, decodeSide, reg>>

OnDecoded ==
    /\ InLoop
    /\ processDecoded
    /\ UNCHANGED <<ct, pend, decodeCh, wk, fut, disps, dec, reg, db, cnt, taskFaults>>

\* A packet: raw first, then to the decoder if it is tcp; a replayed file waits
\* for room (pc = replay), a live capture does not.
OnPacket ==
    LET p == ct.got + 1 IN
    /\ InLoop /\ p <= MaxPkts
    /\ buf' = [buf EXCEPT !.raws = Append(@, p)]
    /\ \E r \in ResolveOutcomes(FALSE), n \in 0..DecodeCap, isTcp \in BOOLEAN :
          LET in == AfterResolve(r, n) IN
          /\ resolveDecoder(r, n)
          /\ cnt' = Skips(n)
          /\ ct' = [ct EXCEPT !.got = p, !.tcp = @ + (IF isTcp THEN 1 ELSE 0),
                              !.pc = IF isTcp /\ ct.pcap THEN "replay" ELSE @,
                              !.hand = IF isTcp /\ ct.pcap THEN p ELSE 0]
          /\ PutQueues(IF isTcp /\ ~ct.pcap THEN feedDecode(in, r.disp # 0, p) ELSE in)
    /\ UNCHANGED <<decodedCh, wk, reg, db, taskFaults>>

ReplaySends ==
    /\ ct.pc = "replay"
    /\ Len(decodeCh.q) < DecodeCap
    /\ IF pend.items = <<>>
       THEN /\ decodeCh' = [decodeCh EXCEPT !.q = Append(@, ct.hand)]
            /\ ct' = [ct EXCEPT !.pc = "loop", !.hand = 0]
            /\ UNCHANGED pend
       ELSE /\ decodeCh' = [decodeCh EXCEPT !.q = Append(@, Head(pend.items))]
            /\ pend' = [pend EXCEPT !.items = Tail(@)]
            /\ UNCHANGED ct
    /\ UNCHANGED <<decodedCh, wk, fut, disps, dec, reg, storeSide, cnt, taskFaults>>

ReplayStops ==
    /\ ct.pc = "replay" /\ ct.stop
    /\ ct' = [ct EXCEPT !.pc = "loop", !.hand = 0]
    /\ cnt' = Skips(1)
    /\ UNCHANGED <<pend, decodeSide, reg, storeSide, taskFaults>>

Leaves ==
    /\ InLoop
    /\ ct' = [ct EXCEPT !.pc = "drain"]
    /\ UNCHANGED <<pend, decodeSide, reg, storeSide, cnt, taskFaults>>

OnStop == ct.stop /\ Leaves

\* The packet channel is closed: the last source ended by itself.
SourcesEnd == ~ct.stop /\ Leaves

\* drainPendingBlocking: at most five seconds, less when ctx is done.
DrainSends ==
    /\ ct.pc = "drain" /\ dec.disp # 0
    /\ pend.items # <<>> /\ Len(decodeCh.q) < DecodeCap
    /\ decodeCh' = [decodeCh EXCEPT !.q = Append(@, Head(pend.items))]
    /\ pend' = [pend EXCEPT !.items = Tail(@)]
    /\ UNCHANGED <<ct, decodedCh, wk, fut, disps, dec, reg, storeSide, cnt, taskFaults>>

\* Mutant: once decodeCh is closed nothing more is taken from the worker.
BlockedProcesses_NotAtClose ==
    /\ ct.pc \in {"replay", "drain"}
    /\ processDecoded
    /\ UNCHANGED <<ct, pend, decodeCh, wk, fut, disps, dec, reg, db, cnt, taskFaults>>

\* While the main loop waits for room, or for the worker, it takes what is decoded.
BlockedProcesses ==
    /\ ct.pc \in {"replay", "drain", "close"}
    /\ processDecoded
    /\ UNCHANGED <<ct, pend, decodeCh, wk, fut, disps, dec, reg, db, cnt, taskFaults>>

DrainEnds ==
    /\ ct.pc = "drain"
    /\ ct' = [ct EXCEPT !.pc = "close"]
    /\ decodeCh' = [decodeCh EXCEPT !.closed = TRUE]
    /\ UNCHANGED <<pend, decodedCh, wk, fut, disps, dec, reg, storeSide, cnt, taskFaults>>

\* shutdownDecode: with decodeCh closed, what is decoded is taken until the
\* worker is done; then the final flush.
shutdownDecode ==
    /\ ct.pc = "close"
    /\ decodedCh.closed /\ decodedCh.q = <<>>
    /\ ct' = [ct EXCEPT !.pc = "last"]
    /\ \E ok \in Writes : flush(ok)
    /\ UNCHANGED <<pend, decodeSide, reg>>

\* The deferred finalize: once more the final flush, then the state, the
\* database and the service (onFinalize).
TaskFinalize ==
    /\ ct.pc \in {"last", "final"}
    /\ ct' = [ct EXCEPT !.pc = "done", !.state = "closed"]
    /\ \E ok \in Writes : flush(ok)
    /\ UNCHANGED <<pend, decodeSide, reg>>

\* Stop: StopSession, StopAll or Close of the service.
TaskStop ==
    /\ ct.state = "running" /\ ~ct.stop
    /\ ct' = [ct EXCEPT !.stop = TRUE]
    /\ UNCHANGED <<pend, decodeSide, reg, storeSide, cnt, taskFaults>>

\* SetSessionPlugin: another plugin name; the registry answers something else.
SetSessionPlugin(found) ==
    /\ ct.state = "running"
    /\ taskFaults > 0 /\ taskFaults' = taskFaults - 1
    /\ found # reg.found
    /\ reg' = [reg EXCEPT !.found = found, !.resig = TRUE]
    /\ UNCHANGED <<ct, pend, decodeSide, storeSide, cnt>>

\* A plugin comes or goes: Subscribe's channel tells the loop.
PluginChanges(found) ==
    /\ taskFaults > 0 /\ taskFaults' = taskFaults - 1
    /\ found # reg.found
    /\ reg' = [reg EXCEPT !.found = found, !.evt = TRUE]
    /\ UNCHANGED <<ct, pend, decodeSide, storeSide, cnt>>

-----------------------------------------------------------------------------
\* The decode worker and the Dispatcher.

\* Takes a packet and the dispatcher of that moment.
WorkerTakes ==
    /\ wk.pkt = 0 /\ Len(wk.window) < Window
    /\ decodeCh.q # <<>>
    /\ decodeCh' = [decodeCh EXCEPT !.q = Tail(@)]
    /\ IF dec.disp = 0 THEN cnt' = Skips(1) /\ UNCHANGED wk
       ELSE wk' = [wk EXCEPT !.pkt = Head(decodeCh.q), !.d = dec.disp] /\ UNCHANGED cnt
    /\ UNCHANGED <<ct, pend, decodedCh, fut, disps, dec, reg, storeSide, taskFaults>>

\* Submit: refused when the dispatcher is closed; on a broken stream the send
\* fails, or succeeds and the request waits for a receive loop that has ended.
Submit ==
    /\ wk.pkt # 0
    /\ \/ /\ ~disps[wk.d].closed
          /\ fut' = [fut EXCEPT ![wk.pkt] = [d |-> wk.d, st |-> "pending"]]
          /\ wk' = [wk EXCEPT !.pkt = 0, !.window = Append(@, wk.pkt)]
          /\ UNCHANGED <<reg, cnt>>
       \/ /\ disps[wk.d].closed \/ disps[wk.d].broken
          /\ cnt' = [cnt EXCEPT !.errs = @ + 1]
          /\ reg' = [reg EXCEPT !.resig = TRUE]
          /\ wk' = [wk EXCEPT !.pkt = 0]
          /\ UNCHANGED fut
    /\ UNCHANGED <<ct, pend, decodeCh, decodedCh, disps, dec, storeSide, taskFaults>>

\* Mutant: a failed decode is not counted.
WaitFails_Uncounted == reg' = [reg EXCEPT !.resig = TRUE] /\ UNCHANGED cnt

WaitFails == reg' = [reg EXCEPT !.resig = TRUE] /\ cnt' = [cnt EXCEPT !.errs = @ + 1]

\* drainHead: the oldest request in flight is waited for once the window is
\* full or decodeCh is closed and empty; a plugin that does not answer in
\* decodeWaitTimeout counts as an error, its answer will be thrown away.
drainHead ==
    LET p == Head(wk.window) IN
    /\ wk.pkt = 0 /\ wk.window # <<>>
    /\ Len(wk.window) = Window \/ (decodeCh.closed /\ decodeCh.q = <<>>)
    /\ wk' = [wk EXCEPT !.window = Tail(@)]
    /\ CASE fut[p].st = "ok" -> /\ Len(decodedCh.q) < DecodedCap
                               /\ decodedCh' = [decodedCh EXCEPT !.q = Append(@, p)]
                               /\ UNCHANGED <<reg, cnt>>
         [] fut[p].st = "empty" -> /\ cnt' = [cnt EXCEPT !.empty = @ + 1]
                                  /\ UNCHANGED <<decodedCh, reg>>
         [] OTHER -> WaitFails /\ UNCHANGED decodedCh
    /\ UNCHANGED <<ct, pend, decodeCh, fut, disps, dec, storeSide, taskFaults>>

WorkerExits ==
    /\ decodeCh.closed /\ decodeCh.q = <<>>
    /\ wk.pkt = 0 /\ wk.window = <<>> /\ ~decodedCh.closed
    /\ decodedCh' = [decodedCh EXCEPT !.closed = TRUE]
    /\ UNCHANGED <<ct, pend, decodeCh, wk, fut, disps, dec, reg, storeSide, cnt, taskFaults>>

\* recvLoop: the plugin answers the requests in flight, in any order, with
\* events or with none.
recvLoop(p) ==
    /\ fut[p].st = "pending" /\ ~disps[fut[p].d].broken /\ ~disps[fut[p].d].closed
    /\ \E st \in {"ok", "empty"} : fut' = [fut EXCEPT ![p].st = st]
    /\ UNCHANGED <<ct, pend, decodeCh, decodedCh, wk, disps, dec, reg, storeSide, cnt, taskFaults>>

\* The stream fails: everything in flight does, and IsHealthy is false.
failAllPending(d) ==
    /\ ~disps[d].broken /\ ~disps[d].closed
    /\ taskFaults > 0 /\ taskFaults' = taskFaults - 1
    /\ disps' = [disps EXCEPT ![d].broken = TRUE]
    /\ fut' = failPending(fut, d)
    /\ UNCHANGED <<ct, pend, decodeCh, decodedCh, wk, dec, reg, storeSide, cnt>>

-----------------------------------------------------------------------------
Worker == WorkerTakes \/ Submit \/ drainHead \/ WorkerExits

Ending ==
    \/ TickFlushes \/ ReplayStops \/ OpenCaptureSources
    \/ BlockedProcesses \/ DrainEnds \/ shutdownDecode \/ TaskFinalize

TaskNext ==
    \/ TaskStart \/ Worker \/ Ending
    \/ OnReresolve \/ OnRegistryEvent \/ OnTick \/ OnDecoded \/ OnPacket
    \/ ReplaySends \/ OnStop \/ SourcesEnd \/ DrainSends \/ TaskStop
    \/ \E n \in 0..1 : SetSessionPlugin(n) \/ PluginChanges(n)
    \/ \E p \in TaskPkts : recvLoop(p)
    \/ \E d \in DOMAIN disps : failAllPending(d)

\* The goroutines run; select takes a ready case again and again; waiting for
\* a plugin ends by its timer.
TaskFairness ==
    /\ WF_taskVars(Worker)
    /\ WF_taskVars(Ending)
    /\ SF_taskVars(OnStop)

TaskSpec == TaskInit /\ [][TaskNext]_taskVars /\ TaskFairness

-----------------------------------------------------------------------------
\* What has been decoded is stored, and will be stored, in the order in which
\* the packets were captured, across full queues, time-outs, failed writes and
\* changes of decoder (feedDecode, pending_decode.go).
DecodedInOrder ==
    LET evs == db.events \o buf.events \o decodedCh.q IN
    \A i, j \in DOMAIN evs : i < j => evs[i] < evs[j]

\* Every tcp packet the loop has taken is in exactly one place: waiting, in a
\* queue, in flight, decoded, answered without an event, or counted as an
\* error, as dropped, or as met by a worker without a decoder (capture_task.go,
\* taskStats).
DecodeAccounted ==
    ct.tcp = Len(pend.items) + pend.dropped + (IF ct.hand = 0 THEN 0 ELSE 1)
             + Len(decodeCh.q) + (IF wk.pkt = 0 THEN 0 ELSE 1) + Len(wk.window) + Len(decodedCh.q)
             + Len(buf.events) + Len(db.events)
             + cnt.errs + cnt.empty + cnt.skipped + cnt.evOver

\* No raw packet is lost or written twice, in spite of failing writes: it is in
\* the database, in the buffer or counted in OverflowDrops (retainOnFailure).
RawKept ==
    /\ ct.got = Len(db.raws) + Len(buf.raws) + cnt.rawOver
    /\ \A i, j \in DOMAIN (db.raws \o buf.raws) : i < j => (db.raws \o buf.raws)[i] < (db.raws \o buf.raws)[j]

\* Every packet of the session is accounted for, decoded and stored.
PacketsAccounted == DecodeAccounted /\ RawKept

\* A task that is told to stop comes to its end, whatever its decoder and its
\* database do (drainPendingBlocking, shutdownDecode).
TaskEnds == (ct.state = "running" /\ ct.stop) ~> ct.pc = "done"

\* State changes that could not be written are kept for another try: once a
\* later flush finds the database working, none is left behind.
ChangesRetried ==
    [][ct'.pc = "done" /\ ct.pc # "done" /\ taskFaults' = taskFaults => buf'.scs = <<>>]_taskVars

=============================================================================
