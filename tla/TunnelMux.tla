----------------------------- MODULE TunnelMux ------------------------------
(***************************************************************************)
(* One reverse tunnel: logical DecodeV2 streams multiplexed over a plugin's *)
(* Connect stream.  Four kinds of goroutine meet on a logical stream: the   *)
(* Connect call's receive loop, which delivers responses to its bounded     *)
(* queue and ends it; the watcher of the caller's context; the caller in   *)
(* DecodeV2 and Recv; and, through the session's end, every other stream.   *)
(*                                                                          *)
(* finish runs once: it stores the error and closes done (fin = "done"),    *)
(* then cancels the stream's context (fin = "yes"); a second caller waits   *)
(* for the first.  A response is its number, an end its error, "eof" for    *)
(* the nil one that Recv turns into io.EOF.                                 *)
(* The receive loop itself closes the session, so the case of a session     *)
(* closed under a delivery cannot happen and is left out.                   *)
(***************************************************************************)
EXTENDS Integers, Sequences, FiniteSets

CONSTANTS
    Streams,       \* logical streams, one DecodeV2 call each
    QueueSize,     \* respQueueSize
    Readers,       \* bound: streams whose caller calls Recv
    Cancellers,    \* bound: streams whose caller may cancel
    Talkers,       \* bound: streams the plugin answers on
    MaxResponses   \* bound: responses of a stream

ASSUME MuxAssumption ==
    /\ QueueSize \in Nat \ {0} /\ MaxResponses \in Nat
    /\ Readers \subseteq Streams /\ Cancellers \subseteq Streams /\ Talkers \subseteq Streams

VARIABLES
    broken,     \* the Connect stream has ended
    closed,     \* tunnelSession.closed
    table,      \* tunnelSession.streams
    loop,       \* the receive loop: where it is, for which stream, with which value
    toFinish,   \* streams that close has still to finish
    frames,     \* frames from the plugin
    call,       \* stream -> DecodeV2: "none", "checked", "open", "refused"
    gaveUp,     \* stream -> the caller's context is cancelled
    respCh,     \* stream -> pendingStream.respCh
    fin,        \* stream -> pendingStream.finish: "no", "done", "yes"
    endErr,     \* stream -> pendingStream.endErr
    watch,      \* stream -> the goroutine DecodeV2 starts
    rcv,        \* stream -> where the caller is in Recv
    got,        \* stream -> responses Recv has returned
    result,     \* stream -> the error Recv has returned
    said, ended \* stream -> what the plugin has sent

caller == <<rcv, got, result>>
plugin == <<said, ended>>
muxVars == <<broken, closed, table, loop, toFinish, frames, call, gaveUp, respCh,
          fin, endErr, watch, caller, plugin>>

Errors == {"eof", "plugin", "overflow", "session", "context"}
Idle == [pc |-> "recv", on |-> {}, val |-> 0, err |-> "eof"]

MuxInit ==
    /\ broken = FALSE /\ closed = FALSE /\ table = {} /\ loop = Idle /\ toFinish = {} /\ frames = <<>>
    /\ call = [s \in Streams |-> "none"] /\ gaveUp = [s \in Streams |-> FALSE]
    /\ respCh = [s \in Streams |-> <<>>]
    /\ fin = [s \in Streams |-> "no"] /\ endErr = [s \in Streams |-> "eof"]
    /\ watch = [s \in Streams |-> "none"] /\ rcv = [s \in Streams |-> "idle"]
    /\ got = [s \in Streams |-> <<>>] /\ result = [s \in Streams |-> "none"]
    /\ said = [s \in Streams |-> 0] /\ ended = [s \in Streams |-> "no"]

Done(s) == fin[s] # "no"
(* The stream's context: a child of the caller's that finish also cancels. *)
CtxDone(s) == gaveUp[s] \/ fin[s] = "yes"

-----------------------------------------------------------------------------
(* The plugin, and the end of the Connect stream. *)

PluginResponds(s) ==
    /\ s \in Talkers /\ ~broken /\ call[s] = "open" /\ ended[s] = "no" /\ said[s] < MaxResponses
    /\ said' = [said EXCEPT ![s] = @ + 1]
    /\ frames' = Append(frames, [on |-> s, kind |-> "response", val |-> said'[s], err |-> "eof"])
    /\ UNCHANGED <<broken, closed, table, loop, toFinish, call, gaveUp, respCh, fin, endErr, watch, caller, ended>>

(* An end frame.  A response that cannot be decoded has the same effect as  *)
(* an end with an error: abortStream.                                       *)
PluginEnds(s, err) ==
    /\ s \in Talkers /\ ~broken /\ call[s] = "open" /\ ended[s] = "no"
    /\ ended' = [ended EXCEPT ![s] = err]
    /\ frames' = Append(frames, [on |-> s, kind |-> "end", val |-> 0, err |-> err])
    /\ UNCHANGED <<broken, closed, table, loop, toFinish, call, gaveUp, respCh, fin, endErr, watch, caller, said>>

ConnectBreaks ==
    /\ ~broken
    /\ broken' = TRUE
    /\ UNCHANGED <<closed, table, loop, toFinish, frames, call, gaveUp, respCh, fin, endErr, watch, caller, plugin>>

-----------------------------------------------------------------------------
(* finish(err): the first step of its once, the second, and the way on.     *)

Finish(s, err) ==
    /\ fin[s] = "no"
    /\ fin' = [fin EXCEPT ![s] = "done"] /\ endErr' = [endErr EXCEPT ![s] = err]

Cancels(s) ==
    /\ fin[s] = "done"
    /\ fin' = [fin EXCEPT ![s] = "yes"]
    /\ UNCHANGED <<broken, closed, table, loop, toFinish, frames, call, gaveUp, respCh, endErr, watch, caller, plugin>>

-----------------------------------------------------------------------------
(* The receive loop of Connect. *)

LoopUnchanged == UNCHANGED <<broken, call, gaveUp, watch, caller, plugin>>

(* dispatch: a response goes to its stream, an end frame takes the stream   *)
(* off the table; frames for unknown streams are dropped.                   *)
Dispatches ==
    LET f == Head(frames)
    IN  /\ loop.pc = "recv" /\ frames # <<>>
        /\ frames' = Tail(frames)
        /\ loop' = IF f.on \notin table THEN Idle
                   ELSE [pc |-> IF f.kind = "end" THEN "finish" ELSE "deliver", on |-> {f.on}, val |-> f.val, err |-> f.err]
        /\ table' = IF f.kind = "end" THEN table \ {f.on} ELSE table
        /\ UNCHANGED <<closed, toFinish, respCh, fin, endErr>> /\ LoopUnchanged

RespRoom(s) == Len(respCh[s]) < QueueSize

Delivers(s) ==
    /\ loop.pc \in {"deliver", "blocked"} /\ s \in loop.on /\ RespRoom(s)
    /\ respCh' = [respCh EXCEPT ![s] = Append(@, loop.val)]
    /\ loop' = Idle
    /\ UNCHANGED <<closed, table, toFinish, frames, fin, endErr>> /\ LoopUnchanged

Discards(s) ==
    /\ loop.pc \in {"deliver", "blocked"} /\ s \in loop.on /\ Done(s)
    /\ loop' = Idle
    /\ UNCHANGED <<closed, table, toFinish, frames, respCh, fin, endErr>> /\ LoopUnchanged

Blocks(s) ==
    /\ loop.pc = "deliver" /\ s \in loop.on /\ ~RespRoom(s) /\ ~Done(s)
    /\ loop' = [loop EXCEPT !.pc = "blocked"]
    /\ UNCHANGED <<closed, table, toFinish, frames, respCh, fin, endErr>> /\ LoopUnchanged

(* The wait for room runs out: abortStream. *)
TimesOut(s) ==
    /\ loop.pc = "blocked" /\ s \in loop.on
    /\ table' = table \ {s}
    /\ loop' = IF s \in table THEN [loop EXCEPT !.pc = "finish", !.err = "overflow"] ELSE Idle
    /\ UNCHANGED <<closed, toFinish, frames, respCh, fin, endErr>> /\ LoopUnchanged

LoopFinishes(s) ==
    /\ loop.pc = "finish" /\ s \in loop.on
    /\ Finish(s, loop.err)
    /\ UNCHANGED <<closed, table, loop, toFinish, frames, respCh>> /\ LoopUnchanged

LoopFinished(s) ==
    /\ loop.pc = "finish" /\ s \in loop.on /\ fin[s] = "yes"
    /\ loop' = Idle
    /\ UNCHANGED <<closed, table, toFinish, frames, respCh, fin, endErr>> /\ LoopUnchanged

(* Recv fails: close marks the session and empties the table in one step,   *)
(* then finishes what was in it.                                            *)
CloseSession ==
    /\ loop.pc = "recv" /\ broken
    /\ closed' = TRUE /\ toFinish' = table /\ table' = {}
    /\ loop' = [Idle EXCEPT !.pc = "closing"]
    /\ UNCHANGED <<frames, respCh, fin, endErr>> /\ LoopUnchanged

CloseFinishes(s) ==
    /\ loop.pc = "closing" /\ s \in toFinish
    /\ Finish(s, "session")
    /\ UNCHANGED <<closed, table, loop, toFinish, frames, respCh>> /\ LoopUnchanged

CloseFinished(s) ==
    /\ loop.pc = "closing" /\ s \in toFinish /\ fin[s] = "yes"
    /\ toFinish' = toFinish \ {s}
    /\ UNCHANGED <<closed, table, loop, frames, respCh, fin, endErr>> /\ LoopUnchanged

-----------------------------------------------------------------------------
(* DecodeV2 and the watcher it starts. *)

CallUnchanged == UNCHANGED <<broken, closed, loop, toFinish, frames, respCh, caller, plugin>>

ChecksStream(s) ==
    /\ call[s] = "none"
    /\ call' = [call EXCEPT ![s] = IF broken THEN "refused" ELSE "checked"]
    /\ UNCHANGED <<table, gaveUp, fin, endErr, watch>> /\ CallUnchanged

Opens_Unchecked(s) ==
    /\ call[s] = "checked"
    /\ call' = [call EXCEPT ![s] = "open"]
    /\ table' = table \cup {s} /\ watch' = [watch EXCEPT ![s] = "wait"]
    /\ UNCHANGED <<gaveUp, fin, endErr>> /\ CallUnchanged

Opens(s) ==
    /\ call[s] = "checked"
    /\ IF closed THEN /\ call' = [call EXCEPT ![s] = "refused"]
                      /\ UNCHANGED <<table, watch>>
                 ELSE /\ call' = [call EXCEPT ![s] = "open"]
                      /\ table' = table \cup {s} /\ watch' = [watch EXCEPT ![s] = "wait"]
    /\ UNCHANGED <<gaveUp, fin, endErr>> /\ CallUnchanged

CallerCancels(s) ==
    /\ s \in Cancellers /\ call[s] \in {"checked", "open"} /\ ~gaveUp[s]
    /\ gaveUp' = [gaveUp EXCEPT ![s] = TRUE]
    /\ UNCHANGED <<table, call, fin, endErr, watch>> /\ CallUnchanged

(* Both cases of the watcher's select may be ready. *)
WatcherWakes(s) ==
    /\ watch[s] = "wait"
    /\ \/ CtxDone(s) /\ watch' = [watch EXCEPT ![s] = "reset"]
       \/ Done(s) /\ watch' = [watch EXCEPT ![s] = "off"]
    /\ UNCHANGED <<table, call, gaveUp, fin, endErr>> /\ CallUnchanged

(* Sending the reset frame may block for as long as the stream does. *)
WatcherResets(s) ==
    /\ watch[s] = "reset"
    /\ watch' = [watch EXCEPT ![s] = "finish"]
    /\ UNCHANGED <<table, call, gaveUp, fin, endErr>> /\ CallUnchanged

WatcherFinishes(s) ==
    /\ watch[s] = "finish"
    /\ Finish(s, "context")
    /\ UNCHANGED <<table, call, gaveUp, watch>> /\ CallUnchanged

WatcherDeletes(s) ==
    /\ watch[s] = "finish" /\ fin[s] = "yes"
    /\ table' = table \ {s}
    /\ watch' = [watch EXCEPT ![s] = "off"]
    /\ UNCHANGED <<call, gaveUp, fin, endErr>> /\ CallUnchanged

-----------------------------------------------------------------------------
(* Recv.  A step is one select or one poll of the queue.                     *)

RecvUnchanged == UNCHANGED <<broken, closed, table, loop, toFinish, frames, call, gaveUp, fin, endErr, watch, plugin>>

Takes(s) ==
    /\ respCh[s] # <<>>
    /\ got' = [got EXCEPT ![s] = Append(@, Head(respCh[s]))]
    /\ respCh' = [respCh EXCEPT ![s] = Tail(@)]
    /\ rcv' = [rcv EXCEPT ![s] = "idle"]
    /\ UNCHANGED result /\ RecvUnchanged

Goes(s, pc) == rcv' = [rcv EXCEPT ![s] = pc] /\ UNCHANGED <<got, result, respCh>> /\ RecvUnchanged

RecvReturns(s, err) ==
    /\ rcv' = [rcv EXCEPT ![s] = "over"] /\ result' = [result EXCEPT ![s] = err]
    /\ UNCHANGED <<got, respCh>> /\ RecvUnchanged

Recv(s) ==
    /\ s \in Readers /\ call[s] = "open" /\ rcv[s] = "idle"
    /\ Takes(s) \/ (respCh[s] = <<>> /\ Goes(s, "polled"))

RecvChecksDone(s) ==
    /\ rcv[s] = "polled"
    /\ Goes(s, IF Done(s) THEN "after" ELSE "select")

RecvSelects(s) ==
    /\ rcv[s] = "select"
    /\ Takes(s) \/ (Done(s) /\ Goes(s, "after")) \/ (CtxDone(s) /\ Goes(s, "ctx"))

RecvCtx(s) ==
    /\ rcv[s] = "ctx"
    /\ Takes(s) \/ (respCh[s] = <<>> /\ Goes(s, "ctx2"))

RecvCtxChecks(s) ==
    /\ rcv[s] = "ctx2"
    /\ IF Done(s) THEN Goes(s, "after") ELSE RecvReturns(s, "context")

recvAfterDone_NoDrain(s) == rcv[s] = "after" /\ RecvReturns(s, endErr[s])
recvAfterDone(s) ==
    /\ rcv[s] = "after"
    /\ Takes(s) \/ (respCh[s] = <<>> /\ RecvReturns(s, endErr[s]))

Loop(s) == \/ Delivers(s) \/ Discards(s) \/ Blocks(s) \/ TimesOut(s) \/ LoopFinishes(s) \/ LoopFinished(s)
           \/ CloseFinishes(s) \/ CloseFinished(s)
Watcher(s) == WatcherWakes(s) \/ WatcherFinishes(s) \/ WatcherDeletes(s)
InRecv(s) == \/ RecvChecksDone(s) \/ RecvSelects(s) \/ RecvCtx(s) \/ RecvCtxChecks(s) \/ recvAfterDone(s)

MuxNext ==
    \/ \E s \in Streams :
          \/ PluginResponds(s) \/ \E err \in {"eof", "plugin"} : PluginEnds(s, err)
          \/ Cancels(s) \/ Loop(s)
          \/ ChecksStream(s) \/ Opens(s) \/ CallerCancels(s)
          \/ Watcher(s) \/ WatcherResets(s)
          \/ Recv(s) \/ InRecv(s)
    \/ ConnectBreaks \/ Dispatches \/ CloseSession
MuxSpec == MuxInit /\ [][MuxNext]_muxVars

(* The steps of goroutines that run by themselves.  The caller need not     *)
(* call Recv, the plugin need not answer, and the reset frame need not get  *)
(* through.                                                                 *)
MuxSteps ==
    \/ Dispatches \/ CloseSession
    \/ \E s \in Streams : Loop(s) \/ Watcher(s) \/ Cancels(s) \/ InRecv(s) \/ Opens(s)

-----------------------------------------------------------------------------
(* Properties *)

MuxTypeOK ==
    /\ broken \in BOOLEAN /\ closed \in BOOLEAN /\ table \subseteq Streams /\ toFinish \subseteq Streams
    /\ loop \in [pc : {"recv", "deliver", "blocked", "finish", "closing"}, on : SUBSET Streams,
                 val : 0..MaxResponses, err : Errors]
    /\ frames \in Seq([on : Streams, kind : {"response", "end"}, val : 0..MaxResponses, err : Errors])
    /\ call \in [Streams -> {"none", "checked", "open", "refused"}] /\ gaveUp \in [Streams -> BOOLEAN]
    /\ respCh \in [Streams -> Seq(0..MaxResponses)] /\ \A s \in Streams : Len(respCh[s]) <= QueueSize
    /\ fin \in [Streams -> {"no", "done", "yes"}] /\ endErr \in [Streams -> Errors]
    /\ watch \in [Streams -> {"none", "wait", "reset", "finish", "off"}]
    /\ rcv \in [Streams -> {"idle", "polled", "select", "ctx", "ctx2", "after", "over"}]
    /\ got \in [Streams -> Seq(0..MaxResponses)] /\ result \in [Streams -> Errors \cup {"none"}]
    /\ said \in [Streams -> 0..MaxResponses] /\ ended \in [Streams -> {"no", "eof", "plugin"}]

(* io.EOF means the plugin ended the stream without an error and every      *)
(* response it sent has been returned, in order: the end frame and the      *)
(* cancellation finish causes never overtake a queued response.             *)
EofIsComplete ==
    \A s \in Streams : result[s] = "eof" => ended[s] = "eof" /\ got[s] = [i \in 1..said[s] |-> i]

(* Until the caller cancels, Recv returns the responses without a gap: one  *)
(* that does not fit in time ends the stream instead of being skipped.      *)
NoGap ==
    \A s \in Streams : gaveUp[s] \/ got[s] = [i \in 1..Len(got[s]) |-> i]

(* A context error is only reported to a caller that cancelled, although *)
(* finish itself cancels the stream's context.                              *)
NoFalseCancel ==
    \A s \in Streams : result[s] = "context" => gaveUp[s]

(* What Recv returns is what the plugin sent: without a gap, and complete   *)
(* when it ends in EOF; what it reports of the end is what happened.        *)
ResponsesIntact == EofIsComplete /\ NoGap /\ NoFalseCancel

(* When the goroutines have nothing left to do, every logical stream of a   *)
(* Connect stream that ended has ended, the one DecodeV2 was just opening   *)
(* included, and a caller that cancelled has returned from Recv, even if    *)
(* the reset frame never gets through.  They always come to such a state:   *)
(* none of their steps repeats.                                             *)
NobodyHangs ==
    ~ENABLED MuxSteps =>
       \A s \in Streams : /\ broken /\ call[s] = "open" => fin[s] = "yes"
                          /\ gaveUp[s] => rcv[s] \in {"idle", "over"}
=============================================================================
