--------------------------- MODULE OfflineDecode ---------------------------
(***************************************************************************)
(* Decoding the packets of a stopped session again: decode_raw_packets     *)
(* writes the result in place of the former one, test_plugin and verify    *)
(* only look at it.                                                        *)
(*                                                                         *)
(* Packets are 1..DecPackets in the order of their times and read in       *)
(* batches of RawBatch.  A plugin may fail on a packet, the store on a     *)
(* write, and the caller may go away.  Nothing keeps two calls for the     *)
(* same session apart.                                                     *)
(***************************************************************************)
EXTENDS Integers, Sequences

CONSTANTS
    DecCalls,       \* calls
    DecPackets,     \* packets of the session
    RawBatch,       \* rawBatchSize
    MaxDecFaults    \* bound: failing writes and calls given up

\* The capture's own events are no call's; a batch holds a packet.
ASSUME DecAssumption ==
    /\ DecPackets \in Nat /\ MaxDecFaults \in Nat /\ RawBatch \in Nat \ {0}
    /\ "capture" \notin DecCalls

VARIABLES
    taskRuns,       \* the session's capture still runs
    evRows,         \* events: [call, n: packet], in the order written
    scRows,         \* state changes, likewise
    dcall,          \* the calls in progress
    alone,          \* ghost: no other decode ran or began since it began
    decFaults

decVars == <<taskRuns, evRows, scRows, dcall, alone, decFaults>>

NoDCall == [op |-> "none", clear |-> FALSE, at |-> "idle", next |-> 1, batch |-> 0,
            pending |-> <<>>, changes |-> <<>>, since |-> 0, decodedN |-> {}, errs |-> {}]

DecInit ==
    /\ taskRuns = TRUE
    /\ evRows = <<>> /\ scRows = <<>>
    /\ dcall = [c \in DecCalls |-> NoDCall]
    /\ alone = [c \in DecCalls |-> TRUE]
    /\ decFaults = MaxDecFaults

SetD(c, r) == dcall' = [dcall EXCEPT ![c] = r]
Busy(c) == dcall[c].at \in {"open", "loop", "end"}

\* The capture ends and leaves events of its own.
RecordingEnds ==
    /\ taskRuns /\ taskRuns' = FALSE
    /\ evRows' = <<[call |-> "capture", n |-> 1]>>
    /\ UNCHANGED <<scRows, dcall, alone, decFaults>>

\* DecodeRawPackets is refused while the capture runs; TestPlugin and Verify are not.
MayDecode(op) == op # "decode" \/ ~taskRuns
DecodeBegins(c, op, clear) ==
    /\ dcall[c] = NoDCall /\ MayDecode(op)
    /\ SetD(c, [NoDCall EXCEPT !.op = op, !.clear = clear, !.at = "open"])
    /\ alone' = [b \in DecCalls |-> IF b = c THEN \A o \in DecCalls : o # c => ~Busy(o) \/ dcall[o].op # "decode"
                                    ELSE alone[b] /\ ~(dcall[b] # NoDCall /\ op = "decode")]
    /\ UNCHANGED <<taskRuns, evRows, scRows, decFaults>>

\* The store is opened and, if asked for, emptied of what was decoded.
OpensStore(c) ==
    /\ dcall[c].at = "open"
    /\ SetD(c, [dcall[c] EXCEPT !.at = "loop"])
    /\ IF dcall[c].op = "decode" /\ dcall[c].clear THEN evRows' = <<>> /\ scRows' = <<>>
       ELSE UNCHANGED <<evRows, scRows>>
    /\ UNCHANGED <<taskRuns, alone, decFaults>>

\* flush: the events in one transaction, then the state changes in another whose
\* failure is only logged.  What could not be written stays for the next flush.
Flushed_Keeps(r) == [r EXCEPT !.since = 0]
Flushed(r) == [r EXCEPT !.pending = <<>>, !.changes = <<>>, !.since = 0]
AppendsAll(r, ok, scOk) ==
    /\ evRows' = IF ok THEN evRows \o r.pending ELSE evRows
    /\ scRows' = IF ok /\ scOk THEN scRows \o r.changes ELSE scRows
WritesFine(ok, scOk) ==
    IF ok /\ scOk THEN UNCHANGED decFaults ELSE decFaults > 0 /\ decFaults' = decFaults - 1
flush(c, r, written, failed) ==
    IF r.pending = <<>> THEN SetD(c, [r EXCEPT !.at = written]) /\ UNCHANGED <<evRows, scRows, decFaults>>
    ELSE \E ok, scOk \in BOOLEAN :
            /\ AppendsAll(r, ok, scOk) /\ WritesFine(ok, scOk)
            /\ SetD(c, IF ok THEN [Flushed(r) EXCEPT !.at = written] ELSE [r EXCEPT !.at = failed])

\* forEachRawDecoded: the next batch; the loop ends with one that is not full.
QueriesBatch(c) ==
    LET r == dcall[c]
        rows == IF DecPackets - r.next + 1 < RawBatch THEN DecPackets - r.next + 1 ELSE RawBatch
    IN /\ r.at = "loop" /\ r.batch = 0
       /\ SetD(c, [r EXCEPT !.batch = rows, !.at = IF rows = 0 THEN "end" ELSE "loop"])
       /\ UNCHANGED <<taskRuns, evRows, scRows, alone, decFaults>>

\* One packet: decoded into an event with its state change, or an error counted.
\* A write waits until RawBatch packets gave events.
DecodesOne(c) ==
    LET r == dcall[c]
        n == r.next
        row == [call |-> c, n |-> n]
        stepped == [r EXCEPT !.next = @ + 1, !.batch = @ - 1,
                             !.at = IF r.batch = 1 /\ n = DecPackets THEN "end" ELSE "loop"]
        good == [stepped EXCEPT !.pending = Append(@, row), !.changes = Append(@, row),
                                !.since = @ + 1, !.decodedN = @ \cup {n}]
    IN /\ r.at = "loop" /\ r.batch > 0
       /\ UNCHANGED <<taskRuns, alone>>
       /\ \/ /\ SetD(c, [stepped EXCEPT !.errs = @ \cup {n}])
             /\ UNCHANGED <<evRows, scRows, decFaults>>
          \/ IF r.op = "decode" /\ good.since >= RawBatch
             THEN flush(c, good, good.at, good.at)
             ELSE SetD(c, good) /\ UNCHANGED <<evRows, scRows, decFaults>>

\* The last flush decides.
DecodeEnds(c) ==
    /\ dcall[c].at = "end" /\ dcall[c].op = "decode"
    /\ flush(c, dcall[c], "done", "failed")
    /\ UNCHANGED <<taskRuns, alone>>

\* TestPlugin (and Verify) answer with what they collected and write nothing.
TestPlugin(c) ==
    /\ dcall[c].at = "end" /\ dcall[c].op = "look"
    /\ SetD(c, [dcall[c] EXCEPT !.at = "done"])
    /\ UNCHANGED <<taskRuns, evRows, scRows, alone, decFaults>>

\* The caller goes away: what was decoded is written if the store still does it.
GivesUp(c) ==
    LET r == dcall[c] IN
    /\ r.at = "loop" /\ r.batch = 0 /\ decFaults > 0
    /\ decFaults' = decFaults - 1
    /\ \E ok \in BOOLEAN :
          /\ AppendsAll(IF r.op = "decode" THEN r ELSE NoDCall, ok, ok)
          /\ SetD(c, [r EXCEPT !.at = "failed"])
    /\ UNCHANGED <<taskRuns, alone>>

DecNext ==
    \/ RecordingEnds
    \/ \E c \in DecCalls :
          \/ \E op \in {"decode", "look"}, clear \in BOOLEAN : DecodeBegins(c, op, clear)
          \/ OpensStore(c) \/ QueriesBatch(c) \/ DecodesOne(c) \/ DecodeEnds(c) \/ TestPlugin(c) \/ GivesUp(c)

DecSpec == DecInit /\ [][DecNext]_decVars

\* The places of one call's events.
RowsOf(rows, c) == {i \in DOMAIN rows : rows[i].call = c}
\* A decode that reported success and that no other decode overlapped or followed
\* left exactly one event for each packet the plugin decoded, in order, whatever
\* writes failed and were repeated on the way, and counted every other packet as an
\* error; if it was to replace the former result, nothing else is left.
DecodedExact ==
    \A c \in DecCalls :
        dcall[c].op = "decode" /\ dcall[c].at = "done" /\ alone[c] =>
        /\ \A i, j \in RowsOf(evRows, c) : i < j => evRows[i].n < evRows[j].n
        /\ {evRows[i].n : i \in RowsOf(evRows, c)} = dcall[c].decodedN
        /\ dcall[c].decodedN \cup dcall[c].errs = 1..DecPackets
        /\ dcall[c].clear => RowsOf(evRows, c) = DOMAIN evRows
=============================================================================
