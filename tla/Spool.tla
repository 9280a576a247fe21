------------------------------- MODULE Spool -------------------------------
(***************************************************************************)
(* The disk queue of the agent's uplink (src/pkg/spool): packets captured  *)
(* but not yet confirmed by the server live in numbered segment files, a   *)
(* cursor file remembers the read position, and an index file per segment  *)
(* remembers how much of it was written.  Every method of Queue runs under *)
(* q.mu, so each is one action here; the one exception is Open, whose scan *)
(* is one step per segment, because a crash can land between two of them.  *)
(*                                                                         *)
(* Data abstraction: a record (length prefix and body) is one unit, so an  *)
(* offset counts records and the byte limits are limits in records.  The   *)
(* content of a record is the number the packet got when it was accepted;  *)
(* Torn stands for a half-written record.                                  *)
(***************************************************************************)
EXTENDS Integers, Sequences, FiniteSets, FiniteSetsExt

CONSTANTS
    MaxBytes,         \* Options.MaxBytes: quota of unconfirmed data
    SegBytes,         \* Options.SegmentBytes: roll threshold
    CursorSyncEvery,  \* cursorSyncEvery: confirmations between cursor saves
    SyncWindow,       \* records that may not have reached the platter yet
    Retentions,       \* the retention policies Open / EnableRetention are given
    Faults,           \* the faults of the environment this instance allows
    MaxBatch,         \* the largest n passed to Next and AckN
    MaxPackets,       \* bound: packets accepted in a behaviour
    MaxDropped,       \* bound: packets refused between two Opens
    MaxDowns          \* bound: stops (clean or not) in a behaviour

Torn == 0             \* a partial record at the end of a file
NoCursor == [seg |-> 0, off |-> 0]   \* cursor.json does not exist

\* q.retention: off when nil; then an age limit or not, and a size limit or 0
Policy == [on : BOOLEAN, maxAge : BOOLEAN, maxBytes : Nat]
NoRetention == [on |-> FALSE, maxAge |-> FALSE, maxBytes |-> 0]
KeepAll == [on |-> TRUE, maxAge |-> FALSE, maxBytes |-> 0]
FaultKinds == {"crash", "power", "io"}

ASSUME SpoolAssumption ==
    /\ MaxBytes \in Nat \ {0} /\ SegBytes \in Nat \ {0}
    /\ CursorSyncEvery \in Nat \ {0} /\ SyncWindow \in Nat
    /\ Retentions \subseteq Policy /\ Retentions # {}
    /\ Faults \subseteq FaultKinds
    /\ MaxBatch \in Nat \ {0} /\ MaxPackets \in Nat
    /\ MaxDropped \in Nat /\ MaxDowns \in Nat

VARIABLES
    segs,        \* disk: segment number -> its records, in file order
    cursor,      \* disk: cursor.json
    idx,         \* disk: segment number -> Bytes of its .idx.json
    mode,        \* "down" (no Queue), "scanning" (inside recover), "open"
    entries,     \* positions of the unconfirmed records, head first
    nextIdx,     \* entries[1..nextIdx] were handed out by Next
    bytes,       \* q.bytes: unconfirmed bytes
    wrCur,       \* write position
    files,       \* segments with an open handle
    ackSinceCS,  \* confirmations since the cursor was saved
    dropped,     \* packets refused since Open
    retention,   \* q.retention
    segMeta,     \* segment number -> segInfo.Bytes
    scanPos,     \* (seg, off) of the loop in scanFrom
    accepted,    \* history: packets 1..accepted were accepted by Append
    delivered,   \* history: packets handed out by Next
    acked,       \* history: packets confirmed by AckN
    gone,        \* history: packets a power loss took before they were synced
    downs        \* history: number of stops

disk == <<segs, cursor, idx>>
memory == <<entries, nextIdx, bytes, wrCur, files, ackSinceCS, dropped,
            retention, segMeta, scanPos>>
history == <<accepted, delivered, acked, gone, downs>>
vars == <<disk, mode, memory, history>>

Position == [seg : Nat \ {0}, off : Nat]
Start == [seg |-> 1, off |-> 0]
Only(f, S) == [x \in DOMAIN f \cap S |-> f[x]]
Without(f, S) == [x \in DOMAIN f \ S |-> f[x]]
Lesser(a, b) == IF a < b THEN a ELSE b

Init ==
    /\ segs = << >> /\ cursor = NoCursor /\ idx = << >>
    /\ mode = "down"
    /\ entries = << >> /\ nextIdx = 0 /\ bytes = 0 /\ wrCur = Start
    /\ files = {} /\ ackSinceCS = 0 /\ dropped = 0
    /\ retention = NoRetention /\ segMeta = << >> /\ scanPos = Start
    /\ accepted = 0 /\ delivered = {} /\ acked = {} /\ gone = {} /\ downs = 0

(***************************************************************************)
(* Reading positions.                                                      *)
(***************************************************************************)
PacketAt(p) == segs[p.seg][p.off + 1]
OnDisk(p) == p.seg \in DOMAIN segs /\ p.off < Len(segs[p.seg])

\* the packets of the index entries in I whose record is still there
Packets(I) == {PacketAt(entries[i]) : i \in {j \in I : OnDisk(entries[j])}}

\* the read position of a queue with index es and write position wr
ReadCur_AlwaysWritePosition(es, wr) == wr
ReadCur(es, wr) == IF es # << >> THEN es[1] ELSE wr

LoadedCursor == IF cursor.seg = 0 THEN [cursor EXCEPT !.seg = 1] ELSE cursor

\* dropSegment for every segment of S, the index file included
DropSegments(S, onDisk, index) ==
    /\ segs' = Without(onDisk, S)
    /\ idx' = Without(index, S)

SavedSegMeta(meta, index) ==
    [s \in DOMAIN meta \cup DOMAIN index |->
        IF s \in DOMAIN meta THEN meta[s] ELSE index[s]]

(***************************************************************************)
(* Open: recover up to the call of scanFrom, then the scan, one segment a  *)
(* step.                                                                   *)
(***************************************************************************)
OpenBegin(r) ==
    LET listed == DOMAIN segs
        last   == IF listed = {} THEN 1 ELSE CHOOSE s \in listed : \A t \in listed : t <= s
        onDisk == IF listed = {} THEN [s \in {1} |-> << >>] ELSE segs
        cur    == LoadedCursor
        stale  == IF ~r.on THEN {s \in listed : s < cur.seg} ELSE {}
    IN  /\ mode = "down" /\ mode' = "scanning"
        /\ wrCur' = [seg |-> last, off |-> Len(onDisk[last])]
        /\ DropSegments(stale, onDisk, idx)
        /\ segMeta' = [s \in listed \ stale |-> IF s \in DOMAIN idx THEN idx[s] ELSE 0]
        /\ files' = {last} \ stale
        /\ retention' = r
        /\ scanPos' = cur
        /\ entries' = << >> /\ nextIdx' = 0 /\ bytes' = 0
        /\ ackSinceCS' = 0 /\ dropped' = 0
        /\ UNCHANGED <<cursor, history>>

\* scanSegment: where the complete records that start at off end
ScanEnd(s, off) ==
    LET torn == {i \in off .. Len(segs[s]) - 1 : segs[s][i + 1] = Torn}
    IN  IF torn = {} THEN Len(segs[s]) ELSE CHOOSE i \in torn : \A j \in torn : i <= j

\* the index once the records of segment s from off up to stop are added
Indexed_NewestFirst(s, off, stop) ==
    [i \in 1 .. stop - off |-> [seg |-> s, off |-> off + i - 1]] \o entries
Indexed(s, off, stop) ==
    entries \o [i \in 1 .. stop - off |-> [seg |-> s, off |-> off + i - 1]]

\* the scan goes on in the next segment when there is one
ScansOn_FirstOnly(s) == FALSE
ScansOn(s) == s + 1 \in DOMAIN segs

\* segment s cut back to its complete records
Truncated_Kept(s, stop) == segs
Truncated(s, stop) == [segs EXCEPT ![s] = SubSeq(@, 1, stop)]

ScanSegment ==
    LET s    == scanPos.seg
        off  == scanPos.off
        stop == ScanEnd(s, off)
        cut  == stop < Len(segs[s])
        more == ~cut /\ ScansOn(s)
    IN  /\ mode = "scanning" /\ s \in DOMAIN segs
        /\ entries' = IF off < stop THEN Indexed(s, off, stop) ELSE entries
        /\ bytes' = IF off < stop THEN bytes + (stop - off) ELSE bytes
        /\ files' = files \cup {s}
        /\ segs' = IF cut THEN Truncated(s, stop) ELSE segs
        /\ wrCur' = IF cut THEN [seg |-> s, off |-> stop] ELSE wrCur
        /\ scanPos' = IF more THEN [seg |-> s + 1, off |-> 0] ELSE Start
        /\ mode' = IF more THEN "scanning" ELSE "open"
        /\ UNCHANGED <<cursor, idx, nextIdx, ackSinceCS, dropped, retention, segMeta, history>>

\* the Queue is no longer referenced
Discard ==
    /\ mode' = "down"
    /\ entries' = << >> /\ nextIdx' = 0 /\ bytes' = 0 /\ wrCur' = Start
    /\ files' = {} /\ ackSinceCS' = 0 /\ dropped' = 0
    /\ retention' = NoRetention /\ segMeta' = << >> /\ scanPos' = Start

\* the cursor's segment is not there: recover fails and Open closes the Queue,
\* which saves the cursor and the index files of a Queue that read nothing
OpenFails ==
    /\ mode = "scanning" /\ scanPos.seg \notin DOMAIN segs
    /\ cursor' = ReadCur(entries, wrCur)
    /\ idx' = SavedSegMeta(segMeta, idx)
    /\ Discard
    /\ UNCHANGED <<segs, history>>

(***************************************************************************)
(* Append.                                                                 *)
(***************************************************************************)
AppendFull ==
    /\ mode = "open" /\ bytes + 1 > MaxBytes /\ dropped < MaxDropped
    /\ dropped' = dropped + 1
    /\ UNCHANGED <<disk, mode, entries, nextIdx, bytes, wrCur, files, ackSinceCS,
                   retention, segMeta, scanPos, history>>

\* the handle of the write segment is closed, or the write itself fails
AppendFails ==
    /\ mode = "open" /\ bytes + 1 <= MaxBytes /\ dropped < MaxDropped
    /\ wrCur.seg \notin files \/ "io" \in Faults
    /\ dropped' = dropped + 1
    /\ UNCHANGED <<disk, mode, entries, nextIdx, bytes, wrCur, files, ackSinceCS,
                   retention, segMeta, scanPos, history>>

\* rollSegment when the write segment is at its threshold
RolledCur == IF wrCur.off >= SegBytes THEN [seg |-> wrCur.seg + 1, off |-> 0] ELSE wrCur
RolledSegs ==
    [s \in DOMAIN segs \cup {RolledCur.seg} |-> IF s \in DOMAIN segs THEN segs[s] ELSE << >>]

\* noteSegRecord for one record of segment s
NotedSegMeta(s) ==
    [t \in DOMAIN segMeta \cup {s} |->
        (IF t \in DOMAIN segMeta THEN segMeta[t] ELSE 0) + (IF t = s THEN 1 ELSE 0)]

AppendPacket ==
    LET w == RolledCur
    IN  /\ mode = "open" /\ bytes + 1 <= MaxBytes /\ accepted < MaxPackets
        /\ wrCur.seg \in files
        /\ segs' = [RolledSegs EXCEPT ![w.seg] = Append(@, accepted + 1)]
        /\ segMeta' = NotedSegMeta(w.seg)
        /\ entries' = Append(entries, w)
        /\ wrCur' = [w EXCEPT !.off = @ + 1]
        /\ files' = files \cup {w.seg}
        /\ bytes' = bytes + 1
        /\ accepted' = accepted + 1
        /\ UNCHANGED <<cursor, idx, mode, nextIdx, ackSinceCS, dropped, retention,
                       scanPos, delivered, acked, gone, downs>>

(***************************************************************************)
(* Next, AckN and Requeue.                                                 *)
(***************************************************************************)
NextBatch(n) ==
    LET avail == Len(entries) - nextIdx
        head  == entries[nextIdx + 1]
        upTo  == nextIdx + Lesser(n, avail)
        same  == {i \in nextIdx + 1 .. upTo :
                    \A j \in nextIdx + 1 .. i : entries[j].seg = head.seg}
        last  == CHOOSE i \in same : \A j \in same : j <= i
    IN  /\ mode = "open" /\ avail > 0
        /\ head.seg \in DOMAIN segs
        /\ nextIdx' = last
        /\ files' = files \cup {head.seg}
        /\ delivered' = delivered \cup Packets(same)
        /\ UNCHANGED <<disk, mode, entries, bytes, wrCur, ackSinceCS, dropped,
                       retention, segMeta, scanPos, accepted, acked, gone, downs>>

\* cleanupLocked, with the read cursor at head
Confirmed(head) ==
    IF ~retention.on THEN {s \in files : s < head.seg} ELSE {}

\* only records in flight are confirmed
AckCount_Unclamped(n) == Lesser(n, Len(entries))
AckCount(n) == Lesser(n, nextIdx)

CursorDue_Late(k) == ackSinceCS + k > CursorSyncEvery
CursorDue(k) == ackSinceCS + k >= CursorSyncEvery

AckN(n, saveFails) ==
    LET k    == AckCount(n)
        rest == SubSeq(entries, k + 1, Len(entries))
        due  == CursorDue(k)
        head == ReadCur(rest, wrCur)
        drop == IF due /\ saveFails THEN {} ELSE Confirmed(head)
    IN  /\ mode = "open" /\ k > 0
        /\ saveFails => due /\ "io" \in Faults
        /\ bytes' = bytes - k
        /\ entries' = rest
        /\ nextIdx' = nextIdx - k
        /\ ackSinceCS' = IF due /\ ~saveFails THEN 0 ELSE ackSinceCS + k
        /\ cursor' = IF due /\ ~saveFails THEN head ELSE cursor
        /\ DropSegments(drop, segs, idx)
        /\ segMeta' = Without(segMeta, drop)
        /\ files' = files \ drop
        /\ acked' = acked \cup Packets(1 .. k)
        /\ UNCHANGED <<mode, wrCur, dropped, retention, scanPos,
                       accepted, delivered, gone, downs>>

Requeue ==
    /\ mode = "open" /\ nextIdx > 0 /\ nextIdx' = 0
    /\ UNCHANGED <<disk, mode, entries, bytes, wrCur, files, ackSinceCS, dropped,
                   retention, segMeta, scanPos, history>>

(***************************************************************************)
(* Retention: EnableRetention and EnforceRetention.                        *)
(***************************************************************************)
EnableRetention(r) ==
    /\ mode = "open" /\ r # retention /\ retention' = r
    /\ UNCHANGED <<disk, mode, entries, nextIdx, bytes, wrCur, files, ackSinceCS,
                   dropped, segMeta, scanPos, history>>

SegFullyConfirmed_HeadToo(s) == ReadCur(entries, wrCur).seg >= s
SegFullyConfirmed(s) ==
    LET head == ReadCur(entries, wrCur)
    IN  head.seg > s \/ (head.seg = s /\ head.off >= segMeta[s])

MetaBytes(S) == MapThenSumSet(LAMBDA s : segMeta[s], S)

\* What one pass over the map q.segMeta, whose order Go leaves open, may drop:
\* every expired segment, and others while the total is over budget.
EnforcedDrops(expired) ==
    LET confirmed == {s \in DOMAIN segMeta : SegFullyConfirmed(s)}
        old       == confirmed \cap expired
        total     == MetaBytes(confirmed)
        budget    == retention.maxBytes
        Over(S)   == budget > 0 /\ total - MetaBytes(S) > budget
    IN  {D \in SUBSET confirmed :
            /\ old \subseteq D
            /\ D \ old # {} => \E s \in D \ old : Over((D \ old) \ {s})
            /\ D # confirmed => ~Over(D)}

\* records are written in time order, so the expired segments are the oldest
EnforceRetention ==
    /\ mode = "open" /\ retention.on
    /\ \E first \in IF retention.maxAge THEN 1 .. wrCur.seg + 1 ELSE {1} :
       \E drop \in EnforcedDrops(1 .. first - 1) :
            /\ drop # {}
            /\ segMeta' = Without(segMeta, drop)
            /\ DropSegments(drop, segs, SavedSegMeta(segMeta, idx))
            /\ files' = files \ drop
    /\ UNCHANGED <<cursor, mode, entries, nextIdx, bytes, wrCur, ackSinceCS, dropped,
                   retention, scanPos, history>>

(***************************************************************************)
(* Close, and the ways a process ends without it.                          *)
(***************************************************************************)
Close ==
    /\ mode = "open" /\ downs < MaxDowns
    /\ cursor' = ReadCur(entries, wrCur)
    /\ idx' = SavedSegMeta(segMeta, idx)
    /\ Discard
    /\ downs' = downs + 1
    /\ UNCHANGED <<segs, accepted, delivered, acked, gone>>

\* the process dies, perhaps inside Append: before or after the roll, or with
\* half a record written
Crash ==
    /\ "crash" \in Faults /\ mode # "down" /\ downs < MaxDowns
    /\ \/ UNCHANGED segs
       \/ /\ mode = "open" /\ bytes + 1 <= MaxBytes /\ wrCur.seg \in files
          /\ segs' \in {RolledSegs, [RolledSegs EXCEPT ![RolledCur.seg] = Append(@, Torn)]}
    /\ Discard
    /\ downs' = downs + 1
    /\ UNCHANGED <<cursor, idx, accepted, delivered, acked, gone>>

\* the machine dies: what was written since the last fsync may be missing
PowerLoss ==
    /\ "power" \in Faults /\ mode = "open" /\ downs < MaxDowns
    /\ wrCur.seg \in DOMAIN segs
    /\ LET file == segs[wrCur.seg]
           least == IF Len(file) > SyncWindow THEN Len(file) - SyncWindow ELSE 0
       IN  \E n \in least .. Len(file) :
             /\ segs' = [segs EXCEPT ![wrCur.seg] = SubSeq(file, 1, n)]
             /\ gone' = gone \cup {file[i] : i \in n + 1 .. Len(file)}
    /\ Discard
    /\ downs' = downs + 1
    /\ UNCHANGED <<cursor, idx, accepted, delivered, acked>>

Open == \E r \in Retentions : OpenBegin(r)
Deliver == \E n \in 1 .. MaxBatch : NextBatch(n)
Acknowledge == \E n \in 1 .. MaxBatch, saveFails \in BOOLEAN : AckN(n, saveFails)
SetRetention == \E r \in Retentions : EnableRetention(r)

Next ==
    \/ Open \/ ScanSegment \/ OpenFails
    \/ AppendPacket \/ AppendFull \/ AppendFails
    \/ Deliver \/ Acknowledge \/ Requeue
    \/ SetRetention \/ EnforceRetention
    \/ Close \/ Crash \/ PowerLoss

Spec == Init /\ [][Next]_vars

\* The agent restarts the queue, and the ingest loop keeps taking and
\* confirming batches; a broken stream may put a batch back any number of
\* times, so confirming needs strong fairness.
Fairness ==
    /\ WF_vars(Open) /\ WF_vars(ScanSegment) /\ WF_vars(OpenFails)
    /\ WF_vars(Deliver) /\ SF_vars(Acknowledge)
FairSpec == Spec /\ Fairness

(***************************************************************************)
(* Properties.                                                             *)
(***************************************************************************)
\* The type invariant of the queue and of its files.
TypeOK ==
    /\ DOMAIN segs \subseteq Nat \ {0}
    /\ \A s \in DOMAIN segs : segs[s] \in Seq(Nat)
    /\ cursor \in Position \cup {NoCursor}
    /\ DOMAIN idx \subseteq Nat \ {0} /\ \A s \in DOMAIN idx : idx[s] \in Nat
    /\ mode \in {"down", "scanning", "open"}
    /\ entries \in Seq(Position) /\ nextIdx \in Nat /\ bytes \in Nat
    /\ wrCur \in Position /\ scanPos \in Position
    /\ files \subseteq Nat \ {0}
    /\ ackSinceCS \in Nat /\ dropped \in 0 .. MaxDropped
    /\ retention \in Retentions \cup {NoRetention}
    /\ DOMAIN segMeta \subseteq Nat \ {0}
    /\ \A s \in DOMAIN segMeta : segMeta[s] \in Nat
    /\ accepted \in 0 .. MaxPackets
    /\ delivered \subseteq Nat /\ acked \subseteq Nat /\ gone \subseteq Nat
    /\ downs \in 0 .. MaxDowns

\* The positions recover would index if the queue were opened now.
Recoverable ==
    LET c == LoadedCursor
    IN  {p \in UNION {[seg : {s}, off : 0 .. Len(segs[s]) - 1] : s \in DOMAIN segs} :
            /\ p.seg >= c.seg /\ (p.seg = c.seg => p.off >= c.off)
            /\ \A t \in c.seg .. p.seg :
                 /\ t \in DOMAIN segs
                 /\ \A i \in 1 .. Len(segs[t]) :
                      segs[t][i] = Torn => \/ t = c.seg /\ i <= c.off
                                           \/ t = p.seg /\ i > p.off + 1}

Held ==
    IF mode = "open"
    THEN Packets(1 .. Len(entries))
    ELSE {PacketAt(p) : p \in Recoverable}

\* A packet Append accepted and nobody confirmed is never lost: while the queue
\* is open it is in the index and its record is on disk, and while it is down
\* the next Open will find it (queue.go:7-9, 142-143).
NoLoss == (1 .. accepted) \ (acked \cup gone) \subseteq Held

\* The index lists the packets in the order they were accepted, each once, also
\* after a restart rebuilt it from the files (Next delivers from the head).
FifoOrder ==
    mode = "open" =>
        \A i, j \in 1 .. Len(entries) :
            i < j /\ OnDisk(entries[i]) /\ OnDisk(entries[j])
                => PacketAt(entries[i]) < PacketAt(entries[j])

\* Only what Next handed out is ever confirmed, whatever n AckN is given
\* (queue.go:100, 432).
AckedWereDelivered == acked \subseteq delivered

\* Retention never deletes unconfirmed data (retention.go:9, 87): the record of
\* every unconfirmed entry stays on disk.
UnconfirmedOnDisk == mode = "open" => \A i \in 1 .. Len(entries) : OnDisk(entries[i])

\* Everything before the head of the index, or before the first packet the
\* next Open would index, is settled.
HeadOf == LET unsettled == Held IN
    IF unsettled = {} THEN accepted ELSE Min(unsettled) - 1
LastConfirmed == IF acked = {} THEN 0 ELSE Max(acked)

Fifo == INSTANCE DurableFifo WITH
    Redeliver <- CursorSyncEvery, Quota <- MaxBytes,
    tail <- accepted, head <- HeadOf, inflight <- nextIdx,
    confirmed <- LastConfirmed, up <- mode = "open"

\* The spool implements the at-least-once FIFO it promises: in order, nothing
\* unconfirmed skipped, fewer than CursorSyncEvery repetitions after a stop
\* (queue.go:1-12, 59-60).
ImplementsFifo == Fifo!Spec

\* Every accepted packet is eventually confirmed, however often the queue is
\* stopped and reopened within the bound, unless a power loss took it.
EventuallyConfirmed ==
    \A p \in 1 .. MaxPackets : (accepted >= p) ~> (p \in acked \cup gone)
=============================================================================
