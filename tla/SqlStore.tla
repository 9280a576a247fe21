------------------------------ MODULE SqlStore ------------------------------
(***************************************************************************)
(* The capture store: raw packets, decoded events with their index, state  *)
(* changes and metrics, kept in one SQLite file per session or in one      *)
(* PostgreSQL database for all sessions, and the gt-mcp tools that read it.*)
(*                                                                         *)
(* A table is a sequence of rows in the order they were inserted.  Which   *)
(* database a session's rows are in is DB(s); the rows of PostgreSQL carry *)
(* the session in a column.  A write is a transaction: it happens or not.  *)
(* The answer to a PostgreSQL commit may be lost, and the caller then      *)
(* writes the same rows again.                                             *)
(*                                                                         *)
(* Packets are the fixed list Captured; an event is decoded from a packet  *)
(* and copies its time and connection.  Rows of equal time are read in the *)
(* order they were inserted.                                               *)
(***************************************************************************)
EXTENDS Integers, Sequences, FiniteSets, SequencesExt

CONSTANTS
    Drivers,        \* of "sqlite" and "postgres"
    Captured,       \* the packets, in the order they are written
    CapSessions,    \* the sessions they belong to
    EventTypes,
    EventIds,       \* a sequence, the bound on events decoded
    MaxMetrics,     \* bound: metrics written
    MaxClears,      \* bound: ClearDecodedData
    MaxLost         \* bound: commits whose answer is lost

VARIABLES
    driver,         \* store.Driver of this deployment
    tab,            \* the tables, by database
    capturedN,      \* packets written so far
    decoded,        \* ghost: the events of each session, in the order written
    metric,         \* ghost: the last value of each window, by session
    owed,           \* events whose state changes are still to be written
    again,          \* events whose commit was not answered
    storeLeft       \* what is left of the bounds

sqlVars == <<driver, tab, capturedN, decoded, metric, owed, again, storeLeft>>

Conns == {Captured[i].conn : i \in DOMAIN Captured}
Windows == {1}
NoTables == [raws |-> <<>>, events |-> <<>>, index |-> <<>>, changes |-> <<>>, metrics |-> <<>>]

\* OpenCaptureStore: a file of its own for each session, or the shared database.
DB(s) == IF driver = "postgres" THEN "shared" ELSE s
AllDBs == CapSessions \cup {"shared"}

SqlInit ==
    /\ driver \in Drivers
    /\ tab = [d \in AllDBs |-> NoTables]
    /\ capturedN = 0
    /\ decoded = [s \in CapSessions |-> <<>>]
    /\ metric = [s \in CapSessions |-> [w \in Windows |-> 0]]
    /\ owed = <<>> /\ again = <<>>
    /\ storeLeft = [events |-> Len(EventIds), metrics |-> MaxMetrics, clears |-> MaxClears, lost |-> MaxLost]

-----------------------------------------------------------------------------
(* SQL *)

Where(rows, Test(_)) == SelectSeq(rows, Test)

\* INSERT ... ON CONFLICT(id) DO UPDATE: the row of that id is replaced.
Upsert(rows, row) ==
    IF \E i \in DOMAIN rows : rows[i].id = row.id
    THEN [i \in DOMAIN rows |-> IF rows[i].id = row.id THEN row ELSE rows[i]]
    ELSE Append(rows, row)

\* ORDER BY timestamp.
ByTime(rows, asc) ==
    LET before(i, j) == rows[i].ts < rows[j].ts \/ (rows[i].ts = rows[j].ts /\ i < j)
        at(k) == CHOOSE i \in DOMAIN rows : Cardinality({j \in DOMAIN rows : before(j, i)}) = k - 1
        up == [k \in DOMAIN rows |-> rows[at(k)]]
    IN IF asc THEN up ELSE Reverse(up)

\* LIMIT and OFFSET; a limit of zero or less leaves both out.
applyLimitOffset(rows, limit, offset) ==
    IF limit <= 0 THEN rows
    ELSE SubSeq(rows, offset + 1, IF offset + limit < Len(rows) THEN offset + limit ELSE Len(rows))

limitOffset(rows, limit, offset) == applyLimitOffset(rows, limit, offset)

-----------------------------------------------------------------------------
(* Writing *)

RawRow(p) == [id |-> p.id, sid |-> p.sid, ts |-> p.ts, conn |-> p.conn, up |-> p.up]
\* What a row keeps of an event, and scanEvent reads back; the payload is left out.
EventRow(e) == e
\* appendEventIndex: one row for each event, with what queries select on.
IndexRow(e) == [id |-> e.id, sid |-> e.sid, type |-> e.type, ts |-> e.ts, conn |-> e.conn, corr |-> e.corr]
ChangeRow(e) == [event |-> e.id, sid |-> e.sid, ts |-> e.ts]

\* INSERT OR REPLACE by packet id; a file has no session column.
AppendRawPackets_sqlite(t, s, p) == [t EXCEPT !.raws = Upsert(@, RawRow(p))]

\* The session is put in front of the arguments of the file version, whose first
\* is the packet id: the row gets the session as its id and the packet's id as
\* its session.
AppendRawPackets_pg(t, s, p) ==
    [t EXCEPT !.raws = Upsert(@, [RawRow(p) EXCEPT !.id = s, !.sid = p.id])]

AppendRawPackets ==
    LET p == Captured[capturedN + 1]
        s == p.sid
    IN /\ capturedN < Len(Captured)
       /\ tab' = [tab EXCEPT ![DB(s)] = IF driver = "postgres" THEN AppendRawPackets_pg(@, s, p)
                                        ELSE AppendRawPackets_sqlite(@, s, p)]
       /\ capturedN' = capturedN + 1
       /\ UNCHANGED <<driver, decoded, metric, owed, again, storeLeft>>

\* A plain INSERT in the file, an upsert in PostgreSQL; the index in the same
\* transaction.
AppendEvents_sqlite(t, e) ==
    [t EXCEPT !.events = Append(@, EventRow(e)), !.index = Append(@, IndexRow(e))]
AppendEvents_pg(t, e) ==
    [t EXCEPT !.events = Upsert(@, EventRow(e)), !.index = Upsert(@, IndexRow(e))]

\* An event of a packet that is stored.  In PostgreSQL the answer may be lost.
AppendEvents(n, ty, corr) ==
    LET p == Captured[n]
        e == [id |-> EventIds[Len(EventIds) - storeLeft.events + 1], sid |-> p.sid, type |-> ty, ts |-> p.ts,
              conn |-> p.conn, corr |-> corr, raw |-> p.id]
    IN /\ n <= capturedN /\ storeLeft.events > 0 /\ again = <<>>
       /\ tab' = [tab EXCEPT ![DB(p.sid)] = IF driver = "postgres" THEN AppendEvents_pg(@, e)
                                            ELSE AppendEvents_sqlite(@, e)]
       /\ decoded' = [decoded EXCEPT ![p.sid] = Append(@, e)]
       /\ \/ /\ owed' = Append(owed, e)
             /\ storeLeft' = [storeLeft EXCEPT !.events = @ - 1] /\ UNCHANGED again
          \/ /\ driver = "postgres" /\ storeLeft.lost > 0
             /\ again' = <<e>>
             /\ storeLeft' = [storeLeft EXCEPT !.events = @ - 1, !.lost = @ - 1] /\ UNCHANGED owed
       /\ UNCHANGED <<driver, capturedN, metric>>

\* The caller kept the events and writes them again.
AppendEventsAgain ==
    /\ again # <<>>
    /\ tab' = [tab EXCEPT ![DB(again[1].sid)] = AppendEvents_pg(@, again[1])]
    /\ decoded' = [decoded EXCEPT ![again[1].sid] =
                      IF again[1] \in Range(@) THEN @ ELSE Append(@, again[1])]
    /\ owed' = Append(owed, again[1]) /\ again' = <<>>
    /\ UNCHANGED <<driver, capturedN, metric, storeLeft>>

\* The change in an event's payload; its row gets a new id, whatever it is of.
\* Events of the first type carry none.
ExtractStateChanges(e) == IF e.type = "plain" THEN <<>> ELSE <<ChangeRow(e)>>
WriteEnrichedStateChanges(t, rows) == [t EXCEPT !.changes = @ \o rows]
WriteStateChanges ==
    /\ owed # <<>>
    /\ tab' = [tab EXCEPT ![DB(owed[1].sid)] = WriteEnrichedStateChanges(@, ExtractStateChanges(owed[1]))]
    /\ owed' = Tail(owed)
    /\ UNCHANGED <<driver, capturedN, decoded, metric, again, storeLeft>>

\* One row for each window, in PostgreSQL for each session and window.
WriteMetrics_sqlite(t, s, w, v) == [t EXCEPT !.metrics = Upsert(@, [id |-> w, sid |-> s, ts |-> w, val |-> v])]
WriteMetrics_pg(t, s, w, v) == [t EXCEPT !.metrics = Upsert(@, [id |-> <<s, w>>, sid |-> s, ts |-> w, val |-> v])]
WriteMetrics(s, w) ==
    LET v == MaxMetrics - storeLeft.metrics + 1 IN
    /\ storeLeft.metrics > 0
    /\ tab' = [tab EXCEPT ![DB(s)] = IF driver = "postgres" THEN WriteMetrics_pg(@, s, w, v)
                                     ELSE WriteMetrics_sqlite(@, s, w, v)]
    /\ metric' = [metric EXCEPT ![s][w] = v]
    /\ storeLeft' = [storeLeft EXCEPT !.metrics = @ - 1]
    /\ UNCHANGED <<driver, capturedN, decoded, owed, again>>

\* Before a session is decoded again: a file is emptied of what was decoded, in
\* PostgreSQL the rows of the session.  Packets and metrics stay.
ClearDecodedData_sqlite(t, s) == [t EXCEPT !.events = <<>>, !.changes = <<>>, !.index = <<>>]
ClearDecodedData_pg(t, s) ==
    LET others(rows) == Where(rows, LAMBDA r : r.sid # s)
    IN [t EXCEPT !.events = others(@), !.changes = others(@), !.index = others(@)]
ClearDecodedData(s) ==
    /\ storeLeft.clears > 0
    /\ \A e \in Range(owed) \cup Range(again) : e.sid # s
    /\ tab' = [tab EXCEPT ![DB(s)] = IF driver = "postgres" THEN ClearDecodedData_pg(@, s)
                                     ELSE ClearDecodedData_sqlite(@, s)]
    /\ decoded' = [decoded EXCEPT ![s] = <<>>]
    /\ storeLeft' = [storeLeft EXCEPT !.clears = @ - 1]
    /\ UNCHANGED <<driver, capturedN, metric, owed, again>>

SqlNext ==
    \/ AppendRawPackets
    \/ \E n \in DOMAIN Captured, ty \in EventTypes, corr \in {"", "k"} : AppendEvents(n, ty, corr)
    \/ AppendEventsAgain
    \/ WriteStateChanges
    \/ \E s \in CapSessions, w \in Windows : WriteMetrics(s, w)
    \/ \E s \in CapSessions : ClearDecodedData(s)

SqlSpec == SqlInit /\ [][SqlNext]_sqlVars
=============================================================================
