----------------------------- MODULE SqlQueries -----------------------------
(***************************************************************************)
(* What gt-mcp answers from the capture store: decoded events by page and  *)
(* filter, raw packets, state changes, metrics, and the connections of a   *)
(* proxied capture with their streams and frames.  Each operator is one    *)
(* query, on the tables as they are; those of PostgreSQL end in _pg.       *)
(*                                                                         *)
(* A filter is an expression tree: a comparison of the event type with a   *)
(* constant, a test of the payload (here: from which packet it was decoded)*)
(* or two filters joined by and, or.                                       *)
(***************************************************************************)
EXTENDS SqlStore

CONSTANTS Ports     \* conn -> [client, server: port, meta: proxied with addresses]

Rows(s) == tab[DB(s)]
OfSession(rows, s) == Where(rows, LAMBDA r : r.sid = s)

-----------------------------------------------------------------------------
(* Events *)

QueryEventsOrdered_sqlite(s, limit, offset, asc) ==
    applyLimitOffset(ByTime(OfSession(Rows(s).events, s), asc), limit, offset)
queryEventsOrdered_pg(s, limit, offset, asc) ==
    limitOffset(ByTime(OfSession(Rows(s).events, s), asc), limit, offset)

\* A constant that is empty means no condition.
eventPageWhere(rows, q) ==
    Where(OfSession(rows, q.sid),
          LAMBDA e : IF q.eq # "" THEN e.type = q.eq ELSE q.ne = "" \/ e.type # q.ne)
eventPageWhere_pg(rows, q) == eventPageWhere(rows, q)

\* The page and the number of events on all pages.
QueryEventPage_sqlite(q, limit, offset) ==
    LET all == eventPageWhere(Rows(q.sid).events, q)
    IN [page |-> applyLimitOffset(ByTime(all, FALSE), limit, offset), total |-> Len(all)]
QueryEventPage_pg(q, limit, offset) ==
    LET all == eventPageWhere_pg(Rows(q.sid).events, q)
    IN [page |-> applyLimitOffset(ByTime(all, FALSE), limit, offset), total |-> Len(all)]
QueryEventPage(q, limit, offset) ==
    IF driver = "postgres" THEN QueryEventPage_pg(q, limit, offset) ELSE QueryEventPage_sqlite(q, limit, offset)

\* Newest first, in batches that the caller goes through one after the other.
StreamEventsDesc_sqlite(q) == ByTime(eventPageWhere(Rows(q.sid).events, q), FALSE)
StreamEventsDesc_pg(q) == ByTime(eventPageWhere_pg(Rows(q.sid).events, q), FALSE)
StreamEventsDesc(q) == IF driver = "postgres" THEN StreamEventsDesc_pg(q) ELSE StreamEventsDesc_sqlite(q)

-----------------------------------------------------------------------------
(* list_decoded_data *)

Atom == [op : {"==", "!="}, val : EventTypes] \cup [op : {"data"}, val : {Captured[1].id}]
Filters == Atom \cup [op : {"and", "or"}, left : Atom, right : {f \in Atom : f.op = "data" \/ (f.op = "==" /\ f.val = "plain")}]

\* What the expression says of an event.
RECURSIVE Holds(_, _)
Holds(f, e) == CASE f.op = "==" -> e.type = f.val
                 [] f.op = "!=" -> e.type # f.val
                 [] f.op = "data" -> e.raw = f.val
                 [] f.op = "and" -> Holds(f.left, e) /\ Holds(f.right, e)
                 [] f.op = "or" -> Holds(f.left, e) \/ Holds(f.right, e)

RECURSIVE splitConjuncts(_)
splitConjuncts_OrToo(f) == IF f.op \in {"and", "or"} THEN <<f.left, f.right>> ELSE <<f>>
splitConjuncts(f) == IF f.op = "and" THEN splitConjuncts(f.left) \o splitConjuncts(f.right) ELSE <<f>>

protocolComparison(f) == f.op \in {"==", "!="}

\* The first comparison of the type goes into the query; when it is the whole
\* filter, the query alone decides.
parseFilterPushdown(f) ==
    LET cs == splitConjuncts(f)
        types == SelectSeq(cs, protocolComparison)
    IN [eq |-> IF types # <<>> /\ types[1].op = "==" THEN types[1].val ELSE "",
        ne |-> IF types # <<>> /\ types[1].op = "!=" THEN types[1].val ELSE "",
        pure |-> Len(types) = Len(cs) /\ Len(cs) <= 1]

\* A page of the events that satisfy the filter, newest first, and their number.
\* No limit gives an empty page.
handleListDecodedData(s, f, limit, offset) ==
    LET pd == parseFilterPushdown(f)
        q == [sid |-> s, eq |-> pd.eq, ne |-> pd.ne]
        found == QueryEventPage(q, IF limit <= 0 THEN 1 ELSE limit, offset)
        matched == SelectSeq(StreamEventsDesc(q), LAMBDA e : Holds(f, e))
    IN IF pd.pure THEN [events |-> IF limit > 0 THEN found.page ELSE <<>>, total |-> found.total]
       ELSE [events |-> SubSeq(matched, offset + 1, IF offset + limit < Len(matched) THEN offset + limit ELSE Len(matched)),
             total |-> Len(matched)]

-----------------------------------------------------------------------------
(* Raw packets, state changes, metrics *)

\* A file holds one session; PostgreSQL selects by the session column.
QueryRawPackets_sqlite(s, limit, offset) == applyLimitOffset(ByTime(Rows(s).raws, TRUE), limit, offset)
QueryRawPackets_pg(s, limit, offset) == limitOffset(ByTime(OfSession(Rows(s).raws, s), TRUE), limit, offset)
handleListRawPackets(s, limit, offset) ==
    IF driver = "postgres" THEN QueryRawPackets_pg(s, limit, offset) ELSE QueryRawPackets_sqlite(s, limit, offset)

QueryStateChanges_sqlite(s) == ByTime(OfSession(Rows(s).changes, s), TRUE)
QueryStateChanges_pg(s) == ByTime(OfSession(Rows(s).changes, s), TRUE)
handleListStateChanges(s) == IF driver = "postgres" THEN QueryStateChanges_pg(s) ELSE QueryStateChanges_sqlite(s)

QueryMetrics_sqlite(s) == ByTime(Rows(s).metrics, TRUE)
QueryMetrics_pg(s) == ByTime(OfSession(Rows(s).metrics, s), TRUE)
handleAggregateQuery(s) == IF driver = "postgres" THEN QueryMetrics_pg(s) ELSE QueryMetrics_sqlite(s)

-----------------------------------------------------------------------------
(* Connections: these are the queries of the file version *)

FramesOf(s, c) == Where(Rows(s).raws, LAMBDA r : r.conn = c)
IndexOf(s, c) == Where(OfSession(Rows(s).index, s), LAMBDA r : r.conn = c)
TimesOf(rows) == {rows[i].ts : i \in DOMAIN rows}
Least(S) == CHOOSE x \in S : \A y \in S : x <= y
Greatest(S) == CHOOSE x \in S : \A y \in S : x >= y
StreamKey(e) == IF e.corr = "" THEN e.id ELSE e.corr

\* Without addresses in the metadata, the side with the lower port is the server.
orientByPort(r) ==
    LET src == IF r.up THEN "client" ELSE "server"
        dst == IF r.up THEN "server" ELSE "client"
        port == Ports[r.conn]
    IN IF port[src] < port[dst] THEN [client |-> dst, server |-> src] ELSE [client |-> src, server |-> dst]
endpointsFromMeta(r) ==
    IF Ports[r.conn].meta THEN [client |-> "client", server |-> "server"] ELSE orientByPort(r)

enrichConnEvents(s, c) ==
    LET ix == ByTime(IndexOf(s, c), TRUE)
    IN [events |-> Len(ix), type |-> IF ix = <<>> THEN "" ELSE ix[1].type]

\* One row for each connection with packets, the last active first.
ConnRow(s, c) ==
    LET fs == FramesOf(s, c)
    IN [conn |-> c, first |-> Least(TimesOf(fs)), ts |-> Greatest(TimesOf(fs)), frames |-> Len(fs),
        ends |-> endpointsFromMeta(ByTime(fs, TRUE)[1]), stats |-> enrichConnEvents(s, c)]
QueryConnections(s) ==
    LET shown == SetToSeq({c \in Conns \ {""} : FramesOf(s, c) # <<>>})
    IN ByTime([i \in DOMAIN shown |-> ConnRow(s, shown[i])], FALSE)

\* One connection, or nothing when it has neither packets nor events.
QueryConnectionDetail(s, c) ==
    LET fs == FramesOf(s, c)
        ix == IndexOf(s, c)
    IN IF fs = <<>> /\ ix = <<>> THEN <<>>
       ELSE << [conn |-> c, frames |-> Len(fs), stats |-> enrichConnEvents(s, c),
                first |-> IF fs = <<>> THEN 0 ELSE Least(TimesOf(fs)),
                ts |-> IF fs = <<>> THEN 0 ELSE Greatest(TimesOf(fs)),
                ends |-> IF fs = <<>> THEN [client |-> "", server |-> ""]
                         ELSE endpointsFromMeta(ByTime(fs, TRUE)[1]),
                streams |-> Cardinality({StreamKey(ix[i]) : i \in DOMAIN ix})] >>

\* PostgreSQL (16): packets by the session column; the counts of the list are
\* never filled in, because the statement is given one argument too many.
FramesOf_pg(s, c) == Where(OfSession(Rows(s).raws, s), LAMBDA r : r.conn = c)
enrichConnEvents_pg(s, c) == [events |-> 0, type |-> ""]
QueryConnections_pg(s) ==
    LET shown == SetToSeq({c \in Conns \ {""} : FramesOf_pg(s, c) # <<>>})
    IN ByTime([i \in DOMAIN shown |->
                  [conn |-> shown[i], frames |-> Len(FramesOf_pg(s, shown[i])),
                   ts |-> Greatest(TimesOf(FramesOf_pg(s, shown[i]))), stats |-> enrichConnEvents_pg(s, shown[i])]], FALSE)
QueryConnectionDetail_pg(s, c) ==
    LET ix == IndexOf(s, c)
    IN IF FramesOf_pg(s, c) = <<>> /\ ix = <<>> THEN <<>>
       ELSE << [conn |-> c, frames |-> Len(FramesOf_pg(s, c)), stats |-> enrichConnEvents(s, c),
                streams |-> Cardinality({StreamKey(ix[i]) : i \in DOMAIN ix})] >>
handleListConnections(s, limit, offset) ==
    applyLimitOffset(IF driver = "postgres" THEN QueryConnections_pg(s) ELSE QueryConnections(s), limit, offset)
handleGetConnectionDetail(s, c) ==
    IF driver = "postgres" THEN QueryConnectionDetail_pg(s, c) ELSE QueryConnectionDetail(s, c)

\* The events whose index row is of the connection, oldest first.
QueryConnectionEvents(s, c) ==
    ByTime(Where(Rows(s).events, LAMBDA e : \E i \in DOMAIN IndexOf(s, c) : IndexOf(s, c)[i].id = e.id), TRUE)

\* Events that share a correlation form a stream, any other is a stream of its
\* own; streams are numbered as their first events come.
QueryConnectionStreams(s, c) ==
    LET es == QueryConnectionEvents(s, c)
        firsts == SelectSeq([i \in DOMAIN es |-> i],
                            LAMBDA i : \A j \in 1..(i - 1) : StreamKey(es[j]) # StreamKey(es[i]))
    IN [n \in DOMAIN firsts |-> [seq |-> n, key |-> StreamKey(es[firsts[n]]),
                                 events |-> SelectSeq(es, LAMBDA e : StreamKey(e) = StreamKey(es[firsts[n]]))]]
\* In PostgreSQL the join has two columns of each name, and the query fails.
Failed == << [seq |-> 0, key |-> "error", events |-> <<>>] >>
handleListConnectionStreams(s, c, limit, offset) ==
    IF driver = "postgres" THEN Failed ELSE applyLimitOffset(QueryConnectionStreams(s, c), limit, offset)

QueryConnectionFrames(s, c) == ByTime(FramesOf(s, c), TRUE)
QueryConnectionFrames_pg(s, c) == ByTime(FramesOf_pg(s, c), TRUE)
handleListConnectionFrames(s, c, limit, offset) ==
    applyLimitOffset(IF driver = "postgres" THEN QueryConnectionFrames_pg(s, c) ELSE QueryConnectionFrames(s, c), limit, offset)

\* The capture context shown with each event: the connections numbered by their
\* last event, and in each of them the number of streams begun up to the event.
buildCaptureContextFromIndex(s) ==
    ByTime(Where(OfSession(Rows(s).index, s), LAMBDA r : r.conn # ""), FALSE)
buildCaptureContextFromRows(rows) ==
    LET firsts(c) == Least({i \in DOMAIN rows : rows[i].conn = c})
        connSeq(c) == Cardinality({d \in {rows[i].conn : i \in DOMAIN rows} : firsts(d) <= firsts(c)})
        upTo(i) == {j \in DOMAIN rows : j >= i /\ rows[j].conn = rows[i].conn}
    IN {[id |-> rows[i].id, conn |-> rows[i].conn, connSeq |-> connSeq(rows[i].conn), stream |-> StreamKey(rows[i]),
         streamSeq |-> Cardinality({StreamKey(rows[j]) : j \in upTo(i)})] : i \in DOMAIN rows}

-----------------------------------------------------------------------------
(* Properties *)

Used == {s \in CapSessions : Rows(s) # NoTables \/ decoded[s] # <<>>}

\* What list_decoded_data answers is the same, for every filter and page, whether
\* SQL or the expression does the selecting, and in both databases: the session's
\* events that satisfy the filter, newest first, cut to the page, and their number.
ListsExact ==
    \A s \in Used, f \in Filters :
        LET want == SelectSeq(ByTime(decoded[s], FALSE), LAMBDA e : Holds(f, e))
        IN \A page \in {<<0, 0>>, <<1, 0>>, <<1, 1>>} :
            LET limit == page[1] offset == page[2]
            IN handleListDecodedData(s, f, limit, offset) =
                   [events |-> SubSeq(want, offset + 1, IF offset + limit < Len(want) THEN offset + limit ELSE Len(want)),
                    total |-> Len(want)]

\* Sessions that share a database do not show in each other's answers, and writing
\* again after a lost answer leaves the events and metrics as they were: a session's
\* events are those written since it was last cleared, its metrics the last value of
\* each window, its state changes those of its events.
SessionsApart ==
    \A s \in Used :
        /\ Range(QueryEventsOrdered_sqlite(s, 0, 0, TRUE)) = Range(decoded[s])
        /\ queryEventsOrdered_pg(s, 0, 0, TRUE) = ByTime(decoded[s], TRUE)
        /\ \A w \in Windows : metric[s][w] =
               IF \E r \in Range(handleAggregateQuery(s)) : r.ts = w
               THEN (CHOOSE r \in Range(handleAggregateQuery(s)) : r.ts = w).val ELSE 0
        /\ {r.event : r \in Range(handleListStateChanges(s))} =
               {e.id : e \in {x \in Range(decoded[s]) \ (Range(owed) \cup Range(again)) : x.type # "plain"}}

\* The views of a connection agree.  In the file version the row in the list is the
\* head of the detail page, which counts as many frames, streams and events as the
\* frame and stream pages show, the side that opened the connection is its client
\* whichever side the first packet seen came from, and every event's connection is
\* listed.  In PostgreSQL the detail page counts the session's own events and
\* streams, and there is one for every connection that has an event.
ConnectionsAgree ==
    \A s \in Used :
        /\ driver = "sqlite" =>
           \A row \in Range(handleListConnections(s, 0, 0)) :
               LET d == handleGetConnectionDetail(s, row.conn)[1]
                   streams == handleListConnectionStreams(s, row.conn, 0, 0)
               IN /\ row.ends = d.ends /\ row.stats = d.stats /\ row.frames = d.frames
                  /\ row.first = d.first /\ row.ts = d.ts
                  /\ d.frames = Len(handleListConnectionFrames(s, row.conn, 0, 0))
                  /\ d.streams = Len(streams)
                  /\ d.stats.events = FoldSeq(LAMBDA st, n : n + Len(st.events), 0, streams)
                  /\ row.ends = [client |-> "client", server |-> "server"]
        /\ driver = "sqlite" =>
           \A e \in Range(decoded[s]) : e.conn # "" => \E row \in Range(handleListConnections(s, 0, 0)) : row.conn = e.conn
        /\ driver = "postgres" =>
           \A c \in Conns \ {""} :
               LET own == {e \in Range(decoded[s]) : e.conn = c}
                   d == handleGetConnectionDetail(s, c)
               IN IF own = {} THEN d = <<>>
                  ELSE d[1].stats.events = Cardinality(own) /\ d[1].streams = Cardinality({StreamKey(e) : e \in own})

\* The packets of a session are listed: those written, in either database.
\* Comments in the store and a test of it claim this; PostgreSQL does not.
RawsListed ==
    \A s \in CapSessions :
        {r.id : r \in Range(handleListRawPackets(s, 0, 0))} =
        {Captured[i].id : i \in {j \in 1..capturedN : Captured[j].sid = s}}

\* The stream number shown with an event is the number of its stream.
StreamNumbersAgree ==
    driver = "sqlite" =>
    \A s \in CapSessions : \A cc \in buildCaptureContextFromRows(buildCaptureContextFromIndex(s)) :
        \E n \in DOMAIN QueryConnectionStreams(s, cc.conn) :
            /\ QueryConnectionStreams(s, cc.conn)[n].key = cc.stream
            /\ QueryConnectionStreams(s, cc.conn)[n].seq = cc.streamSeq

\* The three together: what a session's readers are told is what was written for it.
AnswersExact == ListsExact /\ SessionsApart /\ ConnectionsAgree

=============================================================================
