----------------------------- MODULE TraceFlow ------------------------------
(***************************************************************************)
(* What decoded messages mean to each other: protocol.yaml gives a message *)
(* its role and its correlation, the capture task ties a response to the   *)
(* request it remembers, and gt-mcp reads the stored events back as the    *)
(* steps of one flow (trace_protocol_flow) and as the tree of a session    *)
(* (get_session_timeline).                                                 *)
(*                                                                         *)
(* A message is a record: its flow, direction, name (base and suffix), and *)
(* its payload as a function from paths to values.  An event is known by   *)
(* its place in the order of decoding.  Times are in units of a second;    *)
(* packets of different flows may be decoded out of the order of time.     *)
(***************************************************************************)
EXTENDS Integers, Sequences, FiniteSets, SequencesExt, FiniteSetsExt

CONSTANTS
    Messages,           \* what a packet may decode to
    Protocols,          \* files given with -protocol
    PendingLimit,       \* requests a correlation store remembers
    Delays,             \* bound: steps of time between two decoded messages
    MaxEvents,          \* bound: events of the session
    PairWindow,         \* 2000 ms
    RelatedWindow,      \* 5000 ms
    FlowLimit,          \* events queryFlowMessages reads
    NoValue             \* a path the payload does not have, or a null there

VARIABLES
    protocol,           \* the resolver's rules, or NoProtocol
    store,              \* correlation.Store
    events              \* what the session's database holds, in the order of decoding

trcVars == <<protocol, store, events>>

NoProtocol == [id |-> "", defs |-> <<>>, rules |-> <<>>, push |-> <<>>, code |-> "", success |-> {}]
NoCorr == [dir |-> "none", rule |-> "", value |-> NoValue]
NoKey == <<>>

-----------------------------------------------------------------------------
(* protocol.yaml *)

Distinct(s) == \A i, j \in DOMAIN s : s[i] = s[j] => i = j

\* File.Validate: a value twice is noticed only among definitions that have a role.
Validate(f) ==
    /\ (f.defs # <<>> => f.id # "")
    /\ \A i \in DOMAIN f.defs : f.defs[i].value # NoValue /\ f.defs[i].name # ""
    /\ \A i, j \in DOMAIN f.defs :
          f.defs[i].role # "" /\ f.defs[j].role # "" /\ f.defs[i].value = f.defs[j].value => i = j
    /\ \A i \in DOMAIN f.rules : f.rules[i].request # "" /\ f.rules[i].response # ""
    /\ Distinct(SelectSeq([i \in DOMAIN f.rules |-> f.rules[i].name], LAMBDA n : n # ""))
    /\ \A i \in DOMAIN f.push : f.push[i].expr # ""

Roles == {"request", "response", "push", "unknown"}
\* resolver.New: what Start of the capture task needs beside.
NewResolver(f) ==
    /\ \A i \in DOMAIN f.defs : f.defs[i].role \in Roles \cup {""}
    /\ Distinct([i \in DOMAIN f.defs |-> f.defs[i].value])

\* matcher.Raw and matcher.Get; Equals takes 10 and "10.0" for the same number.
MatcherGet(json, path) == IF path = "" THEN NoValue ELSE json[path]
Number == [v \in {"0.0"} |-> "0"]
Canon(v) == IF v \in DOMAIN Number THEN Number[v] ELSE v
Equals(v, want) == v # NoValue /\ Canon(v) = Canon(want)

-----------------------------------------------------------------------------
(* ProtocolResolver.Resolve *)

isPush(json) ==
    \E i \in DOMAIN protocol.push :
        LET rule == protocol.push[i]  v == MatcherGet(json, rule.expr) IN
        v # NoValue /\ (rule.equals = {} \/ \E want \in rule.equals : Equals(v, want))

corrFrom(json, rule, path, dir) ==
    LET v == MatcherGet(json, path) IN IF v = NoValue THEN NoCorr ELSE [dir |-> dir, rule |-> rule.name, value |-> v]

\* The direction is the message's role; a message of another role is tried as a
\* request and then as a response.
matchCorrelation(json, rule, role) ==
    LET asRequest == corrFrom(json, rule, rule.request, "request")
        asResponse == corrFrom(json, rule, rule.response, "response")
    IN CASE role = "request" -> asRequest
         [] role = "response" -> asResponse
         [] OTHER -> IF asRequest # NoCorr THEN asRequest ELSE asResponse

Definition(json) == {i \in DOMAIN protocol.defs : protocol.defs[i].value = MatcherGet(json, protocol.id)}
MessageRole(json) ==
    IF Definition(json) = {} THEN "unknown"
    ELSE LET r == protocol.defs[CHOOSE i \in Definition(json) : TRUE].role IN IF r = "" THEN "unknown" ELSE r

resolveError(json) ==
    LET v == MatcherGet(json, protocol.code) IN
    IF v = NoValue THEN "none" ELSE IF \E want \in protocol.success : Equals(v, want) THEN "ok" ELSE "failed"

ResolveJson(json) ==
    LET role == MessageRole(json)
        found == SelectSeq([i \in DOMAIN protocol.rules |-> matchCorrelation(json, protocol.rules[i], role)],
                           LAMBDA c : c # NoCorr)
    IN [role     |-> role,
        delivery |-> IF isPush(json) THEN "push" ELSE role,
        corr     |-> IF found = <<>> THEN NoCorr ELSE Head(found),
        error    |-> resolveError(json)]

-----------------------------------------------------------------------------
(* The requests a task remembers *)

\* Remember: the later request has the key, which keeps its first place in the
\* order of eviction.
Remember(st, key, id) ==
    LET order == IF key \in DOMAIN st.pending THEN st.order ELSE Append(st.order, key)
        pending == [k \in DOMAIN st.pending \cup {key} |-> IF k = key THEN id ELSE st.pending[k]]
        over == IF Len(order) > PendingLimit THEN Len(order) - PendingLimit ELSE 0
        gone == {order[i] : i \in 1..over}
    IN [order |-> SubSeq(order, over + 1, Len(order)), pending |-> Restrict(pending, DOMAIN pending \ gone)]
Lookup(st, key) == IF key \in DOMAIN st.pending THEN st.pending[key] ELSE 0

correlationKey(flow, c) == <<flow, c.rule, c.value>>

\* captureTask.enrichProtocol: a request is remembered, a response gets the event
\* of its request as its cause, and both get the key as their conversation.
enrichProtocol(m, id) ==
    LET res == ResolveJson(m.json)
        key == correlationKey(m.flow, res.corr)
        tied == protocol # NoProtocol /\ res.corr # NoCorr /\ res.corr.value # ""
    IN [proto |-> res,
        conv  |-> IF tied THEN key ELSE NoKey,
        cause |-> IF tied /\ res.corr.dir = "response" THEN Lookup(store, key) ELSE 0,
        store |-> IF tied /\ res.corr.dir = "request" THEN Remember(store, key, id) ELSE store]

TrcInit ==
    /\ protocol \in {f \in Protocols : Validate(f) /\ NewResolver(f)} \cup {NoProtocol}
    /\ store = [order |-> <<>>, pending |-> [k \in {} |-> 0]]
    /\ events = <<>>

\* processDecoded: the message is given its meaning and stored.
Decodes(m, d) ==
    /\ Len(events) < MaxEvents
    /\ LET id == Len(events) + 1
           at == d + IF events = <<>> THEN 0 ELSE Last(events).ts
           e == enrichProtocol(m, id)
       IN /\ events' = Append(events, [ts |-> at, msg |-> m, proto |-> e.proto, conv |-> e.conv, cause |-> e.cause])
          /\ store' = e.store
    /\ UNCHANGED protocol

TrcNext == \E m \in Messages, d \in Delays : Decodes(m, d)
TrcSpec == TrcInit /\ [][TrcNext]_trcVars

-----------------------------------------------------------------------------
(* trace_protocol_flow.  A list of messages is a sequence of event numbers *)
(* in the order of time; the index of a message is its place in the list.  *)

Msg(i) == events[i].msg
TimeOf(i) == events[i].ts
\* In the order of time, equal times in the order they were written.
InTime(list) == SortSeq(list, LAMBDA i, j : TimeOf(i) < TimeOf(j) \/ (TimeOf(i) = TimeOf(j) /\ i < j))
QueryEvents(limit, offset) ==
    LET sorted == InTime([i \in DOMAIN events |-> i]) IN SubSeq(sorted, offset + 1, Min({offset + limit, Len(sorted)}))

\* Only the first FlowLimit events of the session are looked at.
queryFlowMessages(flow, from, to) ==
    SelectSeq(QueryEvents(FlowLimit, 0), LAMBDA i : TimeOf(i) >= from /\ TimeOf(i) <= to /\ Msg(i).flow = flow)

\* parseNoiseFilter, applyNoiseFilter
applyNoiseFilter(ms, drop, heartbeats) ==
    SelectSeq(ms, LAMBDA i : ~(Msg(i).name \in drop) /\ ~(heartbeats /\ Msg(i).heartbeat))

IsRequest(i) == Msg(i).dir = "client_to_server" /\ ~Msg(i).push
IsAnswer(i) == Msg(i).dir = "server_to_client" /\ ~Msg(i).push
Delta(ms, i, j) == TimeOf(ms[j]) - TimeOf(ms[i])
Within(ms, i, window) == {j \in i + 1 .. Len(ms) : Delta(ms, i, j) <= window}
Answers(ms, i) == {j \in Within(ms, i, PairWindow) : IsAnswer(ms[j])}
NoAnswer == 0

\* StripReqRespSuffix leaves the base; a name without a suffix pairs with nothing.
SameBase(i, j) == Msg(i).base = Msg(j).base /\ Msg(i).suffixed

\* pairByMsgName: each request in turn takes the first answer of its name that no
\* earlier request took.
Taken_Forgotten(pairs) == {}
Taken(pairs) == {p.resp : p \in Range(pairs)}
ByName(ms, pairs, i) ==
    LET free == {j \in Answers(ms, i) \ Taken(pairs) : SameBase(ms[i], ms[j])} IN
    IF ~IsRequest(ms[i]) \/ free = {} THEN pairs ELSE Append(pairs, [req |-> i, resp |-> Min(free), rule |-> "name"])
pairByMsgName(ms) == FoldLeft(LAMBDA acc, i : ByName(ms, acc, i), <<>>, [i \in DOMAIN ms |-> i])

Unpaired(ms, pairs) ==
    SelectSeq([i \in DOMAIN ms |-> i], LAMBDA i : IsRequest(ms[i]) /\ \A p \in Range(pairs) : p.req # i)

\* pairByDirection: any other request takes the nearest answer, taken or not.
Nearest(ms, i) == Min({j \in Answers(ms, i) : \A k \in Answers(ms, i) : Delta(ms, i, j) <= Delta(ms, i, k)})
pairByDirection(ms, pairs) ==
    LET left == SelectSeq(Unpaired(ms, pairs), LAMBDA i : Answers(ms, i) # {}) IN
    pairs \o [k \in DOMAIN left |-> [req |-> left[k], resp |-> Nearest(ms, left[k]), rule |-> "direction"]]

\* finalizePairs: what is left has no response, and says so.
finalizePairs(ms, pairs) ==
    LET left == Unpaired(ms, pairs) IN
    pairs \o [k \in DOMAIN left |-> [req |-> left[k], resp |-> NoAnswer, rule |-> "unpaired"]]
Pairs(ms) == finalizePairs(ms, pairByDirection(ms, pairByMsgName(ms)))

\* identifyPushes: what the server sent soon after a request and nobody was paired with.
identifyPushes(ms, pairs, i) ==
    {j \in Within(ms, i, RelatedWindow) : Msg(ms[j]).dir = "server_to_client" /\ j \notin Taken(pairs)}

\* computeEntityDiffs: the fields of each entity that changed on the flow around a time.
computeEntityDiffs(flow, at, window) ==
    LET changes == UNION {Msg(i).changes : i \in {k \in DOMAIN events : /\ Msg(k).flow = flow
                                                                       /\ TimeOf(k) \in at - window .. at + window}}
    IN {[entity |-> c[1], fields |-> {d[2] : d \in {x \in changes : x[1] = c[1]}}] : c \in changes}

\* computeWhyRelated: the first step would be operation_start only without a reason
\* or with time_proximity, and it never is.
computeWhyRelated(k, step) ==
    {r \in {"time_proximity", "entity_diff", "response_chain", "push_followup", "unpaired_request"} :
        CASE r = "time_proximity" -> k > 1
          [] r = "entity_diff" -> step.diffs # {}
          [] r = "response_chain" -> step.resp # NoAnswer
          [] r = "push_followup" -> step.pushes # {}
          [] OTHER -> step.resp = NoAnswer}

\* computeCloseInfo: the side whose address sent the first FIN or RST of the flow.
FirstSrc(ms, dir) ==
    LET of == SelectSeq(ms, LAMBDA i : ~Msg(i).tcpClose /\ Msg(i).dir = dir /\ Msg(i).src # "") IN
    IF of = <<>> THEN "" ELSE Msg(Head(of)).src
computeCloseInfo(ms) ==
    LET closing == SelectSeq(ms, LAMBDA i : Msg(i).tcpClose)
        src == Msg(Head(closing)).src
    IN IF closing = <<>> THEN "none"
       ELSE IF src # "" /\ src = FirstSrc(ms, "client_to_server") THEN "client"
       ELSE IF src # "" /\ src = FirstSrc(ms, "server_to_client") THEN "server" ELSE "unknown"

\* handleTraceProtocolFlow, for the window of a run.
TraceProtocolFlow(flow, from, to, drop, diffWindow) ==
    LET all == queryFlowMessages(flow, from, to)
        ms == applyNoiseFilter(all, drop, TRUE)
        pairs == Pairs(ms)
        step(k) == [req |-> ms[pairs[k].req], rule |-> pairs[k].rule,
                    resp |-> IF pairs[k].resp = NoAnswer THEN NoAnswer ELSE ms[pairs[k].resp],
                    pushes |-> {ms[j] : j \in identifyPushes(ms, pairs, pairs[k].req)},
                    diffs |-> computeEntityDiffs(flow, TimeOf(ms[pairs[k].req]), diffWindow)]
    IN [messages |-> ms, close |-> computeCloseInfo(all), steps |-> [k \in DOMAIN pairs |-> step(k)],
        why |-> [k \in DOMAIN pairs |-> computeWhyRelated(k, step(k))]]

\* buildTraceSummary, of a trace too long to be returned.
buildTraceSummary(steps) ==
    [step_count |-> Len(steps),
     request_names |-> {Msg(steps[k].req).name : k \in DOMAIN steps},
     response_count |-> Cardinality({k \in DOMAIN steps : steps[k].resp # NoAnswer}),
     push_count |-> FoldLeft(LAMBDA n, s : n + Cardinality(s.pushes), 0, steps)]

-----------------------------------------------------------------------------
(* get_session_timeline *)

\* buildTimeline: an event is listed under its cause if the window holds it, and
\* as a root otherwise.
ParentIn(w, i) == IF events[i].cause \in Range(w) THEN events[i].cause ELSE 0
sortRoots(children) == InTime(children)
Children(w, i) == sortRoots(SelectSeq(w, LAMBDA j : ParentIn(w, j) = i))
Roots(w) == SelectSeq(w, LAMBDA j : ParentIn(w, j) = 0)

\* What the tree shows: the roots, their children, and so on.
Shown(w) ==
    LET level[n \in 0 .. Len(w)] ==
            IF n = 0 THEN Roots(w)
            ELSE FoldLeft(LAMBDA acc, i : acc \o Children(w, i), <<>>, level[n - 1])
    IN FoldLeft(LAMBDA acc, n : acc \o level[n - 1], <<>>, [n \in 1 .. Len(w) + 1 |-> n])

Conversations(w) ==
    LET of(c) == {i \in Range(w) : events[i].conv = c}
    IN {[conv |-> c, count |-> Cardinality(of(c))] : c \in {events[i].conv : i \in Range(w)} \ {NoKey}}
countDangling(w) == Cardinality({i \in Range(w) : events[i].cause # 0 /\ events[i].cause \notin Range(w)})

GetSessionTimeline(limit, offset) ==
    LET w == QueryEvents(limit, offset) IN
    [events |-> w, roots |-> Len(Roots(w)), shown |-> Shown(w), conversations |-> Conversations(w),
     capped |-> Len(w) >= limit, dangling |-> countDangling(w)]

-----------------------------------------------------------------------------
(* Properties *)

\* A response has the latest request of its flow with its rule and value for its
\* cause; it has none only if there was no such request, or if as many other
\* requests as the store holds came after the first one.  Nothing else has a cause.
CausesFound ==
    \A i \in DOMAIN events :
        LET e == events[i]
            requests == {k \in 1 .. i - 1 : events[k].proto.corr.dir = "request" /\ events[k].conv # NoKey}
            asked == {k \in requests : events[k].conv = e.conv}
        IN IF e.conv = NoKey \/ e.proto.corr.dir # "response" THEN e.cause = 0
           ELSE IF e.cause # 0 THEN asked # {} /\ e.cause = Max(asked)
           ELSE asked # {} =>
                    Cardinality({events[k].conv : k \in {r \in requests \ asked : r > Min(asked)}}) >= PendingLimit

\* Each request of the flow is one step; a response follows its request within the
\* window and is taken by its name at most once; a request without response had
\* none to take; and what is one step's response is no step's push.
StepsCover ==
    \A flow \in {Msg(i).flow : i \in DOMAIN events}, from \in {TimeOf(i) : i \in DOMAIN events} :
        LET t == TraceProtocolFlow(flow, from, from + 100, {}, 1)
            ms == t.messages
            steps == Range(t.steps)
            answers == {st.resp : st \in {x \in steps : x.resp # NoAnswer}}
        IN /\ {st.req : st \in steps} = {i \in Range(ms) : IsRequest(i)}
           /\ Len(t.steps) = Cardinality({i \in Range(ms) : IsRequest(i)})
           /\ \A st \in steps :
                /\ st.resp # NoAnswer => /\ IsAnswer(st.resp)
                                         /\ TimeOf(st.resp) - TimeOf(st.req) \in 0 .. PairWindow
                /\ st.resp = NoAnswer => \A i \in Range(ms) : IsAnswer(i) /\ TimeOf(i) > TimeOf(st.req)
                                                                => TimeOf(i) - TimeOf(st.req) > PairWindow
                /\ st.pushes \cap answers = {}
           /\ \A a, b \in {x \in steps : x.rule = "name"} : a.resp = b.resp => a = b

\* The tree of a session shows every event of the window once; a child has the
\* conversation of its parent, which asked before; and the roots are the events
\* without a cause and those whose cause the window misses.
TimelineWhole ==
    \A limit \in {2, MaxEvents}, offset \in 0 .. 1 :
        LET t == GetSessionTimeline(limit, offset)
            w == t.events
        IN /\ Len(t.shown) = Len(w) /\ Range(t.shown) = Range(w)
           /\ t.roots = Cardinality({i \in Range(w) : events[i].cause = 0}) + t.dangling
           /\ \A i \in Range(w) : ParentIn(w, i) # 0 => /\ ParentIn(w, i) < i
                                                        /\ events[ParentIn(w, i)].conv = events[i].conv
           /\ FoldLeft(LAMBDA n, i : n + IF events[i].conv = NoKey THEN 0 ELSE 1, 0, w)
                = FoldSet(LAMBDA c, n : n + c.count, 0, t.conversations)

\* Causes, steps and timeline together, of a session with events.
FlowsTold == events # <<>> => CausesFound /\ StepsCover /\ TimelineWhole
=============================================================================
