------------------------------ MODULE ProbeRows -----------------------------
(***************************************************************************)
(* What gt-pipeline remembers of its probes: the rows of control.sqlite    *)
(* (or of postgres: the statements are the same) and the manager's memory  *)
(* of who is connected and what it last said.  A handler runs one          *)
(* statement at a time, and the handlers of several calls interleave       *)
(* between the statements.  The command path is the subject of             *)
(* ProbeControl; here are the writers of the rows.                         *)
(*                                                                         *)
(* A probe is known by its place in the order of creation, a token by its  *)
(* place in the order of issue; 0 is none.                                 *)
(***************************************************************************)
EXTENDS Integers, Sequences, FiniteSets, Functions, FiniteSetsExt

CONSTANTS
    PrbUsers, Hostnames, PrbNames,
    PrbCalls,           \* 1 .. n, the handlers that run at once; a new one takes the first free number
    PrbSegments,        \* archive segments, numbered by their millisecond
    PrbWindows,         \* the sets of segments an answer may cover
    MaxRows, MaxHandled \* bounds: probes, and handlers that run until the server is done

ASSUME PrbAssumption ==
    /\ MaxRows \in Nat /\ PrbSegments \subseteq Nat \ {0}
    /\ \A w \in PrbWindows : w \subseteq PrbSegments

VARIABLES
    probeRows,          \* probes
    cached,             \* probe_archive_segments: probe -> segment -> what it was like
    conns, latest,      \* Manager: probes with a control stream, last status of each
    prbCalls,           \* handlers in progress
    given,             \* ghost: who was given each token
    reported,           \* ghost: probe -> segment -> what the probe last said of it
    handled,            \* ghost: handlers begun so far
    raced               \* ghost: what two handlers worked on at the same time, or a probe moved to

prbVars == <<probeRows, cached, conns, latest, prbCalls, given, reported, handled, raced>>
managerMemory == <<conns, latest>>
ghosts == <<given, reported>>

NoHandler == [op |-> "idle", on |-> <<>>, id |-> 0, user |-> 0, host |-> 0, status |-> 0, segs |-> <<>>, old |-> <<>>]
Probes == DOMAIN probeRows
Overlay(new, old) == [x \in DOMAIN new \cup DOMAIN old |-> IF x \in DOMAIN new THEN new[x] ELSE old[x]]

-----------------------------------------------------------------------------
(* Statements *)

\* UpsertProbe: a row that exists keeps its owner, its age and its status.
UpsertProbe(id, u, h, t) ==
    IF id = 0
    THEN Append(probeRows, [owner |-> u, host |-> h, name |-> h, token |-> t, status |-> 0])
    ELSE [probeRows EXCEPT ![id].name = h, ![id].host = h, ![id].token = t]
GetProbe_AnyOwner(id, u) == id = 0 \/ id \in Probes
GetProbe(id, u) == id = 0 \/ (id \in Probes /\ probeRows[id].owner = u)
GetProbeByTokenHash(t) == {p \in Probes : t # 0 /\ probeRows[p].token = t}
\* ListProbes is newest first: the first row of this machine.
SameMachine(u, h) == {p \in Probes : probeRows[p].owner = u /\ probeRows[p].host = h}
UpdateProbeStatus(id, st) == [probeRows EXCEPT ![id].status = st]
RenameProbe(id, n) == [probeRows EXCEPT ![id].name = n]
RevokeProbe(id) == [probeRows EXCEPT ![id].token = 0]
ReplaceProbeSegments(id, segs) == [cached EXCEPT ![id] = segs]
ListProbeSegments(id, from, to) ==
    Restrict(cached[id], {s \in DOMAIN cached[id] : (from > 0 => s >= from) /\ (to > 0 => s <= to)})

-----------------------------------------------------------------------------
(* Handlers *)

InHand(x) == \E c \in PrbCalls : prbCalls[c].op # "idle" /\ prbCalls[c].on = x
\* A known probe registers from a machine that is called something else by now.
NewlyNamed(call) == call.op = "upsert" /\ probeRows[call.id].host # call.host
Starts(c, call) ==
    /\ prbCalls[c] = NoHandler /\ \A x \in PrbCalls : x < c => prbCalls[x] # NoHandler
    /\ handled < MaxHandled /\ handled' = handled + 1
    /\ prbCalls' = [prbCalls EXCEPT ![c] = call]
    /\ raced' = IF (call.op # "revoke" /\ InHand(call.on)) \/ NewlyNamed(call) THEN raced \cup {call.on} ELSE raced
HandlerReturns(c) == prbCalls' = [prbCalls EXCEPT ![c] = NoHandler]

\* RegisterProbe: prev must be the caller's; without it the machine is looked up by its
\* name, then the row is written.
Register(c, u, h, prev) ==
    /\ GetProbe(prev, u)
    /\ Starts(c, [NoHandler EXCEPT !.op = IF prev = 0 THEN "lookup" ELSE "upsert", !.on = <<"machine", u, h>>, !.id = prev,
                              !.user = u, !.host = h])
    /\ UNCHANGED <<probeRows, cached, managerMemory, ghosts>>
LooksUp(c) ==
    LET k == prbCalls[c]
        same == SameMachine(k.user, k.host)
    IN  /\ k.op = "lookup"
        /\ prbCalls' = [prbCalls EXCEPT ![c].op = "upsert", ![c].id = IF same = {} THEN 0 ELSE Max(same)]
        /\ UNCHANGED <<probeRows, cached, managerMemory, ghosts, handled, raced>>
WritesRow(c) ==
    LET k == prbCalls[c]
    IN  /\ k.op = "upsert"
        /\ (k.id = 0 => Len(probeRows) < MaxRows)
        /\ probeRows' = UpsertProbe(k.id, k.user, k.host, Len(given) + 1)
        /\ given' = Append(given, k.user)
        /\ IF k.id # 0 THEN UNCHANGED <<cached, reported>>
           ELSE cached' = Append(cached, <<>>) /\ reported' = Append(reported, <<>>)
        /\ HandlerReturns(c) /\ UNCHANGED <<managerMemory, handled, raced>>

\* Connect and its end: the token names the probe.  The column connection_state they
\* write as well is left out: List and Get put the manager's own knowledge over it.
Connect(t) ==
    \E p \in GetProbeByTokenHash(t) :
       p \notin conns /\ conns' = conns \cup {p} /\ UNCHANGED <<probeRows, cached, latest, prbCalls, ghosts, handled, raced>>
Disconnect(p) ==
    p \in conns /\ conns' = conns \ {p} /\ UNCHANGED <<probeRows, cached, latest, prbCalls, ghosts, handled, raced>>
\* Revoke: the stream first, then the row.
Revoke(c, p) ==
    /\ Starts(c, [NoHandler EXCEPT !.op = "revoke", !.on = <<"token", p>>, !.id = p])
    /\ conns' = conns \ {p}
    /\ UNCHANGED <<probeRows, cached, latest, ghosts>>
\* applyHeartbeat: managerMemory under the mutex, then the row.
Heartbeat(c, p) ==
    /\ p \in conns
    /\ Starts(c, [NoHandler EXCEPT !.op = "status", !.on = <<"status", p>>, !.id = p, !.status = handled + 1])
    /\ latest' = Overlay([x \in {p} |-> handled + 1], latest)
    /\ UNCHANGED <<probeRows, cached, conns, ghosts>>
Writes(c) ==
    LET k == prbCalls[c]
    IN  /\ k.op \in {"revoke", "status"}
        /\ probeRows' = IF k.op = "revoke" THEN RevokeProbe(k.id) ELSE UpdateProbeStatus(k.id, k.status)
        /\ HandlerReturns(c) /\ UNCHANGED <<cached, managerMemory, ghosts, handled, raced>>
Rename(p, n) == probeRows' = RenameProbe(p, n) /\ UNCHANGED <<cached, managerMemory, prbCalls, ghosts, handled, raced>>

\* UpsertArchiveSegments with what a probe answered for a window: the list is read,
\* overlaid and written back whole.
MergeSegments(old, new) == Overlay(new, old)
ArchiveAnswered(c, p, window) ==
    LET answer == [s \in window |-> handled + 1]
    IN  /\ p \in conns
        /\ Starts(c, [NoHandler EXCEPT !.op = "list", !.on = <<"segments", p>>, !.id = p, !.segs = answer])
        /\ reported' = [reported EXCEPT ![p] = Overlay(answer, @)]
        /\ UNCHANGED <<probeRows, cached, managerMemory, given>>
ListsSegments(c) ==
    /\ prbCalls[c].op = "list"
    /\ prbCalls' = [prbCalls EXCEPT ![c].op = "replace", ![c].old = ListProbeSegments(prbCalls[c].id, 0, 0)]
    /\ UNCHANGED <<probeRows, cached, managerMemory, ghosts, handled, raced>>
ReplacesSegments(c) ==
    /\ prbCalls[c].op = "replace"
    /\ cached' = ReplaceProbeSegments(prbCalls[c].id, MergeSegments(prbCalls[c].old, prbCalls[c].segs))
    /\ HandlerReturns(c) /\ UNCHANGED <<probeRows, managerMemory, ghosts, handled, raced>>

\* The server goes away between two statements and comes back with the rows.
PrbRestart ==
    /\ conns # {} \/ \E c \in PrbCalls : prbCalls[c] # NoHandler
    /\ raced' = raced \cup {prbCalls[c].on : c \in {x \in PrbCalls :
                                                   prbCalls[x].op \in {"status", "list", "replace"}}}
    /\ conns' = {} /\ latest' = <<>> /\ prbCalls' = [c \in PrbCalls |-> NoHandler]
    /\ UNCHANGED <<probeRows, cached, ghosts, handled>>

\* Manager.List and Get: what a row shows, managerMemory first.
ListShows(p) ==
    [online |-> p \in conns, status |-> (IF p \in DOMAIN latest THEN latest[p] ELSE probeRows[p].status)]

PrbInit ==
    /\ probeRows = <<>> /\ cached = <<>> /\ conns = {} /\ latest = <<>>
    /\ prbCalls = [c \in PrbCalls |-> NoHandler]
    /\ given = <<>> /\ reported = <<>> /\ handled = 0 /\ raced = {}
PrbNext ==
    \/ \E c \in PrbCalls :
          \/ \E u \in PrbUsers, h \in Hostnames, prev \in 0 .. MaxRows : Register(c, u, h, prev)
          \/ LooksUp(c) \/ WritesRow(c) \/ Writes(c) \/ ListsSegments(c) \/ ReplacesSegments(c)
          \/ \E p \in Probes : Revoke(c, p) \/ Heartbeat(c, p)
          \/ \E p \in Probes, w \in PrbWindows : ArchiveAnswered(c, p, w)
    \/ \E t \in DOMAIN given : Connect(t)
    \/ \E p \in Probes : Disconnect(p) \/ \E n \in PrbNames : Rename(p, n)
    \/ PrbRestart
PrbSpec == PrbInit /\ [][PrbNext]_prbVars

-----------------------------------------------------------------------------
(* Properties *)

\* A token that still opens a probe opens one of the user who was given it, and no
\* other probe beside.
TokenIsTheirs ==
    \A t \in DOMAIN given :
       /\ Cardinality(GetProbeByTokenHash(t)) <= 1
       /\ \A p \in GetProbeByTokenHash(t) : probeRows[p].owner = given[t]

\* A machine has one row however often its agent registers, unless it registered
\* twice at once or a probe took its name that had registered under another.
OneRowPerMachine ==
    \A u \in PrbUsers, h \in Hostnames :
       Cardinality(SameMachine(u, h)) > 1 => <<"machine", u, h>> \in raced

\* The list of an offline probe's archive holds every segment it reported, as last
\* reported, unless two answers were merged at once or the server went away meanwhile.
SegmentsListed ==
    \A p \in Probes : <<"segments", p>> \notin raced /\ ~InHand(<<"segments", p>>) =>
       /\ cached[p] = reported[p]
       /\ \A s \in PrbSegments : DOMAIN ListProbeSegments(p, s, s) = {s} \cap DOMAIN reported[p]

\* What is shown of a probe is what would be shown after a restart, but for the
\* connection.
SnapshotStored ==
    \A p \in Probes : <<"status", p>> \notin raced /\ ~InHand(<<"status", p>>) =>
       ListShows(p).status = probeRows[p].status

ProbesKept == TokenIsTheirs /\ OneRowPerMachine /\ SegmentsListed /\ SnapshotStored
=============================================================================
