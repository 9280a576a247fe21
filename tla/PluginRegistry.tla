--------------------------- MODULE PluginRegistry ---------------------------
(***************************************************************************)
(* The registry of decoder plugins (RegistryServer) with the pairing of    *)
(* reverse tunnels.  A plugin that cannot be dialled registers with        *)
(* tunnel=true and opens a Connect stream; the two calls are independent,  *)
(* and neither names the other: the registry pairs, owner by owner, the    *)
(* first unbound registration with the first unclaimed stream.             *)
(*                                                                         *)
(* Every handler changes the tables under s.mu in one step and emits its   *)
(* events after it has released the lock.  A Connect call has the steps    *)
(* its goroutine takes: the closed check, the connect hook, the end of the *)
(* stream (sess.close), the disconnect hook.  TimePasses lets more than a  *)
(* heartbeat timeout go by; only CheckOffline looks at ages.               *)
(***************************************************************************)
EXTENDS Integers, Sequences, FiniteSets

CONSTANTS
    Owners,         \* authenticated owners and Anonymous
    Anonymous,      \* the owner "" of local and system plugins
    Names,          \* manifest names
    Conns,          \* Connect streams
    NoClient,       \* RegisteredPlugin.Client = nil
    Buffer,         \* capacity of a subscriber's channel
    MaxInstances,   \* bound: registrations in a behaviour
    MaxEmitting,    \* bound: events not yet emitted when another handler runs
    MaxSubscribes   \* bound: subscriptions in a behaviour

ASSUME RegistryAssumption ==
    /\ Anonymous \in Owners /\ Names # {}
    /\ NoClient \notin Conns /\ Conns \cap Nat = {} /\ NoClient \notin Nat
    /\ Buffer \in Nat \ {0} /\ MaxInstances \in Nat \ {0} /\ MaxEmitting \in Nat /\ MaxSubscribes \in Nat

VARIABLES
    plugins,     \* instance id -> RegisteredPlugin
    byName,      \* <<owner, name>> -> instance id
    pending,     \* tunnelPending: owner -> streams no registration has claimed
    awaiting,    \* tunnelAwaiting: owner -> registrations without a stream
    closed,      \* RegistryServer.closed
    nextID,      \* RegistryServer.nextID
    conns,       \* stream -> where its Connect call is, and its owner
    emitting,    \* events that handlers have still to emit
    subscribed, inbox, seen, subscribes  \* a listener: its channel and the list it last fetched

tables == <<plugins, byName, pending, awaiting, closed, nextID>>
listener == <<subscribed, inbox, seen, subscribes>>
vars == <<tables, conns, emitting, listener>>

Ids == 1..MaxInstances
Clients == Conns \cup Ids \cup {NoClient}   \* a dialled client is named by its instance
Keys == Owners \X Names                     \* pluginKey: owners and names hold no "/"
Plugin == [owner : Owners, name : Names, tunnel : BOOLEAN, client : Clients,
           online : BOOLEAN, age : 0..2]
ConnState == {"none", "checked", "open", "closed", "gone"}

\* PluginRegistry's List: what a listener fetches when it is told of a change.
Summaries == {<<id, plugins[id].online>> : id \in DOMAIN plugins}

(* tunnelClientClosed: the session of the stream has been closed. *)
Dead(c) == c \in Conns /\ conns[c].st \in {"closed", "gone"}

(* A function without some of its domain: Go's delete on a map. *)
Without(f, S) == [x \in DOMAIN f \ S |-> f[x]]
With(f, x, v) == [y \in DOMAIN f \cup {x} |-> IF y = x THEN v ELSE f[y]]

Init ==
    /\ plugins = <<>> /\ byName = <<>> /\ closed = FALSE /\ nextID = 0
    /\ pending = [o \in Owners |-> <<>>] /\ awaiting = [o \in Owners |-> <<>>]
    /\ conns = [c \in Conns |-> [st |-> "none", owner |-> Anonymous]]
    /\ emitting = 0 /\ subscribed = FALSE /\ inbox = 0 /\ seen = {} /\ subscribes = 0

-----------------------------------------------------------------------------
(* A handler leaves n events to be emitted once it has released the lock. *)
Emits(n) == emitting <= MaxEmitting /\ emitting' = emitting + n

(* q without the elements of S: SelectSeq as a function of the index, which *)
(* the proofs can unfold.                                                   *)
Lacking(q, S) ==
    LET kept[i \in 0..Len(q)] ==
            IF i = 0 THEN <<>> ELSE IF q[i] \in S THEN kept[i - 1] ELSE Append(kept[i - 1], q[i])
    IN  kept[Len(q)]

(* pruneTunnelPendingLocked *)
Pruned(q) == Lacking(q, {c \in Conns : Dead(c)})

(* bindNextTunnelLocked takes the stream it has bound off the queue. *)
Claimed_Kept(q) == q
Claimed(q) == Tail(q)

(* removeAwaitingLocked; an id is queued at most once *)
RemoveAwaiting_Nothing(aw, id) == aw
RemoveAwaiting(aw, id) == Lacking(aw, {id})

(* bindClientToAwaitingLocked: the first queued id that is still registered *)
(* and unbound, those before it thrown away.  <<id or 0, the queue left>>.  *)
FirstAwaiting(ps, aw) ==
    LET good == {i \in DOMAIN aw : aw[i] \in DOMAIN ps /\ ps[aw[i]].client = NoClient}
        i == CHOOSE j \in good : \A k \in good : j <= k
    IN  IF good = {} THEN <<0, <<>>>> ELSE <<aw[i], SubSeq(aw, i + 1, Len(aw))>>

Bound(ps, id, c) == [ps EXCEPT ![id].client = c, ![id].online = TRUE, ![id].age = 0]

Registration(o, n, tunnel, id) ==
    [owner |-> o, name |-> n, tunnel |-> tunnel, online |-> ~tunnel, age |-> 0,
     client |-> IF tunnel THEN NoClient ELSE id]

(* The same-name instance a registration replaces. *)
Replaced(o, n) ==
    IF <<o, n>> \in DOMAIN byName THEN {byName[<<o, n>>]} \cap DOMAIN plugins ELSE {}

(* Register, from the lock on; the requests it refuses before change nothing. *)
Register(o, n, tunnel) ==
    LET id == nextID + 1
        old == Replaced(o, n)
        ps == With(Without(plugins, old), id, Registration(o, n, tunnel, id))
        kept == Lacking(awaiting[o], old)
        live == Pruned(pending[o])
        first == FirstAwaiting(ps, Append(kept, id))
    IN  /\ ~closed /\ id \in Ids
        /\ nextID' = id
        /\ byName' = With(byName, <<o, n>>, id)
        /\ \/ /\ ~tunnel
              /\ plugins' = ps
              /\ awaiting' = [awaiting EXCEPT ![o] = kept]
              /\ Emits(1)
              /\ UNCHANGED pending
           \/ /\ tunnel /\ live = <<>>
              /\ plugins' = ps
              /\ awaiting' = [awaiting EXCEPT ![o] = Append(kept, id)]
              /\ pending' = [pending EXCEPT ![o] = live]
              /\ Emits(1)
           \/ /\ tunnel /\ live # <<>>    \* bindNextTunnelLocked
              /\ plugins' = Bound(ps, first[1], Head(live))
              /\ awaiting' = [awaiting EXCEPT ![o] = first[2]]
              /\ pending' = [pending EXCEPT ![o] = Claimed(live)]
              /\ Emits(IF first[1] = id THEN 2 ELSE 1)
        /\ UNCHANGED <<closed, conns, listener>>

(* Heartbeat; unknown instances and tunnels are left alone. *)
Heartbeat_Silent(id) ==
    /\ id \in DOMAIN plugins /\ ~plugins[id].tunnel
    /\ plugins' = [plugins EXCEPT ![id].online = TRUE, ![id].age = 0]
    /\ UNCHANGED <<byName, pending, awaiting, closed, nextID, conns, emitting, listener>>

Heartbeat(id) ==
    /\ id \in DOMAIN plugins /\ ~plugins[id].tunnel
    /\ plugins' = [plugins EXCEPT ![id].online = TRUE, ![id].age = 0]
    /\ Emits(IF plugins[id].online THEN 0 ELSE 1)
    /\ UNCHANGED <<byName, pending, awaiting, closed, nextID, conns, listener>>

Deregister(id) ==
    /\ id \in DOMAIN plugins
    /\ plugins' = Without(plugins, {id})
    /\ byName' = Without(byName, {<<plugins[id].owner, plugins[id].name>>})
    /\ awaiting' = [awaiting EXCEPT ![plugins[id].owner] = RemoveAwaiting(@, id)]
    /\ Emits(1)
    /\ UNCHANGED <<pending, closed, nextID, conns, listener>>

(* CheckOffline: tunnels whose session is dead and dialled plugins whose    *)
(* heartbeat is late go offline; a registration that never got its stream   *)
(* is removed after twice the timeout.                                      *)
Lost(id) ==
    /\ plugins[id].online
    /\ IF plugins[id].tunnel THEN Dead(plugins[id].client) ELSE plugins[id].age >= 1
Forgotten(id) == plugins[id].tunnel /\ plugins[id].client = NoClient /\ plugins[id].age = 2

CheckOffline ==
    LET lost == {id \in DOMAIN plugins : Lost(id)}
        reaped == {id \in DOMAIN plugins : Forgotten(id)}
    IN  /\ plugins' = [id \in DOMAIN plugins \ reaped |->
                          [plugins[id] EXCEPT !.online = @ /\ id \notin lost]]
        /\ byName' = Without(byName, {<<plugins[id].owner, plugins[id].name>> : id \in reaped})
        /\ awaiting' = [o \in Owners |-> Lacking(awaiting[o], reaped)]
        /\ Emits(Cardinality(lost) + Cardinality(reaped))
        /\ UNCHANGED <<pending, closed, nextID, conns, listener>>

(* More than a timeout goes by. *)
TimePasses ==
    /\ plugins' = [id \in DOMAIN plugins |-> [plugins[id] EXCEPT !.age = IF @ = 2 THEN 2 ELSE @ + 1]]
    /\ UNCHANGED <<byName, pending, awaiting, closed, nextID, conns, emitting, listener>>

Close ==
    /\ ~closed
    /\ closed' = TRUE /\ plugins' = <<>> /\ byName' = <<>>
    /\ pending' = [o \in Owners |-> <<>>] /\ awaiting' = [o \in Owners |-> <<>>]
    /\ UNCHANGED <<nextID, conns, emitting, listener>>

-----------------------------------------------------------------------------
(* One Connect call. *)

Connect(c, o) ==
    /\ conns[c].st = "none" /\ ~closed
    /\ conns' = [conns EXCEPT ![c] = [st |-> "checked", owner |-> o]]
    /\ UNCHANGED <<tables, emitting, listener>>

(* The connect hook: after Close it does nothing. *)
Ignores_Never == FALSE
Ignores == closed

bindTunnelClient_Pends(c) ==
    /\ conns[c].st = "checked"
    /\ conns' = [conns EXCEPT ![c].st = "open"]
    /\ pending' = [pending EXCEPT ![conns[c].owner] = IF closed THEN @ ELSE Append(Pruned(@), c)]
    /\ UNCHANGED <<plugins, awaiting, byName, closed, nextID, emitting, listener>>

bindTunnelClient(c) ==
    LET o == conns[c].owner
        first == FirstAwaiting(plugins, awaiting[o])
    IN  /\ conns[c].st = "checked"
        /\ conns' = [conns EXCEPT ![c].st = "open"]
        /\ \/ /\ Ignores
              /\ UNCHANGED <<plugins, pending, awaiting, emitting>>
           \/ /\ ~Ignores /\ first[1] # 0
              /\ plugins' = Bound(plugins, first[1], c)
              /\ awaiting' = [awaiting EXCEPT ![o] = first[2]]
              /\ Emits(1)
              /\ UNCHANGED pending
           \/ /\ ~Ignores /\ first[1] = 0
              /\ awaiting' = [awaiting EXCEPT ![o] = first[2]]
              /\ pending' = [pending EXCEPT ![o] = Append(Pruned(@), c)]
              /\ UNCHANGED <<plugins, emitting>>
        /\ UNCHANGED <<byName, closed, nextID, listener>>

(* The stream ends; sess.close runs before the disconnect hook. *)
SessionCloses(c) ==
    /\ conns[c].st = "open"
    /\ conns' = [conns EXCEPT ![c].st = "closed"]
    /\ UNCHANGED <<tables, emitting, listener>>

tunnelDisconnected(c) ==
    LET o == conns[c].owner
        offs == {id \in DOMAIN plugins : /\ plugins[id].tunnel /\ plugins[id].owner = o
                                         /\ Dead(plugins[id].client) /\ plugins[id].online}
    IN  /\ conns[c].st = "closed"
        /\ conns' = [conns EXCEPT ![c].st = "gone"]
        /\ IF Ignores
           THEN UNCHANGED <<plugins, pending, emitting>>
           ELSE /\ plugins' = [id \in DOMAIN plugins |->
                                  [plugins[id] EXCEPT !.online = @ /\ id \notin offs]]
                /\ pending' = [pending EXCEPT ![o] = Pruned(@)]
                /\ Emits(Cardinality(offs))
        /\ UNCHANGED <<byName, awaiting, closed, nextID, listener>>

-----------------------------------------------------------------------------
(* The event bus, and a listener that fetches the list on every event.      *)

Emit ==
    /\ emitting > 0
    /\ emitting' = emitting - 1
    /\ inbox' = IF subscribed /\ inbox < Buffer THEN inbox + 1 ELSE inbox
    /\ UNCHANGED <<tables, conns, subscribed, seen, subscribes>>

Subscribe ==
    /\ ~subscribed /\ subscribes < MaxSubscribes
    /\ subscribed' = TRUE /\ subscribes' = subscribes + 1
    /\ inbox' = 0 /\ seen' = Summaries
    /\ UNCHANGED <<tables, conns, emitting>>

Unsubscribe ==
    /\ subscribed
    /\ subscribed' = FALSE /\ inbox' = 0 /\ seen' = {}
    /\ UNCHANGED <<tables, conns, emitting, subscribes>>

Listens ==
    /\ subscribed /\ inbox > 0
    /\ inbox' = inbox - 1 /\ seen' = Summaries
    /\ UNCHANGED <<tables, conns, emitting, subscribed, subscribes>>

Next ==
    \/ \E o \in Owners, n \in Names, tunnel \in BOOLEAN : Register(o, n, tunnel)
    \/ \E id \in Ids : Heartbeat(id) \/ Deregister(id)
    \/ \E c \in Conns : \/ \E o \in Owners : Connect(c, o)
                        \/ bindTunnelClient(c) \/ SessionCloses(c) \/ tunnelDisconnected(c)
    \/ CheckOffline \/ TimePasses \/ Close
    \/ Emit \/ Subscribe \/ Unsubscribe \/ Listens

Spec == Init /\ [][Next]_vars

-----------------------------------------------------------------------------
(* Lookups.  FindFor ranges over a map, so it may return any match.         *)

Usable_Registered(id) == id \in DOMAIN plugins /\ plugins[id].client # NoClient
Usable(id) == id \in DOMAIN plugins /\ plugins[id].online /\ plugins[id].client # NoClient

(* The plugins FindFor(owner, hint) chooses among, whatever the hint. *)
FindFor(owner) ==
    {plugins[id].client : id \in {i \in DOMAIN plugins : Usable(i) /\ plugins[i].owner \in {Anonymous, owner}}}

(* A name with a "/" is a whole key, which may belong to any owner: the     *)
(* plugin found must be one of the callers' or anonymous.                   *)
FindByKey(callers, key) ==
    IF key \in DOMAIN byName /\ Usable(byName[key]) /\ plugins[byName[key]].owner \in {Anonymous} \cup callers
    THEN {plugins[byName[key]].client} ELSE {}

(* findByKey: the first candidate key that is registered decides. *)
FindByNameFor(owner, name) ==
    FindByKey({owner}, <<IF <<owner, name>> \in DOMAIN byName THEN owner ELSE Anonymous, name>>)

(* findByKeyAllowed over amongCandidates: for each owner its own key and   *)
(* then the bare name, the first one that is usable.                       *)
FindByNameAmong(owners, name) ==
    LET key(i) == <<IF i % 2 = 1 THEN owners[(i + 1) \div 2] ELSE Anonymous, name>>
        hits == {i \in 1..(2 * Len(owners)) : key(i) \in DOMAIN byName /\ Usable(byName[key(i)])}
        first == CHOOSE i \in hits : \A j \in hits : i <= j
    IN  IF hits = {} THEN {} ELSE {plugins[byName[key(first)]].client}

-----------------------------------------------------------------------------
(* Properties *)

TypeOK ==
    /\ DOMAIN plugins \subseteq Ids /\ \A id \in DOMAIN plugins : plugins[id] \in Plugin
    /\ DOMAIN byName \subseteq Keys /\ \A k \in DOMAIN byName : byName[k] \in Ids
    /\ pending \in [Owners -> Seq(Conns)] /\ awaiting \in [Owners -> Seq(Ids)]
    /\ closed \in BOOLEAN /\ nextID \in 0..MaxInstances
    /\ conns \in [Conns -> [st : ConnState, owner : Owners]]
    /\ emitting \in Nat /\ subscribed \in BOOLEAN /\ inbox \in 0..Buffer
    /\ seen \subseteq Ids \X BOOLEAN /\ subscribes \in 0..MaxSubscribes

(* The two tables of the registry name the same instances: every instance   *)
(* is the one its owner and name lead to, through replacement, Deregister   *)
(* and reaping (each of which deletes from one table by a key of the other).*)
NamesAgree ==
    /\ \A id \in DOMAIN plugins :
          LET k == <<plugins[id].owner, plugins[id].name>>
          IN  k \in DOMAIN byName /\ byName[k] = id
    /\ \A k \in DOMAIN byName :
          /\ byName[k] \in DOMAIN plugins
          /\ k = <<plugins[byName[k]].owner, plugins[byName[k]].name>>

(* tunnelAwaiting holds exactly the tunnel registrations that have no       *)
(* stream, each of them once: no dead id is left in it,                     *)
(* and no registration is left out, which would never be bound.             *)
AwaitingExact ==
    \A o \in Owners :
        /\ {awaiting[o][i] : i \in DOMAIN awaiting[o]} =
               {id \in DOMAIN plugins : /\ plugins[id].tunnel /\ plugins[id].owner = o
                                        /\ plugins[id].client = NoClient}
        /\ \A i, j \in DOMAIN awaiting[o] : awaiting[o][i] = awaiting[o][j] => i = j

(* The registry's tables agree with each other, whatever the order of       *)
(* registrations, replacements, removals and streams.                       *)
TablesAgree == NamesAgree /\ AwaitingExact

(* A live stream and a registration of one owner never wait for each other: *)
(* whichever of Register and Connect comes second pairs them.  (So Register *)
(* binds the instance it made, never an earlier one.)                       *)
NobodyWaits ==
    \A o \in Owners : awaiting[o] = <<>> \/ \A i \in DOMAIN pending[o] : Dead(pending[o][i])

(* A stream serves at most one instance, and none while it is unclaimed. *)
OneInstancePerStream ==
    \A c \in Conns :
        LET bound == {id \in DOMAIN plugins : plugins[id].client = c}
            places == {p \in Owners \X (1..Cardinality(Conns)) :
                          p[2] \in DOMAIN pending[p[1]] /\ pending[p[1]][p[2]] = c}
        IN  Cardinality(bound) + Cardinality(places) <= 1

MayServe(c, owners) ==
    IF c \in Conns THEN conns[c].st \in {"open", "closed"} /\ conns[c].owner \in {Anonymous} \cup owners
                   ELSE plugins[c].owner \in {Anonymous} \cup owners

(* A tunnel instance is offline once the disconnect hook of its stream has  *)
(* run, so no lookup hands out a stream that is gone, and a stream is only  *)
(* handed to its owner (or, if it is an anonymous one, to anybody).         *)
LookupsServe ==
    \A o, p \in Owners, n \in Names :
        /\ \A c \in FindFor(o) \cup FindByNameFor(o, n) \cup FindByKey({o}, <<p, n>>) : MayServe(c, {o})
        /\ \A c \in FindByNameAmong(<<o, p>>, n) : MayServe(c, {o, p})

(* After Close nothing comes back, however late the hooks of open streams.  *)
ClosedIsEmpty ==
    closed => /\ plugins = <<>> /\ byName = <<>>
              /\ \A o \in Owners : pending[o] = <<>> /\ awaiting[o] = <<>>

(* A listener that fetches the list on every event has the present list     *)
(* once all events are emitted and consumed, although events are emitted    *)
(* after the lock is released, in any order, and dropped when the channel   *)
(* is full.  (Close emits nothing.)                                         *)
ListenerUpToDate ==
    subscribed /\ ~closed /\ emitting = 0 /\ inbox = 0 => seen = Summaries

\* The registry's tables agree with each other, a stream serves one instance,
\* and nothing comes back into a registry that was closed.
TablesSound == TypeOK /\ TablesAgree /\ OneInstancePerStream /\ ClosedIsEmpty
=============================================================================
