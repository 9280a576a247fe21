--------------------------- MODULE RegistryProofs ---------------------------
(***************************************************************************)
(* Theorems about the plugin registry, for any owners, names, streams,     *)
(* numbers of registrations and pending events.  RegInv speaks of the      *)
(* tables and of listeners; Sound, of the tables, the queues and the       *)
(* streams, is an operator on their values, so that a handler that makes   *)
(* several changes is proved one change at a time.                         *)
(***************************************************************************)
EXTENDS PluginRegistry, FiniteSetTheorems, SequenceTheorems, WellFoundedInduction, TLAPS

Fields == {"owner", "name", "tunnel", "client", "online", "age"}

\* An entry, whatever its client.
Entry(r) ==
    /\ r = [f \in Fields |-> r[f]]
    /\ r.owner \in Owners /\ r.name \in Names /\ r.tunnel \in BOOLEAN /\ r.online \in BOOLEAN /\ r.age \in 0..2

PluginsTyped ==
    /\ plugins = [id \in DOMAIN plugins |-> plugins[id]] /\ DOMAIN plugins \subseteq Ids
    /\ \A id \in DOMAIN plugins : Entry(plugins[id]) /\ id <= nextID
    /\ byName = [k \in DOMAIN byName |-> byName[k]]
    /\ nextID \in 0..MaxInstances /\ closed \in BOOLEAN
    /\ emitting \in Nat /\ inbox \in Nat /\ subscribed \in BOOLEAN

ClosedTables == closed => DOMAIN plugins = {} /\ DOMAIN byName = {}

\* A listener whose list is out of date will be told: an event is still to be
\* emitted or waits in its channel.
WillBeTold == subscribed /\ ~closed /\ seen # Summaries => emitting > 0 \/ inbox > 0

RegInv == PluginsTyped /\ NamesAgree /\ ClosedTables /\ WillBeTold

(***************************************************************************)
(* What a step does to the entries.                                        *)
(***************************************************************************)

\* An entry keeps its owner and name when it goes online or offline, ...
LEMMA EntryOnline ==
    ASSUME NEW r, Entry(r), NEW b \in BOOLEAN
    PROVE  /\ Entry([r EXCEPT !.online = b]) /\ [r EXCEPT !.online = b].online = b
           /\ [r EXCEPT !.online = b].owner = r.owner /\ [r EXCEPT !.online = b].name = r.name
<1>1. DOMAIN r = Fields
  BY DEF Entry
<1>2. QED
  BY <1>1 DEF Entry, Fields

\* ... grows older, ...
LEMMA EntryAge ==
    ASSUME NEW r, Entry(r), NEW a \in 0..2
    PROVE  /\ Entry([r EXCEPT !.age = a]) /\ [r EXCEPT !.age = a].online = r.online
           /\ [r EXCEPT !.age = a].owner = r.owner /\ [r EXCEPT !.age = a].name = r.name
<1>1. DOMAIN r = Fields
  BY DEF Entry
<1>2. QED
  BY <1>1 DEF Entry, Fields

\* ... or is given a client.
LEMMA EntryClient ==
    ASSUME NEW r, Entry(r), NEW c
    PROVE  /\ Entry([r EXCEPT !.client = c]) /\ [r EXCEPT !.client = c].online = r.online
           /\ [r EXCEPT !.client = c].owner = r.owner /\ [r EXCEPT !.client = c].name = r.name
<1>1. DOMAIN r = Fields
  BY DEF Entry
<1>2. QED
  BY <1>1 DEF Entry, Fields

\* The tables after a step that removes some entries from both, and leaves the others
\* their owners and names.
LEMMA Removes ==
    ASSUME RegInv, NEW P \in SUBSET DOMAIN plugins,
           plugins' = [id \in DOMAIN plugins \ P |-> plugins'[id]],
           \A id \in DOMAIN plugins \ P : /\ Entry(plugins'[id]) /\ plugins'[id].owner = plugins[id].owner
                                          /\ plugins'[id].name = plugins[id].name,
           byName' = Without(byName, {<<plugins[id].owner, plugins[id].name>> : id \in P}),
           nextID' = nextID, closed' = closed,
           emitting' \in Nat, inbox' \in Nat, subscribed' \in BOOLEAN
    PROVE  PluginsTyped' /\ NamesAgree' /\ ClosedTables'
<1> DEFINE gone == {<<plugins[id].owner, plugins[id].name>> : id \in P}
<1>1. DOMAIN plugins' = DOMAIN plugins \ P /\ DOMAIN byName' = DOMAIN byName \ gone
      /\ \A k \in DOMAIN byName' : byName'[k] = byName[k]
  BY DEF Without
<1>2. byName' = [k \in DOMAIN byName' |-> byName'[k]]
  BY <1>1 DEF Without
<1>3. PluginsTyped'
  BY <1>1, <1>2 DEF RegInv, PluginsTyped
<1>4. ASSUME NEW id \in DOMAIN plugins'
      PROVE  LET k == <<plugins'[id].owner, plugins'[id].name>> IN k \in DOMAIN byName' /\ byName'[k] = id
  <2> DEFINE k == <<plugins[id].owner, plugins[id].name>>
  <2>1. id \in DOMAIN plugins /\ id \notin P /\ k \in DOMAIN byName /\ byName[k] = id
    BY <1>1, <1>4 DEF RegInv, NamesAgree
  <2>2. k \notin gone
    BY <2>1 DEF RegInv, NamesAgree
  <2>3. QED
    BY <1>1, <2>1, <2>2
<1>5. ASSUME NEW k \in DOMAIN byName'
      PROVE  byName'[k] \in DOMAIN plugins' /\ k = <<plugins'[byName'[k]].owner, plugins'[byName'[k]].name>>
  <2>1. k \in DOMAIN byName /\ k \notin gone /\ byName'[k] = byName[k]
    BY <1>1, <1>5
  <2>2. byName[k] \in DOMAIN plugins /\ k = <<plugins[byName[k]].owner, plugins[byName[k]].name>>
    BY <2>1 DEF RegInv, NamesAgree
  <2>3. byName[k] \notin P
    BY <2>1, <2>2
  <2>4. QED
    BY <1>1, <2>1, <2>2, <2>3
<1>6. NamesAgree'
  BY <1>4, <1>5 DEF NamesAgree
<1>7. ClosedTables'
  BY <1>1 DEF RegInv, ClosedTables
<1>8. QED
  BY <1>3, <1>6, <1>7

\* The list is the same when nothing changes but clients, ages and queues.
LEMMA SameList ==
    ASSUME DOMAIN plugins' = DOMAIN plugins, \A id \in DOMAIN plugins : plugins'[id].online = plugins[id].online
    PROVE  Summaries' = Summaries
BY DEF Summaries

\* A step that emits something, or leaves the list as it is, keeps listeners informed.
LEMMA Told ==
    ASSUME RegInv, NEW n \in Nat, emitting' = emitting + n, n > 0 \/ Summaries' = Summaries,
           UNCHANGED <<closed, listener>>
    PROVE  WillBeTold'
BY DEF RegInv, WillBeTold, PluginsTyped, listener

(***************************************************************************)
(* The handlers.                                                           *)
(***************************************************************************)

\* A set of instances is finite.
LEMMA InstanceSets ==
    ASSUME PluginsTyped, NEW S \in SUBSET DOMAIN plugins
    PROVE  IsFiniteSet(S) /\ Cardinality(S) \in Nat /\ (Cardinality(S) = 0 => S = {})
<1>1. IsFiniteSet(Ids)
  BY RegistryAssumption, FS_Interval DEF Ids
<1>2. IsFiniteSet(S)
  BY <1>1, FS_Subset DEF PluginsTyped
<1>3. QED
  BY <1>2, FS_CardinalityType, FS_EmptySet

\* Handlers that change one field of one entry.
LEMMA OneEntry ==
    ASSUME RegInv, NEW id, NEW r, id \in DOMAIN plugins => Entry(r) /\ r.owner = plugins[id].owner /\ r.name = plugins[id].name,
           plugins' = [plugins EXCEPT ![id] = r], UNCHANGED <<byName, closed, nextID>>,
           emitting' \in Nat, inbox' \in Nat, subscribed' \in BOOLEAN
    PROVE  PluginsTyped' /\ NamesAgree' /\ ClosedTables'
<1>1. DOMAIN plugins' = DOMAIN plugins /\ \A i \in DOMAIN plugins : plugins'[i] = IF i = id THEN r ELSE plugins[i]
  BY DEF RegInv, PluginsTyped
<1>2. PICK P \in SUBSET DOMAIN plugins : P = {}
  OBVIOUS
<1>3. plugins' = [i \in DOMAIN plugins \ P |-> plugins'[i]]
  BY <1>1, <1>2 DEF RegInv, PluginsTyped
<1>4. \A i \in DOMAIN plugins \ P : /\ Entry(plugins'[i]) /\ plugins'[i].owner = plugins[i].owner
                                    /\ plugins'[i].name = plugins[i].name
  BY <1>1 DEF RegInv, PluginsTyped
<1>5. byName' = Without(byName, {<<plugins[i].owner, plugins[i].name>> : i \in P})
  BY <1>2 DEF Without, RegInv, PluginsTyped
<1>6. QED
  BY <1>3, <1>4, <1>5, Removes

\* Heartbeat: an instance that was offline is announced.
LEMMA HeartbeatStep == ASSUME RegInv, NEW id \in Ids, Heartbeat(id) PROVE RegInv'
<1> DEFINE r == [[plugins[id] EXCEPT !.online = TRUE] EXCEPT !.age = 0]
<1>1. id \in DOMAIN plugins /\ Entry(plugins[id])
  BY DEF Heartbeat, RegInv, PluginsTyped
<1> DEFINE q == [plugins[id] EXCEPT !.online = TRUE]
<1>10. Entry(q) /\ q.owner = plugins[id].owner /\ q.name = plugins[id].name /\ q.online = TRUE
  BY <1>1, EntryOnline
<1>11. 0 \in 0..2
  OBVIOUS
<1>2. Entry(r) /\ r.owner = plugins[id].owner /\ r.name = plugins[id].name /\ r.online
  <2> HIDE DEF q
  <2>1. [q EXCEPT !.age = 0].online = q.online /\ Entry([q EXCEPT !.age = 0])
        /\ [q EXCEPT !.age = 0].owner = q.owner /\ [q EXCEPT !.age = 0].name = q.name
    BY <1>10, <1>11, EntryAge
  <2>2. r = [q EXCEPT !.age = 0]
    BY DEF q
  <2>3. QED
    BY <1>10, <2>1, <2>2
<1>3. plugins' = [plugins EXCEPT ![id] = r]
  BY <1>1 DEF Heartbeat, RegInv, PluginsTyped, Entry, Fields
<1>4. PICK n \in {0, 1} : n = (IF plugins[id].online THEN 0 ELSE 1) /\ emitting' = emitting + n
  BY DEF Heartbeat, Emits
<1>5. UNCHANGED <<byName, closed, nextID, listener>>
  BY DEF Heartbeat
<1>6. emitting' \in Nat /\ inbox' \in Nat /\ subscribed' \in BOOLEAN
  BY <1>4, <1>5 DEF RegInv, PluginsTyped, listener
<1>7. PluginsTyped' /\ NamesAgree' /\ ClosedTables'
  BY <1>2, <1>3, <1>5, <1>6, OneEntry
<1>8. n > 0 \/ Summaries' = Summaries
  <2>1. CASE ~plugins[id].online
    BY <1>4, <2>1
  <2>2. CASE plugins[id].online
    <3>1. plugins[id].online = TRUE /\ r.online = TRUE
      BY <1>1, <1>2, <2>2 DEF Entry
    <3>2. DOMAIN plugins' = DOMAIN plugins /\ \A i \in DOMAIN plugins : plugins'[i].online = plugins[i].online
      BY <1>3, <3>1 DEF RegInv, PluginsTyped
    <3>3. QED
      BY <3>2, SameList
  <2>3. QED
    BY <2>1, <2>2
<1>9. QED
  BY <1>4, <1>5, <1>7, <1>8, Told DEF RegInv

\* Deregister.
LEMMA DeregisterStep == ASSUME RegInv, NEW id \in Ids, Deregister(id) PROVE RegInv'
<1>1. id \in DOMAIN plugins /\ UNCHANGED <<closed, nextID, listener>> /\ emitting' = emitting + 1
  BY DEF Deregister, Emits
<1>2. plugins' = [i \in DOMAIN plugins \ {id} |-> plugins[i]]
  BY DEF Deregister, Without
<1>3. byName' = Without(byName, {<<plugins[i].owner, plugins[i].name>> : i \in {id}})
  <2>1. {<<plugins[i].owner, plugins[i].name>> : i \in {id}} = {<<plugins[id].owner, plugins[id].name>>}
    OBVIOUS
  <2>2. QED
    BY <2>1 DEF Deregister
<1>4. \A i \in DOMAIN plugins \ {id} : Entry(plugins'[i]) /\ plugins'[i] = plugins[i]
  BY <1>2 DEF RegInv, PluginsTyped
<1>5. emitting' \in Nat /\ inbox' \in Nat /\ subscribed' \in BOOLEAN
  BY <1>1 DEF RegInv, PluginsTyped, listener
<1>6. PluginsTyped' /\ NamesAgree' /\ ClosedTables'
  BY ZenonT(30), <1>1, <1>2, <1>3, <1>4, <1>5, Removes
<1>7. QED
  BY <1>1, <1>6, Told DEF RegInv

\* CheckOffline: whoever is lost or forgotten is announced.
LEMMA CheckOfflineStep == ASSUME RegInv, CheckOffline PROVE RegInv'
<1> DEFINE lost == {id \in DOMAIN plugins : Lost(id)}
           reaped == {id \in DOMAIN plugins : Forgotten(id)}
<1>1. PICK L \in SUBSET DOMAIN plugins, P \in SUBSET DOMAIN plugins : L = lost /\ P = reaped
  OBVIOUS
<1>2. PICK n \in Nat : n = Cardinality(L) + Cardinality(P) /\ (n = 0 => L = {} /\ P = {})
  BY InstanceSets DEF RegInv
<1>3. /\ plugins' = [id \in DOMAIN plugins \ P |-> [plugins[id] EXCEPT !.online = (plugins[id].online /\ id \notin L)]]
      /\ byName' = Without(byName, {<<plugins[id].owner, plugins[id].name>> : id \in P})
      /\ emitting' = emitting + n /\ UNCHANGED <<closed, nextID, listener>>
  BY <1>1, <1>2 DEF CheckOffline, Emits
<1>4. \A id \in DOMAIN plugins \ P :
         /\ Entry(plugins'[id]) /\ plugins'[id].owner = plugins[id].owner
         /\ plugins'[id].name = plugins[id].name /\ plugins'[id].online = (plugins[id].online /\ id \notin L)
  <2> SUFFICES ASSUME NEW id \in DOMAIN plugins \ P
               PROVE  /\ Entry(plugins'[id]) /\ plugins'[id].owner = plugins[id].owner
                      /\ plugins'[id].name = plugins[id].name /\ plugins'[id].online = (plugins[id].online /\ id \notin L)
    OBVIOUS
  <2>1. Entry(plugins[id])
    BY DEF RegInv, PluginsTyped
  <2>2. PICK b \in BOOLEAN : b = (plugins[id].online /\ id \notin L)
    OBVIOUS
  <2>3. plugins'[id] = [plugins[id] EXCEPT !.online = b]
    BY <1>3, <2>2
  <2>4. QED
    BY ZenonT(30), <2>1, <2>2, <2>3, EntryOnline
<1>5. emitting' \in Nat /\ inbox' \in Nat /\ subscribed' \in BOOLEAN
  BY <1>3 DEF RegInv, PluginsTyped, listener
<1>6. plugins' = [id \in DOMAIN plugins \ P |-> plugins'[id]]
  BY <1>3
<1>7. PluginsTyped' /\ NamesAgree' /\ ClosedTables'
  BY <1>3, <1>4, <1>5, <1>6, Removes
<1>8. n > 0 \/ Summaries' = Summaries
  <2>1. CASE n = 0
    <3>1. L = {} /\ P = {} /\ DOMAIN plugins' = DOMAIN plugins
      BY <1>2, <1>3, <2>1
    <3>2. \A id \in DOMAIN plugins : plugins[id].online \in BOOLEAN
      BY DEF RegInv, PluginsTyped, Entry
    <3>3. \A id \in DOMAIN plugins : plugins'[id].online = plugins[id].online
      BY <1>4, <3>1, <3>2
    <3>4. QED
      BY <3>1, <3>3, SameList
  <2>2. QED
    BY <2>1
<1>9. QED
  BY <1>3, <1>7, <1>8, Told DEF RegInv

\* Time only makes entries older.
LEMMA TimePassesStep == ASSUME RegInv, TimePasses PROVE RegInv'
<1>1. PICK P \in SUBSET DOMAIN plugins : P = {}
  OBVIOUS
<1>2. /\ plugins' = [id \in DOMAIN plugins |-> [plugins[id] EXCEPT !.age = IF plugins[id].age = 2 THEN 2 ELSE plugins[id].age + 1]]
      /\ UNCHANGED <<byName, closed, nextID, listener, emitting>>
  BY DEF TimePasses
<1>3. \A id \in DOMAIN plugins \ P :
         /\ Entry(plugins'[id]) /\ plugins'[id].owner = plugins[id].owner
         /\ plugins'[id].name = plugins[id].name /\ plugins'[id].online = plugins[id].online
  <2> SUFFICES ASSUME NEW id \in DOMAIN plugins
               PROVE  /\ Entry(plugins'[id]) /\ plugins'[id].owner = plugins[id].owner
                      /\ plugins'[id].name = plugins[id].name /\ plugins'[id].online = plugins[id].online
    OBVIOUS
  <2>1. Entry(plugins[id])
    BY DEF RegInv, PluginsTyped
  <2>2. PICK a \in 0..2 : a = IF plugins[id].age = 2 THEN 2 ELSE plugins[id].age + 1
    BY <2>1 DEF Entry
  <2>3. plugins'[id] = [plugins[id] EXCEPT !.age = a]
    BY <1>2, <2>2
  <2>4. /\ Entry([plugins[id] EXCEPT !.age = a]) /\ [plugins[id] EXCEPT !.age = a].online = plugins[id].online
        /\ [plugins[id] EXCEPT !.age = a].owner = plugins[id].owner /\ [plugins[id] EXCEPT !.age = a].name = plugins[id].name
    BY <2>1, EntryAge
  <2>5. QED
    BY <2>3, <2>4
<1>4. DOMAIN plugins' = DOMAIN plugins /\ plugins' = [id \in DOMAIN plugins \ P |-> plugins'[id]]
  BY <1>1, <1>2
<1>5. byName' = Without(byName, {<<plugins[id].owner, plugins[id].name>> : id \in P})
  BY <1>1, <1>2 DEF Without, RegInv, PluginsTyped
<1>6. PluginsTyped' /\ NamesAgree' /\ ClosedTables'
  BY <1>2, <1>3, <1>4, <1>5, Removes DEF RegInv, PluginsTyped, listener
<1>7. Summaries' = Summaries
  BY <1>1, <1>3, <1>4, SameList
<1>8. emitting' = emitting + 0 /\ 0 \in Nat
  BY <1>2 DEF RegInv, PluginsTyped
<1>9. QED
  BY <1>2, <1>6, <1>7, <1>8, Told DEF RegInv

\* ... all three at once, ...
LEMMA EntryBound ==
    ASSUME NEW r, Entry(r), NEW c, NEW a \in 0..2
    PROVE  /\ Entry([[[r EXCEPT !.client = c] EXCEPT !.online = TRUE] EXCEPT !.age = a])
           /\ [[[r EXCEPT !.client = c] EXCEPT !.online = TRUE] EXCEPT !.age = a].owner = r.owner
           /\ [[[r EXCEPT !.client = c] EXCEPT !.online = TRUE] EXCEPT !.age = a].name = r.name
<1>1. DOMAIN r = Fields
  BY DEF Entry
<1>2. QED
  BY <1>1 DEF Entry, Fields

\* Binding a stream to an instance keeps every owner and name.
LEMMA BoundEntry ==
    ASSUME NEW ps, NEW id, NEW c, ps = [x \in DOMAIN ps |-> ps[x]], \A x \in DOMAIN ps : Entry(ps[x])
    PROVE  /\ Bound(ps, id, c) = [x \in DOMAIN ps |-> Bound(ps, id, c)[x]]
           /\ DOMAIN Bound(ps, id, c) = DOMAIN ps
           /\ \A x \in DOMAIN ps : /\ Entry(Bound(ps, id, c)[x]) /\ Bound(ps, id, c)[x].owner = ps[x].owner
                                   /\ Bound(ps, id, c)[x].name = ps[x].name
<1>1. CASE id \notin DOMAIN ps
  <2>1. Bound(ps, id, c) = ps
    BY <1>1 DEF Bound
  <2>2. QED
    BY <2>1
<1>2. CASE id \in DOMAIN ps
  <2> DEFINE r == ps[id]
  <2>1. PICK z \in 0..2 : z = 0
    OBVIOUS
  <2>2. /\ Entry([[[r EXCEPT !.client = c] EXCEPT !.online = TRUE] EXCEPT !.age = z])
        /\ [[[r EXCEPT !.client = c] EXCEPT !.online = TRUE] EXCEPT !.age = z].owner = r.owner
        /\ [[[r EXCEPT !.client = c] EXCEPT !.online = TRUE] EXCEPT !.age = z].name = r.name
    <3>1. Entry(r)
      BY <1>2
    <3> HIDE DEF r
    <3>2. QED
      BY ZenonT(30), <3>1, EntryBound
  <2>3. Bound(ps, id, c) = [ps EXCEPT ![id] = [[[r EXCEPT !.client = c] EXCEPT !.online = TRUE] EXCEPT !.age = z]]
    BY <1>2, <2>1 DEF Bound
  <2> HIDE DEF r
  <2>4. QED
    BY <1>2, <2>2, <2>3 DEF r
<1>3. QED
  BY <1>1, <1>2

\* The connect hook announces the instance it binds.
LEMMA BindStep == ASSUME RegInv, NEW c \in Conns, bindTunnelClient(c) PROVE RegInv'
<1>1. UNCHANGED <<byName, closed, nextID, listener>>
  BY DEF bindTunnelClient
<1>2. CASE UNCHANGED <<plugins, emitting>>
  BY <1>1, <1>2 DEF RegInv, PluginsTyped, NamesAgree, ClosedTables, WillBeTold, Summaries, listener
<1>3. ASSUME NEW id, plugins' = Bound(plugins, id, c), emitting' = emitting + 1
      PROVE  RegInv'
  <2>1. plugins = [x \in DOMAIN plugins |-> plugins[x]] /\ \A x \in DOMAIN plugins : Entry(plugins[x])
    BY DEF RegInv, PluginsTyped
  <2>2. PICK P \in SUBSET DOMAIN plugins : P = {}
    OBVIOUS
  <2>3. plugins' = [x \in DOMAIN plugins \ P |-> plugins'[x]]
    BY <1>3, <2>1, <2>2, BoundEntry
  <2>4. \A x \in DOMAIN plugins \ P : /\ Entry(plugins'[x]) /\ plugins'[x].owner = plugins[x].owner
                                      /\ plugins'[x].name = plugins[x].name
    BY <1>3, <2>1, BoundEntry
  <2>5. byName' = Without(byName, {<<plugins[x].owner, plugins[x].name>> : x \in P})
    BY <1>1, <2>2 DEF Without, RegInv, PluginsTyped
  <2>6. emitting' \in Nat /\ inbox' \in Nat /\ subscribed' \in BOOLEAN
    BY <1>1, <1>3 DEF RegInv, PluginsTyped, listener
  <2>7. PluginsTyped' /\ NamesAgree' /\ ClosedTables'
    BY <1>1, <2>3, <2>4, <2>5, <2>6, Removes
  <2>8. QED
    BY <1>1, <1>3, <2>7, Told DEF RegInv
<1>4. QED
  BY <1>2, <1>3 DEF bindTunnelClient, Emits

\* The disconnect hook announces the instances that go offline.
LEMMA DisconnectStep == ASSUME RegInv, NEW c \in Conns, tunnelDisconnected(c) PROVE RegInv'
<1>1. UNCHANGED <<byName, closed, nextID, listener>>
  BY DEF tunnelDisconnected
<1>2. CASE Ignores
  BY <1>1, <1>2 DEF tunnelDisconnected, RegInv, PluginsTyped, NamesAgree, ClosedTables, WillBeTold, Summaries, listener
<1>3. CASE ~Ignores
  <2> DEFINE offs == {id \in DOMAIN plugins : /\ plugins[id].tunnel /\ plugins[id].owner = conns[c].owner
                                              /\ Dead(plugins[id].client) /\ plugins[id].online}
  <2>1. PICK L \in SUBSET DOMAIN plugins, P \in SUBSET DOMAIN plugins : L = offs /\ P = {}
    OBVIOUS
  <2>2. PICK n \in Nat : n = Cardinality(L) /\ (n = 0 => L = {})
    BY InstanceSets DEF RegInv
  <2>3. /\ plugins' = [id \in DOMAIN plugins |-> [plugins[id] EXCEPT !.online = (plugins[id].online /\ id \notin L)]]
        /\ emitting' = emitting + n
    BY <1>3, <2>1, <2>2 DEF tunnelDisconnected, Emits
  <2>4. \A id \in DOMAIN plugins \ P :
           /\ Entry(plugins'[id]) /\ plugins'[id].owner = plugins[id].owner
           /\ plugins'[id].name = plugins[id].name /\ plugins'[id].online = (plugins[id].online /\ id \notin L)
    <3> SUFFICES ASSUME NEW id \in DOMAIN plugins
                 PROVE  /\ Entry(plugins'[id]) /\ plugins'[id].owner = plugins[id].owner
                        /\ plugins'[id].name = plugins[id].name /\ plugins'[id].online = (plugins[id].online /\ id \notin L)
      OBVIOUS
    <3>1. Entry(plugins[id])
      BY DEF RegInv, PluginsTyped
    <3>2. PICK b \in BOOLEAN : b = (plugins[id].online /\ id \notin L)
      OBVIOUS
    <3>3. plugins'[id] = [plugins[id] EXCEPT !.online = b]
      BY <2>3, <3>2
    <3>4. QED
      BY ZenonT(30), <3>1, <3>2, <3>3, EntryOnline
  <2>5. DOMAIN plugins' = DOMAIN plugins /\ plugins' = [id \in DOMAIN plugins \ P |-> plugins'[id]]
    BY <2>1, <2>3
  <2>6. byName' = Without(byName, {<<plugins[x].owner, plugins[x].name>> : x \in P})
    BY <1>1, <2>1 DEF Without, RegInv, PluginsTyped
  <2>7. emitting' \in Nat /\ inbox' \in Nat /\ subscribed' \in BOOLEAN
    BY <1>1, <2>3 DEF RegInv, PluginsTyped, listener
  <2>8. PluginsTyped' /\ NamesAgree' /\ ClosedTables'
    BY <1>1, <2>4, <2>5, <2>6, <2>7, Removes
  <2>9. n > 0 \/ Summaries' = Summaries
    <3>1. CASE n = 0
      <4>1. \A id \in DOMAIN plugins : plugins[id].online \in BOOLEAN
        BY DEF RegInv, PluginsTyped, Entry
      <4>2. \A id \in DOMAIN plugins : plugins'[id].online = plugins[id].online
        BY <2>1, <2>2, <2>4, <3>1, <4>1
      <4>3. QED
        BY <2>5, <4>2, SameList
    <3>2. QED
      BY <3>1
  <2>10. QED
    BY <1>1, <2>3, <2>8, <2>9, Told DEF RegInv
<1>4. QED
  BY <1>2, <1>3

\* Steps that leave the entries alone.
LEMMA QuietStep ==
    ASSUME RegInv, UNCHANGED <<plugins, byName, closed, nextID>>,
           emitting' \in Nat, inbox' \in Nat, subscribed' \in BOOLEAN, WillBeTold'
    PROVE  RegInv'
BY DEF RegInv, PluginsTyped, NamesAgree, ClosedTables

\* The bus and the listener.
LEMMA BusStep == ASSUME RegInv, Emit \/ Subscribe \/ Unsubscribe \/ Listens PROVE RegInv'
<1>1. Buffer \in Nat \ {0} /\ emitting \in Nat /\ inbox \in Nat /\ subscribed \in BOOLEAN
  BY RegistryAssumption DEF RegInv, PluginsTyped
<1>2. UNCHANGED <<plugins, byName, closed, nextID>> /\ Summaries' = Summaries
  BY DEF Emit, Subscribe, Unsubscribe, Listens, tables, Summaries
<1>3. CASE Emit
  BY <1>1, <1>2, <1>3, QuietStep DEF Emit, RegInv, WillBeTold
<1>4. CASE Subscribe
  BY <1>1, <1>2, <1>4, QuietStep DEF Subscribe, RegInv, WillBeTold
<1>5. CASE Unsubscribe
  BY <1>1, <1>2, <1>5, QuietStep DEF Unsubscribe, RegInv, WillBeTold
<1>6. CASE Listens
  BY <1>1, <1>2, <1>6, QuietStep DEF Listens, RegInv, WillBeTold
<1>7. QED
  BY <1>3, <1>4, <1>5, <1>6

\* Register replaces at most the instance its owner and name lead to.
LEMMA RegisterStep ==
    ASSUME RegInv, NEW o \in Owners, NEW n \in Names, NEW tunnel \in BOOLEAN, Register(o, n, tunnel)
    PROVE  RegInv'
<1>1. PICK id : id = nextID + 1
  OBVIOUS
<1>2. PICK old : old = Replaced(o, n)
  OBVIOUS
<1>3. PICK e : e = Registration(o, n, tunnel, id)
  OBVIOUS
<1>4. PICK ps : ps = With(Without(plugins, old), id, e)
  OBVIOUS
<1>5. /\ ~closed /\ id \in Ids /\ nextID' = id /\ byName' = With(byName, <<o, n>>, id)
      /\ UNCHANGED <<closed, listener>>
  BY <1>1 DEF Register
<1>6. (\E b, c : plugins' = Bound(ps, b, c)) \/ plugins' = ps
  BY <1>1, <1>2, <1>3, <1>4 DEF Register
<1>7. PICK m \in {1, 2} : emitting' = emitting + m
  BY DEF Register, Emits
<1>8. nextID \in 0..MaxInstances /\ id \notin DOMAIN plugins /\ MaxInstances \in Nat
  BY <1>1, RegistryAssumption DEF RegInv, PluginsTyped
<1>9. Entry(e) /\ e.owner = o /\ e.name = n
  <2>1. DOMAIN e = Fields
    BY <1>3 DEF Registration, Fields
  <2>2. e = [f \in Fields |-> e[f]]
    BY <1>3, <2>1 DEF Registration
  <2>3. e.owner = o /\ e.name = n /\ e.tunnel = tunnel /\ e.online = ~tunnel /\ e.age = 0
    BY <1>3 DEF Registration
  <2>4. e.online \in BOOLEAN /\ e.tunnel \in BOOLEAN /\ e.age \in 0..2
    BY <2>3
  <2>5. QED
    BY <2>2, <2>3, <2>4 DEF Entry
<1>10. old = IF <<o, n>> \in DOMAIN byName THEN {byName[<<o, n>>]} ELSE {}
  BY <1>2 DEF Replaced, RegInv, NamesAgree
<1>11. /\ ps = [x \in DOMAIN ps |-> ps[x]] /\ DOMAIN ps = (DOMAIN plugins \ old) \cup {id}
       /\ ps[id] = e /\ \A x \in DOMAIN plugins \ old : ps[x] = plugins[x]
  BY <1>4, <1>8 DEF With, Without
<1>12. \A x \in DOMAIN ps : Entry(ps[x])
  BY <1>9, <1>11 DEF RegInv, PluginsTyped
<1>13. /\ plugins' = [x \in DOMAIN plugins' |-> plugins'[x]] /\ DOMAIN plugins' = DOMAIN ps
       /\ \A x \in DOMAIN ps : /\ Entry(plugins'[x]) /\ plugins'[x].owner = ps[x].owner /\ plugins'[x].name = ps[x].name
  <2>1. CASE plugins' = ps
    BY <1>11, <1>12, <2>1
  <2>2. ASSUME NEW b, NEW c, plugins' = Bound(ps, b, c)
        PROVE  /\ plugins' = [x \in DOMAIN plugins' |-> plugins'[x]] /\ DOMAIN plugins' = DOMAIN ps
               /\ \A x \in DOMAIN ps : /\ Entry(plugins'[x]) /\ plugins'[x].owner = ps[x].owner /\ plugins'[x].name = ps[x].name
    BY <1>11, <1>12, <2>2, BoundEntry
  <2>3. QED
    BY <1>6, <2>1, <2>2
<1>14. /\ DOMAIN byName' = DOMAIN byName \cup {<<o, n>>} /\ byName'[<<o, n>>] = id
       /\ byName' = [k \in DOMAIN byName' |-> byName'[k]]
       /\ \A k \in DOMAIN byName : k # <<o, n>> => byName'[k] = byName[k]
  BY <1>5 DEF With
<1>15. \A x \in DOMAIN ps : x = id \/ x \in DOMAIN plugins \ old
  BY <1>11
<1>16. PluginsTyped'
  <2>1. DOMAIN plugins' \subseteq Ids /\ \A x \in DOMAIN plugins' : Entry(plugins'[x]) /\ x <= id
    BY <1>1, <1>5, <1>8, <1>13, <1>15 DEF RegInv, PluginsTyped, Ids
  <2>2. id \in 0..MaxInstances /\ emitting' \in Nat /\ inbox' \in Nat /\ subscribed' \in BOOLEAN /\ closed' \in BOOLEAN
    BY <1>5, <1>7, <1>8 DEF RegInv, PluginsTyped, listener, Ids
  <2>3. QED
    BY <1>5, <1>13, <1>14, <2>1, <2>2 DEF PluginsTyped
<1>17. ASSUME NEW x \in DOMAIN plugins'
       PROVE  LET k == <<plugins'[x].owner, plugins'[x].name>> IN k \in DOMAIN byName' /\ byName'[k] = x
  <2>1. CASE x = id
    BY <1>9, <1>11, <1>13, <1>14, <2>1
  <2>2. CASE x # id
    <3>1. x \in DOMAIN plugins /\ x \notin old /\ plugins'[x].owner = plugins[x].owner /\ plugins'[x].name = plugins[x].name
      BY <1>11, <1>13, <1>15, <1>17, <2>2
    <3>2. <<plugins[x].owner, plugins[x].name>> \in DOMAIN byName /\ byName[<<plugins[x].owner, plugins[x].name>>] = x
      BY <3>1 DEF RegInv, NamesAgree
    <3>3. <<plugins[x].owner, plugins[x].name>> # <<o, n>>
      BY <1>10, <3>1, <3>2
    <3>4. QED
      BY <1>14, <3>1, <3>2, <3>3
  <2>3. QED
    BY <2>1, <2>2
<1>18. ASSUME NEW k \in DOMAIN byName'
       PROVE  byName'[k] \in DOMAIN plugins' /\ k = <<plugins'[byName'[k]].owner, plugins'[byName'[k]].name>>
  <2>1. CASE k = <<o, n>>
    BY <1>9, <1>11, <1>13, <1>14, <2>1
  <2>2. CASE k # <<o, n>>
    <3>1. k \in DOMAIN byName /\ byName'[k] = byName[k]
      BY <1>14, <1>18, <2>2
    <3>2. byName[k] \in DOMAIN plugins /\ k = <<plugins[byName[k]].owner, plugins[byName[k]].name>>
      BY <3>1 DEF RegInv, NamesAgree
    <3>3. byName[k] \notin old
      BY <1>10, <2>2, <3>2 DEF RegInv, NamesAgree
    <3>4. byName[k] # id
      BY <1>8, <3>2
    <3>5. QED
      BY <1>11, <1>13, <3>1, <3>2, <3>3, <3>4
  <2>3. QED
    BY <2>1, <2>2
<1>19. NamesAgree'
  BY <1>17, <1>18 DEF NamesAgree
<1>20. ClosedTables'
  BY <1>5 DEF ClosedTables
<1>21. QED
  BY <1>5, <1>7, <1>16, <1>19, <1>20, Told DEF RegInv

\* Close empties the tables; a stream that opens or ends touches neither.
LEMMA CloseStep == ASSUME RegInv, Close PROVE RegInv'
<1>1. plugins' = <<>> /\ byName' = <<>> /\ closed' = TRUE /\ UNCHANGED <<nextID, emitting, listener>>
  BY DEF Close
<1>2. /\ DOMAIN plugins' = {} /\ plugins' = [id \in DOMAIN plugins' |-> plugins'[id]]
      /\ DOMAIN byName' = {} /\ byName' = [k \in DOMAIN byName' |-> byName'[k]]
  BY <1>1
<1>3. PluginsTyped'
  BY <1>1, <1>2 DEF RegInv, PluginsTyped, listener
<1>4. NamesAgree' /\ ClosedTables'
  BY <1>2 DEF NamesAgree, ClosedTables
<1>5. WillBeTold'
  BY <1>1 DEF WillBeTold
<1>6. QED
  BY <1>3, <1>4, <1>5 DEF RegInv

\* See CloseStep.
LEMMA StreamStep ==
    ASSUME RegInv, NEW c \in Conns, NEW o \in Owners, Connect(c, o) \/ SessionCloses(c)
    PROVE  RegInv'
<1>1. UNCHANGED <<plugins, byName, closed, nextID, emitting, subscribed, inbox, seen>>
  BY DEF Connect, SessionCloses, tables, listener
<1>2. QED
  BY <1>1 DEF RegInv, PluginsTyped, NamesAgree, ClosedTables, WillBeTold, Summaries

\* The invariant holds at first, ...
LEMMA RegInvInit == Init => RegInv
<1> SUFFICES ASSUME Init PROVE RegInv
  OBVIOUS
<1>1. /\ DOMAIN plugins = {} /\ plugins = [id \in DOMAIN plugins |-> plugins[id]]
      /\ DOMAIN byName = {} /\ byName = [k \in DOMAIN byName |-> byName[k]]
  BY DEF Init
<1>2. PluginsTyped
  <2>1. nextID = 0 /\ 0 \in 0..MaxInstances /\ closed = FALSE /\ emitting = 0 /\ inbox = 0 /\ subscribed = FALSE
    BY RegistryAssumption DEF Init
  <2>2. QED
    BY <1>1, <2>1 DEF PluginsTyped
<1>3. NamesAgree /\ ClosedTables
  BY <1>1 DEF NamesAgree, ClosedTables
<1>4. WillBeTold
  BY DEF WillBeTold, Init
<1>5. QED
  BY <1>2, <1>3, <1>4 DEF RegInv

\* ... and every step keeps it.
LEMMA RegInvStep == RegInv /\ [Next]_vars => RegInv'
<1> SUFFICES ASSUME RegInv, [Next]_vars PROVE RegInv'
  OBVIOUS
<1>1. CASE \E o \in Owners, n \in Names, tunnel \in BOOLEAN : Register(o, n, tunnel)
  BY <1>1, RegisterStep
<1>2. CASE \E id \in Ids : Heartbeat(id) \/ Deregister(id)
  BY <1>2, HeartbeatStep, DeregisterStep
<1>3. CASE \E c \in Conns : \E o \in Owners : Connect(c, o)
  BY <1>3, StreamStep
<1>4. CASE \E c \in Conns : bindTunnelClient(c) \/ tunnelDisconnected(c)
  BY <1>4, BindStep, DisconnectStep
<1>5. CASE \E c \in Conns : SessionCloses(c)
  <2>1. PICK o \in Owners : TRUE
    BY RegistryAssumption
  <2>2. QED
    BY <1>5, <2>1, StreamStep
<1>6. CASE CheckOffline \/ TimePasses \/ Close
  BY <1>6, CheckOfflineStep, TimePassesStep, CloseStep
<1>7. CASE Emit \/ Subscribe \/ Unsubscribe \/ Listens
  BY <1>7, BusStep
<1>8. CASE UNCHANGED vars
  BY <1>8 DEF vars, tables, listener, RegInv, PluginsTyped, NamesAgree, ClosedTables, WillBeTold, Summaries
<1>9. QED
  BY <1>1, <1>2, <1>3, <1>4, <1>5, <1>6, <1>7, <1>8 DEF Next

\* The tables are typed and name the same instances, a closed registry stays empty,
\* and a listener that is out of date will be told.
THEOREM RegInvariant == Spec => []RegInv
<1>1. QED
  BY RegInvInit, RegInvStep, PTL DEF Spec

\* A listener that fetches the list on every event is up to date once all events are
\* emitted and consumed, whatever happened between a change and its event and however
\* many events its full channel dropped.
THEOREM ListenerSafe == Spec => []ListenerUpToDate
<1>1. RegInv => ListenerUpToDate
  BY DEF RegInv, WillBeTold, ListenerUpToDate, PluginsTyped
<1>2. QED
  BY <1>1, RegInvariant, PTL

\* Every instance is the one its owner and name lead to, and no name leads anywhere
\* else, through replacement, Deregister and reaping.
THEOREM NamesAgreeSafe == Spec => []NamesAgree
<1>1. RegInv => NamesAgree
  BY DEF RegInv
<1>2. QED
  BY <1>1, RegInvariant, PTL

(***************************************************************************)
(* Induction on the length of a queue.                                     *)
(***************************************************************************)

\* A set of natural numbers has a least element, unless it is empty.
LEMMA Least ==
    ASSUME NEW S \in SUBSET Nat, NEW n \in S
    PROVE  \E m \in S : \A k \in S : m <= k
<1> DEFINE R == {p \in Nat \X Nat : p[1] < p[2]}
<1>1. OpToRel(<, Nat) = R
  BY DEF OpToRel
<1>2. IsWellFoundedOn(R, Nat)
  BY <1>1, NatLessThanWellFounded
<1>3. PICK m \in S : \A k \in S : <<k, m>> \notin R
  <2> HIDE DEF R
  <2>1. QED
    BY <1>2, WFMin
<1>4. ASSUME NEW k \in Nat, NEW l \in Nat, k < l PROVE <<k, l>> \in R
  <2>1. <<k, l>> \in Nat \X Nat /\ <<k, l>>[1] = k /\ <<k, l>>[2] = l
    OBVIOUS
  <2>2. QED
    BY <1>4, <2>1
<1>5. \A k \in S : ~(k < m)
  <2> HIDE DEF R
  <2>1. QED
    BY <1>3, <1>4
<1>6. QED
  BY <1>5

Elements(q) == {q[i] : i \in DOMAIN q}
Distinct(q) == \A i, j \in DOMAIN q : q[i] = q[j] => i = j

\* A queue with one element more.
LEMMA OneMore ==
    ASSUME NEW T, NEW q \in Seq(T), NEW x \in T
    PROVE  /\ Append(q, x) \in Seq(T) /\ Elements(Append(q, x)) = Elements(q) \cup {x}
           /\ Distinct(q) /\ x \notin Elements(q) => Distinct(Append(q, x))
<1>1. /\ Append(q, x) \in Seq(T) /\ Len(Append(q, x)) = Len(q) + 1 /\ Append(q, x)[Len(q) + 1] = x
      /\ \A i \in 1..Len(q) : Append(q, x)[i] = q[i]
  BY AppendProperties
<1>2. DOMAIN Append(q, x) = 1..(Len(q) + 1) /\ DOMAIN q = 1..Len(q) /\ Len(q) \in Nat
  BY <1>1, LenProperties
<1>3. Elements(Append(q, x)) = Elements(q) \cup {x}
  <2>1. ASSUME NEW y \in Elements(Append(q, x)) PROVE y \in Elements(q) \cup {x}
    BY <1>1, <1>2, <2>1 DEF Elements
  <2>2. ASSUME NEW y \in Elements(q) PROVE y \in Elements(Append(q, x))
    BY <1>1, <1>2, <2>2 DEF Elements
  <2>3. x \in Elements(Append(q, x))
    BY <1>1, <1>2 DEF Elements
  <2>4. QED
    BY <2>1, <2>2, <2>3
<1>4. ASSUME Distinct(q), x \notin Elements(q) PROVE Distinct(Append(q, x))
  BY <1>1, <1>2, <1>4 DEF Distinct, Elements
<1>5. QED
  BY <1>1, <1>3, <1>4

\* The function that Lacking takes the last value of.
Keeps(f, q, S) ==
    f = [i \in 0..Len(q) |->
            IF i = 0 THEN <<>> ELSE IF q[i] \in S THEN f[i - 1] ELSE Append(f[i - 1], q[i])]

\* There is one.
LEMMA KeepsExists == ASSUME NEW T, NEW q \in Seq(T), NEW S PROVE \E f : Keeps(f, q, S)
<1> DEFINE Upto(f, n) ==
        f = [i \in 0..n |->
                IF i = 0 THEN <<>> ELSE IF q[i] \in S THEN f[i - 1] ELSE Append(f[i - 1], q[i])]
           Bad == {n \in Nat : n <= Len(q) /\ ~\E f : Upto(f, n)}
<1>1. Len(q) \in Nat
  OBVIOUS
<1>2. /\ Bad \in SUBSET Nat
      /\ \A n \in Bad : n <= Len(q) /\ ~\E f : Upto(f, n)
      /\ \A n \in Nat : n <= Len(q) /\ n \notin Bad => \E f : Upto(f, n)
  <2> HIDE DEF Upto
  <2>1. QED
    OBVIOUS
<1>3. Bad = {}
  <2> HIDE DEF Bad
  <2>1. SUFFICES ASSUME NEW n \in Bad PROVE FALSE
    OBVIOUS
  <2>2. PICK m \in Bad : \A k \in Bad : m <= k
    BY <1>2, Least
  <2>3. m \in Nat /\ m <= Len(q) /\ ~\E f : Upto(f, m)
    BY <1>2
  <2>4. CASE m = 0
    <3>1. Upto([i \in 0..0 |-> <<>>], 0)
      OBVIOUS
    <3>2. QED
      BY <2>3, <2>4, <3>1
  <2>5. CASE m # 0
    <3>1. m - 1 \in Nat /\ m - 1 <= Len(q) /\ ~(m <= m - 1)
      BY <1>1, <2>3, <2>5
    <3>2. PICK f : Upto(f, m - 1)
      <4> HIDE DEF Upto
      <4>1. QED
        BY <1>2, <2>2, <3>1
    <3>3. PICK last : last = IF q[m] \in S THEN f[m - 1] ELSE Append(f[m - 1], q[m])
      OBVIOUS
    <3> DEFINE g == [i \in 0..m |-> IF i = m THEN last ELSE f[i]]
    <3>4. \A i \in 0..m : g[i] = IF i = 0 THEN <<>> ELSE IF q[i] \in S THEN g[i - 1] ELSE Append(g[i - 1], q[i])
      <4>1. SUFFICES ASSUME NEW i \in 0..m
                     PROVE  g[i] = IF i = 0 THEN <<>> ELSE IF q[i] \in S THEN g[i - 1] ELSE Append(g[i - 1], q[i])
        OBVIOUS
      <4>2. i \in Int /\ (i # 0 => i - 1 \in 0..m /\ i - 1 # m)
        BY <2>3
      <4>3. CASE i = m
        BY <2>5, <3>3, <4>2, <4>3
      <4>4. CASE i # m
        <5>1. i \in 0..(m - 1) /\ (i # 0 => i - 1 \in 0..(m - 1))
          BY <2>3, <4>2, <4>4
        <5>2. f[i] = IF i = 0 THEN <<>> ELSE IF q[i] \in S THEN f[i - 1] ELSE Append(f[i - 1], q[i])
          BY <3>2, <5>1
        <5>3. g[i] = f[i] /\ (i # 0 => g[i - 1] = f[i - 1])
          BY <4>2, <4>4
        <5>4. QED
          BY <5>2, <5>3
      <4>5. QED
        BY <4>3, <4>4
    <3>5. Upto(g, m)
      BY <3>4
    <3>6. QED
      BY <2>3, <3>5
  <2>6. QED
    BY <2>4, <2>5
<1>4. \E f : Upto(f, Len(q))
  <2> HIDE DEF Upto, Bad
  <2>1. QED
    BY <1>1, <1>2, <1>3
<1>5. QED
  BY <1>4 DEF Keeps

\* What Lacking returns: the elements that are not in S, each as often as before.
LEMMA LackingProperties ==
    ASSUME NEW T, NEW q \in Seq(T), NEW S
    PROVE  /\ Lacking(q, S) \in Seq(T) /\ Elements(Lacking(q, S)) = Elements(q) \ S
           /\ Distinct(q) => Distinct(Lacking(q, S))
<1>1. PICK f : Keeps(f, q, S) /\ Lacking(q, S) = f[Len(q)]
  <2>1. Lacking(q, S) = (CHOOSE f : Keeps(f, q, S))[Len(q)]
    BY DEF Lacking, Keeps
  <2>2. QED
    BY <2>1, KeepsExists
<1>2. Len(q) \in Nat /\ DOMAIN q = 1..Len(q) /\ \A i \in 1..Len(q) : q[i] \in T
  BY LenProperties, ElementOfSeq
<1>3. \A i \in 0..Len(q) : f[i] = IF i = 0 THEN <<>> ELSE IF q[i] \in S THEN f[i - 1] ELSE Append(f[i - 1], q[i])
  BY <1>1 DEF Keeps
<1> DEFINE Good(n) == /\ f[n] \in Seq(T) /\ Elements(f[n]) = {q[i] : i \in 1..n} \ S
                      /\ Distinct(q) => Distinct(f[n])
           Bad == {n \in 0..Len(q) : ~Good(n)}
<1>4. /\ Bad \in SUBSET Nat
      /\ \A n \in Bad : n \in 0..Len(q) /\ ~Good(n)
      /\ \A n \in 0..Len(q) : n \notin Bad => Good(n)
  <2> HIDE DEF Good
  <2>1. QED
    BY <1>2
<1>5. Bad = {}
  <2> HIDE DEF Bad
  <2>1. SUFFICES ASSUME NEW n \in Bad PROVE FALSE
    OBVIOUS
  <2>2. PICK m \in Bad : \A k \in Bad : m <= k
    BY <1>4, Least
  <2>3. m \in 0..Len(q) /\ ~Good(m)
    BY <1>4
  <2>4. CASE m = 0
    <3>1. f[m] = <<>> /\ 1..m = {}
      BY <1>3, <2>3, <2>4
    <3>2. f[m] \in Seq(T) /\ Elements(f[m]) = {} /\ Distinct(f[m])
      BY <3>1 DEF Elements, Distinct
    <3>3. QED
      BY <2>3, <3>1, <3>2
  <2>5. CASE m # 0
    <3>1. m - 1 \in 0..Len(q) /\ ~(m <= m - 1) /\ m \in 1..Len(q)
      BY <1>2, <2>3, <2>5
    <3>2. Good(m - 1)
      <4> HIDE DEF Good
      <4>1. QED
        BY <1>4, <2>2, <3>1
    <3>3. 1..m = 1..(m - 1) \cup {m} /\ 1..(m - 1) \subseteq 1..Len(q) /\ m \notin 1..(m - 1)
      BY <1>2, <3>1
    <3>4. {q[i] : i \in 1..m} = {q[i] : i \in 1..(m - 1)} \cup {q[m]}
      BY <3>3
    <3>5. CASE q[m] \in S
      <4>1. f[m] = f[m - 1]
        BY <1>3, <2>3, <2>5, <3>5
      <4>2. QED
        BY <2>3, <3>2, <3>4, <3>5, <4>1
    <3>6. CASE q[m] \notin S
      <4>1. f[m] = Append(f[m - 1], q[m])
        BY <1>3, <2>3, <2>5, <3>6
      <4>2. Distinct(q) => q[m] \notin Elements(f[m - 1])
        BY <1>2, <3>1, <3>2, <3>3 DEF Distinct
      <4>3. q[m] \in T
        BY <1>2, <3>1
      <4>4. /\ f[m] \in Seq(T) /\ Elements(f[m]) = Elements(f[m - 1]) \cup {q[m]}
            /\ Distinct(q) => Distinct(f[m])
        BY <3>2, <4>1, <4>2, <4>3, OneMore
      <4>5. Elements(f[m]) = {q[i] : i \in 1..m} \ S
        BY <3>2, <3>4, <3>6, <4>4
      <4>6. QED
        BY <2>3, <4>4, <4>5
    <3>7. QED
      BY <3>5, <3>6
  <2>6. QED
    BY <2>4, <2>5
<1>6. Good(Len(q))
  <2> HIDE DEF Good, Bad
  <2>1. QED
    BY <1>2, <1>4, <1>5
<1>7. {q[i] : i \in 1..Len(q)} = Elements(q)
  BY <1>2 DEF Elements
<1>8. QED
  BY <1>1, <1>6, <1>7

(***************************************************************************)
(* Queues, clients and streams, as operators on the tables: ps for plugins, *)
(* aw for awaiting, pe for pending, cs for conns.                           *)
(***************************************************************************)

Connected == {"open", "closed", "gone"}
DeadIn(cs, c) == c \in Conns /\ cs[c].st \in {"closed", "gone"}

TablesTyped(ps, aw, pe, cs) ==
    /\ DOMAIN ps \subseteq Ids /\ \A id \in DOMAIN ps : ps[id] \in Plugin
    /\ aw \in [Owners -> Seq(Ids)] /\ pe \in [Owners -> Seq(Conns)]
    /\ cs \in [Conns -> [st : ConnState, owner : Owners]]

\* A dialled instance is its own client; a tunnel instance is online only over a
\* stream of its owner whose disconnect hook has not run.
ClientsTrue(ps, cs) ==
    \A id \in DOMAIN ps :
        /\ ~ps[id].tunnel => ps[id].client = id
        /\ ps[id].tunnel => ps[id].client \in Conns \cup {NoClient}
        /\ ps[id].client = NoClient => ~ps[id].online
        /\ ps[id].client \in Conns =>
              /\ cs[ps[id].client].st \in Connected /\ cs[ps[id].client].owner = ps[id].owner
              /\ ps[id].online => cs[ps[id].client].st # "gone"

BoundOnce(ps) ==
    \A a, b \in DOMAIN ps : ps[a].client = ps[b].client /\ ps[a].client \in Conns => a = b

\* A queued stream is its owner's, is queued once and serves nobody.
Unclaimed(ps, pe, cs) ==
    \A o \in Owners :
        /\ Distinct(pe[o])
        /\ \A c \in Elements(pe[o]) :
              /\ cs[c].st \in Connected /\ cs[c].owner = o
              /\ \A id \in DOMAIN ps : ps[id].client # c

Unbound(ps, o) == {id \in DOMAIN ps : ps[id].tunnel /\ ps[id].owner = o /\ ps[id].client = NoClient}
Exact(ps, aw) == \A o \in Owners : Elements(aw[o]) = Unbound(ps, o) /\ Distinct(aw[o])

Paired(aw, pe, cs) == \A o \in Owners : Elements(aw[o]) = {} \/ \A c \in Elements(pe[o]) : DeadIn(cs, c)

Sound(ps, aw, pe, cs) ==
    /\ TablesTyped(ps, aw, pe, cs) /\ ClientsTrue(ps, cs) /\ BoundOnce(ps) /\ Unclaimed(ps, pe, cs)
    /\ Exact(ps, aw) /\ Paired(aw, pe, cs)

\* Entries, registrations and streams go, instances go offline, streams end.
LEMMA Shrinks ==
    ASSUME NEW ps, NEW aw, NEW pe, NEW cs, Sound(ps, aw, pe, cs),
           NEW ps2, NEW aw2, NEW pe2, NEW cs2, TablesTyped(ps2, aw2, pe2, cs2),
           DOMAIN ps2 \subseteq DOMAIN ps,
           \A id \in DOMAIN ps2 :
               /\ ps2[id].owner = ps[id].owner /\ ps2[id].tunnel = ps[id].tunnel /\ ps2[id].client = ps[id].client
               /\ ps2[id].tunnel /\ ps2[id].online => ps[id].online
               /\ ps2[id].client \in Conns /\ ps2[id].online => cs2[ps2[id].client].st # "gone",
           \A o \in Owners : Elements(aw2[o]) = Elements(aw[o]) \cap DOMAIN ps2 /\ Distinct(aw2[o]),
           \A o \in Owners : Elements(pe2[o]) \subseteq Elements(pe[o]) /\ Distinct(pe2[o]),
           \A c \in Conns : cs[c].st \in Connected => cs2[c].st \in Connected /\ cs2[c].owner = cs[c].owner,
           \A c \in Conns : DeadIn(cs, c) => DeadIn(cs2, c)
    PROVE  Sound(ps2, aw2, pe2, cs2)
<1>1. ClientsTrue(ps2, cs2)
  <2>1. ASSUME NEW id \in DOMAIN ps2
        PROVE  /\ ~ps2[id].tunnel => ps2[id].client = id
               /\ ps2[id].tunnel => ps2[id].client \in Conns \cup {NoClient}
               /\ ps2[id].client = NoClient => ~ps2[id].online
               /\ ps2[id].client \in Conns =>
                     /\ cs2[ps2[id].client].st \in Connected /\ cs2[ps2[id].client].owner = ps2[id].owner
                     /\ ps2[id].online => cs2[ps2[id].client].st # "gone"
    <3>1. id \in DOMAIN ps /\ id \in Ids
      BY <2>1 DEF Sound, TablesTyped
    <3>2. NoClient # id
      BY <3>1, RegistryAssumption DEF Ids
    <3>3. ps2[id].client = NoClient => ps2[id].tunnel
      BY <2>1, <3>1, <3>2 DEF Sound, ClientsTrue
    <3>4. QED
      BY <2>1, <3>1, <3>3 DEF Sound, ClientsTrue
  <2>2. QED
    BY <2>1 DEF ClientsTrue
<1>2. BoundOnce(ps2)
  BY DEF Sound, BoundOnce
<1>3. Unclaimed(ps2, pe2, cs2)
  <2>1. ASSUME NEW o \in Owners, NEW c \in Elements(pe2[o])
        PROVE  cs2[c].st \in Connected /\ cs2[c].owner = o /\ \A id \in DOMAIN ps2 : ps2[id].client # c
    <3>1. c \in Elements(pe[o])
      BY <2>1
    <3>2. c \in Conns
      <4>1. pe[o] \in Seq(Conns)
        BY <2>1 DEF Sound, TablesTyped
      <4>2. QED
        BY <3>1, <4>1 DEF Elements
    <3>3. QED
      BY <2>1, <3>1, <3>2 DEF Sound, Unclaimed
  <2>2. QED
    BY <2>1 DEF Unclaimed
<1>4. Exact(ps2, aw2)
  <2>1. ASSUME NEW o \in Owners PROVE Unbound(ps2, o) = Unbound(ps, o) \cap DOMAIN ps2
    BY DEF Unbound
  <2>2. QED
    BY <2>1 DEF Exact, Sound
<1>5. Paired(aw2, pe2, cs2)
  <2>1. SUFFICES ASSUME NEW o \in Owners, Elements(aw2[o]) # {}, NEW c \in Elements(pe2[o]) PROVE DeadIn(cs2, c)
    BY DEF Paired
  <2>2. c \in Elements(pe[o]) /\ Elements(aw[o]) # {}
    BY <2>1
  <2>3. DeadIn(cs, c)
    BY <2>2 DEF Sound, Paired
  <2>4. c \in Conns
    BY <2>3 DEF DeadIn
  <2>5. QED
    BY <2>3, <2>4
<1>6. QED
  BY <1>1, <1>2, <1>3, <1>4, <1>5 DEF Sound

\* The entry of a registration.
LEMMA Registers ==
    ASSUME NEW o \in Owners, NEW n \in Names, NEW tunnel \in BOOLEAN, NEW id \in Ids, NEW e, e = Registration(o, n, tunnel, id)
    PROVE  /\ e \in Plugin /\ e.owner = o /\ (e.tunnel <=> tunnel) /\ (e.online <=> ~tunnel)
           /\ tunnel => e.client = NoClient
           /\ ~tunnel => e.client = id
<1>1. /\ e.owner = o /\ e.name = n /\ e.tunnel = tunnel /\ e.online = ~tunnel /\ e.age = 0
      /\ e.client = IF tunnel THEN NoClient ELSE id
  BY DEF Registration
<1>2. e.online \in BOOLEAN /\ e.age \in 0..2 /\ e.client \in Clients
  BY <1>1 DEF Clients
<1>3. e = [owner |-> e.owner, name |-> e.name, tunnel |-> e.tunnel, online |-> e.online, age |-> e.age, client |-> e.client]
  BY <1>1 DEF Registration
<1>4. QED
  BY <1>1, <1>2, <1>3 DEF Plugin

\* A dialled plugin registers.
LEMMA AddsDialled ==
    ASSUME NEW ps, NEW aw, NEW pe, NEW cs, Sound(ps, aw, pe, cs), NEW id \in Ids, id \notin DOMAIN ps,
           NEW e \in Plugin, ~e.tunnel, e.client = id
    PROVE  Sound(With(ps, id, e), aw, pe, cs)
<1>1. PICK p2 : p2 = With(ps, id, e)
  OBVIOUS
<1>2. /\ DOMAIN p2 = DOMAIN ps \cup {id} /\ p2[id] = e
      /\ \A x \in DOMAIN ps : x # id /\ p2[x] = ps[x]
  BY <1>1 DEF With
<1>3. id \notin Conns /\ id # NoClient
  BY RegistryAssumption DEF Ids
<1>4. TablesTyped(p2, aw, pe, cs)
  BY <1>2 DEF Sound, TablesTyped
<1>5. ClientsTrue(p2, cs)
  <2>1. ASSUME NEW x \in DOMAIN p2
        PROVE  /\ ~p2[x].tunnel => p2[x].client = x
               /\ p2[x].tunnel => p2[x].client \in Conns \cup {NoClient}
               /\ p2[x].client = NoClient => ~p2[x].online
               /\ p2[x].client \in Conns =>
                     /\ cs[p2[x].client].st \in Connected /\ cs[p2[x].client].owner = p2[x].owner
                     /\ p2[x].online => cs[p2[x].client].st # "gone"
    <3>1. CASE x = id
      BY <1>2, <1>3, <3>1
    <3>2. CASE x # id
      <4>1. x \in DOMAIN ps /\ p2[x] = ps[x]
        BY <1>2, <2>1, <3>2
      <4>2. QED
        BY <4>1 DEF Sound, ClientsTrue
    <3>3. QED
      BY <3>1, <3>2
  <2>2. QED
    BY <2>1 DEF ClientsTrue
<1>6. BoundOnce(p2)
  BY <1>2, <1>3 DEF Sound, BoundOnce
<1>7. Unclaimed(p2, pe, cs)
  <2>1. ASSUME NEW x \in Owners, NEW c \in Elements(pe[x]) PROVE c \in Conns
    BY <2>1 DEF Sound, TablesTyped, Elements
  <2>2. QED
    BY <1>2, <1>3, <2>1 DEF Sound, Unclaimed
<1>8. Exact(p2, aw)
  <2>1. ASSUME NEW x \in Owners PROVE Unbound(p2, x) = Unbound(ps, x)
    BY <1>2 DEF Unbound
  <2>2. QED
    BY <2>1 DEF Sound, Exact
<1>9. QED
  BY <1>1, <1>4, <1>5, <1>6, <1>7, <1>8 DEF Sound

\* The entry of a tunnel registration of o, which has no stream yet.
Waits(e, o) == e \in Plugin /\ e.owner = o /\ e.tunnel /\ e.client = NoClient /\ ~e.online

\* p2 is ps with a registration of o that waits for a stream.
OneMoreWaits(ps, aw, pe, cs, o, id, p2) ==
    /\ DOMAIN p2 = DOMAIN ps \cup {id} /\ \A x \in DOMAIN ps : p2[x] = ps[x]
    /\ TablesTyped(p2, aw, pe, cs) /\ ClientsTrue(p2, cs) /\ BoundOnce(p2) /\ Unclaimed(p2, pe, cs)
    /\ Unbound(p2, o) = Unbound(ps, o) \cup {id}
    /\ \A x \in Owners : x # o => Unbound(p2, x) = Unbound(ps, x)

\* A tunnel plugin registers; it has no stream yet.
LEMMA AddsUnbound ==
    ASSUME NEW ps, NEW aw, NEW pe, NEW cs, Sound(ps, aw, pe, cs), NEW id \in Ids, id \notin DOMAIN ps,
           NEW o \in Owners, NEW e, Waits(e, o),
           NEW p2, p2 = With(ps, id, e)
    PROVE  OneMoreWaits(ps, aw, pe, cs, o, id, p2)
<1>1. e \in Plugin /\ e.owner = o /\ e.tunnel /\ e.client = NoClient /\ ~e.online
  BY DEF Waits
<1>2. /\ DOMAIN p2 = DOMAIN ps \cup {id} /\ p2[id] = e
      /\ \A x \in DOMAIN ps : x # id /\ p2[x] = ps[x]
  BY DEF With
<1>3. NoClient \notin Conns /\ aw[o] \in Seq(Ids)
  BY RegistryAssumption DEF Sound, TablesTyped
<1>4. TablesTyped(p2, aw, pe, cs)
  BY <1>1, <1>2 DEF Sound, TablesTyped
<1>5. ClientsTrue(p2, cs)
  <2>1. ASSUME NEW x \in DOMAIN p2
        PROVE  /\ ~p2[x].tunnel => p2[x].client = x
               /\ p2[x].tunnel => p2[x].client \in Conns \cup {NoClient}
               /\ p2[x].client = NoClient => ~p2[x].online
               /\ p2[x].client \in Conns =>
                     /\ cs[p2[x].client].st \in Connected /\ cs[p2[x].client].owner = p2[x].owner
                     /\ p2[x].online => cs[p2[x].client].st # "gone"
    <3>1. CASE x = id
      BY <1>1, <1>2, <1>3, <3>1
    <3>2. CASE x # id
      <4>1. x \in DOMAIN ps /\ p2[x] = ps[x]
        BY <1>1, <1>2, <2>1, <3>2
      <4>2. QED
        BY <4>1 DEF Sound, ClientsTrue
    <3>3. QED
      BY <3>1, <3>2
  <2>2. QED
    BY <2>1 DEF ClientsTrue
<1>6. BoundOnce(p2)
  BY <1>1, <1>2, <1>3 DEF Sound, BoundOnce
<1>7. Unclaimed(p2, pe, cs)
  <2>1. ASSUME NEW x \in Owners, NEW c \in Elements(pe[x]) PROVE c \in Conns
    BY <2>1 DEF Sound, TablesTyped, Elements
  <2>2. ASSUME NEW x \in Owners, NEW c \in Elements(pe[x]), NEW y \in DOMAIN p2 PROVE p2[y].client # c
    <3>1. c \in Conns /\ \A z \in DOMAIN ps : ps[z].client # c
      BY <2>1, <2>2 DEF Sound, Unclaimed
    <3>2. CASE y = id
      BY <1>1, <1>2, <1>3, <3>1, <3>2
    <3>3. CASE y # id
      BY <1>1, <1>2, <2>2, <3>1, <3>3
    <3>4. QED
      BY <3>2, <3>3
  <2>3. QED
    BY <2>2 DEF Sound, Unclaimed
<1>8. ASSUME NEW x \in Owners, x # o PROVE Unbound(p2, x) = Unbound(ps, x)
  BY <1>1, <1>2, <1>8 DEF Unbound
<1>9. Unbound(p2, o) = Unbound(ps, o) \cup {id}
  BY <1>1, <1>2 DEF Unbound
<1>10. QED
  BY <1>2, <1>4, <1>5, <1>6, <1>7, <1>8, <1>9 DEF OneMoreWaits

\* A tunnel plugin registers, and no stream of its owner is queued.
LEMMA AddsWaiting ==
    ASSUME NEW ps, NEW aw, NEW pe, NEW cs, Sound(ps, aw, pe, cs), NEW id \in Ids, id \notin DOMAIN ps,
           NEW o \in Owners, NEW e, Waits(e, o),
           Elements(pe[o]) = {},
           NEW aw2 \in [Owners -> Seq(Ids)], aw2[o] = Append(aw[o], id), \A x \in Owners : x # o => aw2[x] = aw[x]
    PROVE  Sound(With(ps, id, e), aw2, pe, cs)
<1>1. PICK p2 : p2 = With(ps, id, e)
  OBVIOUS
<1>2. /\ TablesTyped(p2, aw, pe, cs) /\ ClientsTrue(p2, cs) /\ BoundOnce(p2) /\ Unclaimed(p2, pe, cs)
      /\ Unbound(p2, o) = Unbound(ps, o) \cup {id}
      /\ \A x \in Owners : x # o => Unbound(p2, x) = Unbound(ps, x)
  <2>1. OneMoreWaits(ps, aw, pe, cs, o, id, p2)
    BY <1>1, AddsUnbound
  <2>2. QED
    BY <2>1 DEF OneMoreWaits
<1>3. TablesTyped(p2, aw2, pe, cs)
  BY <1>2 DEF TablesTyped
<1>4. aw[o] \in Seq(Ids)
  BY DEF Sound, TablesTyped
<1>5. id \notin Elements(aw[o]) /\ Distinct(aw[o]) /\ Elements(aw[o]) = Unbound(ps, o)
  BY DEF Sound, Exact, Unbound
<1>6. Elements(aw2[o]) = Elements(aw[o]) \cup {id} /\ Distinct(aw2[o])
  BY <1>4, <1>5, OneMore
<1>7. Exact(p2, aw2)
  <2>1. Elements(aw2[o]) = Unbound(p2, o)
    BY <1>2, <1>5, <1>6
  <2>2. ASSUME NEW x \in Owners, x # o PROVE Elements(aw2[x]) = Unbound(p2, x) /\ Distinct(aw2[x])
    BY <1>2, <2>2 DEF Sound, Exact
  <2>3. QED
    BY <1>6, <2>1, <2>2 DEF Exact
<1>8. Paired(aw2, pe, cs)
  BY DEF Sound, Paired
<1>9. QED
  BY <1>1, <1>2, <1>3, <1>7, <1>8 DEF Sound

\* An instance that waits for a stream gets one that nobody has.
LEMMA Binds ==
    ASSUME NEW ps, NEW aw, NEW pe, NEW cs, TablesTyped(ps, aw, pe, cs), ClientsTrue(ps, cs), BoundOnce(ps),
           Unclaimed(ps, pe, cs), NEW o1 \in Owners, NEW id \in Unbound(ps, o1),
           NEW c \in Conns, cs[c].st \in {"open", "closed"}, cs[c].owner = o1,
           \A x \in DOMAIN ps : ps[x].client # c, \A o \in Owners : c \notin Elements(pe[o]),
           NEW aw2, \A o \in Owners : Elements(aw2[o]) = Unbound(ps, o) \ {id} /\ Distinct(aw2[o]),
           aw2 \in [Owners -> Seq(Ids)], Paired(aw2, pe, cs)
    PROVE  Sound(Bound(ps, id, c), aw2, pe, cs)
<1>1. id \in DOMAIN ps /\ ps[id].tunnel /\ ps[id].client = NoClient /\ cs[c].owner = ps[id].owner
  BY DEF Unbound
<1>2. PICK p2 : p2 = Bound(ps, id, c)
  OBVIOUS
<1>3. /\ DOMAIN p2 = DOMAIN ps /\ p2[id] \in Plugin /\ p2[id].owner = ps[id].owner /\ p2[id].tunnel
      /\ p2[id].client = c /\ p2[id].online
      /\ \A x \in DOMAIN ps : x # id => p2[x] = ps[x]
  <2>1. PICK b : b = TRUE
    OBVIOUS
  <2>2. PICK z : z = 0
    OBVIOUS
  <2> DEFINE q1 == [ps EXCEPT ![id].client = c]
             q2 == [q1 EXCEPT ![id].online = b]
             q3 == [q2 EXCEPT ![id].age = z]
  <2>3. p2 = q3
    BY <1>2, <2>1, <2>2 DEF Bound
  <2>4. ps[id] \in Plugin
    BY <1>1 DEF TablesTyped
  <2>5. DOMAIN q1 = DOMAIN ps /\ q1[id] = [ps[id] EXCEPT !.client = c] /\ \A x \in DOMAIN ps : x # id => q1[x] = ps[x]
    BY <1>1
  <2>6. DOMAIN q2 = DOMAIN ps /\ q2[id] = [q1[id] EXCEPT !.online = b] /\ \A x \in DOMAIN ps : x # id => q2[x] = ps[x]
    BY <1>1, <2>5
  <2>7. DOMAIN q3 = DOMAIN ps /\ q3[id] = [q2[id] EXCEPT !.age = z] /\ \A x \in DOMAIN ps : x # id => q3[x] = ps[x]
    BY <1>1, <2>6
  <2> HIDE DEF q1, q2, q3
  <2>8. q1[id] \in Plugin /\ q1[id].client = c /\ q1[id].owner = ps[id].owner /\ q1[id].tunnel
    BY <1>1, <2>4, <2>5 DEF Plugin, Clients
  <2>9. /\ q2[id] \in Plugin /\ q2[id].client = c /\ q2[id].online = b
        /\ q2[id].owner = ps[id].owner /\ q2[id].tunnel
    BY ZenonT(30), <2>1, <2>6, <2>8 DEF Plugin, Clients
  <2>10. /\ q3[id] \in Plugin /\ q3[id].client = c /\ q3[id].online = b
         /\ q3[id].owner = ps[id].owner /\ q3[id].tunnel
    BY <1>1, <2>2, <2>7, <2>9 DEF Plugin, Clients
  <2>11. q3[id].online
    BY <2>1, <2>10
  <2>12. q3[id].tunnel
    BY <1>1, <2>10
  <2>13. DOMAIN q3 = DOMAIN ps /\ q3[id] \in Plugin /\ q3[id].owner = ps[id].owner /\ q3[id].client = c
    BY <1>1, <2>7, <2>10
  <2>14. \A x \in DOMAIN ps : x # id => q3[x] = ps[x]
    BY <1>1, <2>7
  <2>15. QED
    BY <1>1, <2>3, <2>11, <2>12, <2>13, <2>14
<1>4. c # NoClient
  BY RegistryAssumption
<1>5. TablesTyped(p2, aw2, pe, cs)
  BY <1>1, <1>3 DEF TablesTyped
<1>6. ClientsTrue(p2, cs)
  <2>1. ASSUME NEW x \in DOMAIN p2
        PROVE  /\ ~p2[x].tunnel => p2[x].client = x
               /\ p2[x].tunnel => p2[x].client \in Conns \cup {NoClient}
               /\ p2[x].client = NoClient => ~p2[x].online
               /\ p2[x].client \in Conns =>
                     /\ cs[p2[x].client].st \in Connected /\ cs[p2[x].client].owner = p2[x].owner
                     /\ p2[x].online => cs[p2[x].client].st # "gone"
    <3>1. CASE x = id
      BY <1>1, <1>3, <1>4, <3>1 DEF Connected
    <3>2. CASE x # id
      <4>1. x \in DOMAIN ps /\ p2[x] = ps[x]
        BY <1>1, <1>3, <2>1, <3>2
      <4>2. QED
        BY <4>1 DEF ClientsTrue
    <3>3. QED
      BY <3>1, <3>2
  <2>2. QED
    BY <2>1 DEF ClientsTrue
<1>7. BoundOnce(p2)
  BY <1>1, <1>3 DEF BoundOnce
<1>8. Unclaimed(p2, pe, cs)
  <2>1. ASSUME NEW x \in Owners, NEW d \in Elements(pe[x]), NEW y \in DOMAIN p2 PROVE p2[y].client # d
    <3>1. CASE y = id
      BY <1>1, <1>3, <2>1, <3>1
    <3>2. CASE y # id
      <4>1. y \in DOMAIN ps /\ p2[y] = ps[y]
        BY <1>1, <1>3, <2>1, <3>2
      <4>2. ps[y].client # d
        BY <2>1, <4>1 DEF Unclaimed
      <4>3. QED
        BY <4>1, <4>2
    <3>3. QED
      BY <3>1, <3>2
  <2>2. QED
    BY <2>1 DEF Unclaimed
<1>9. Exact(p2, aw2)
  <2>1. ASSUME NEW x \in Owners PROVE Unbound(p2, x) = Unbound(ps, x) \ {id}
    BY <1>1, <1>3, <1>4 DEF Unbound
  <2>2. QED
    BY <2>1 DEF Exact
<1>10. QED
  BY <1>2, <1>5, <1>6, <1>7, <1>8, <1>9 DEF Sound

\* FirstAwaiting when every queued id waits for a stream.
LEMMA FirstOfQueue ==
    ASSUME NEW ps, NEW aw \in Seq(Ids), \A id \in Elements(aw) : id \in DOMAIN ps /\ ps[id].client = NoClient
    PROVE  IF aw = <<>> THEN FirstAwaiting(ps, aw) = <<0, <<>>>>
           ELSE FirstAwaiting(ps, aw) = <<aw[1], Tail(aw)>> /\ aw[1] \in Elements(aw)
<1> DEFINE good == {i \in DOMAIN aw : aw[i] \in DOMAIN ps /\ ps[aw[i]].client = NoClient}
<1>1. DOMAIN aw = 1..Len(aw) /\ Len(aw) \in Nat
  BY LenProperties
<1>2. good = DOMAIN aw
  BY DEF Elements
<1>3. CASE aw = <<>>
  <2>1. good = {}
    BY <1>1, <1>2, <1>3
  <2>2. QED
    BY <1>3, <2>1 DEF FirstAwaiting
<1>4. CASE aw # <<>>
  <2>1. Len(aw) > 0 /\ 1 \in DOMAIN aw
    BY <1>1, <1>4, EmptySeq
  <2> DEFINE i == CHOOSE j \in good : \A k \in good : j <= k
  <2>2. i \in good /\ \A k \in good : i <= k
    <3>1. 1 \in good /\ \A k \in good : 1 <= k
      BY <1>1, <1>2, <2>1
    <3> HIDE DEF good
    <3>2. QED
      BY <3>1
  <2>3. i = 1
    <3> HIDE DEF i
    <3>1. QED
      BY <1>1, <1>2, <2>1, <2>2
  <2>4. FirstAwaiting(ps, aw) = <<aw[i], SubSeq(aw, i + 1, Len(aw))>>
    BY <2>2 DEF FirstAwaiting
  <2>5. SubSeq(aw, 2, Len(aw)) = Tail(aw)
    BY <1>4, TailIsSubSeq
  <2>6. aw[1] \in Elements(aw)
    BY <2>1 DEF Elements
  <2>7. FirstAwaiting(ps, aw) = <<aw[1], Tail(aw)>>
    <3> HIDE DEF i, good
    <3>1. i + 1 = 2
      BY <2>3
    <3>2. QED
      BY <2>3, <2>4, <2>5, <3>1
  <2>8. QED
    BY <1>4, <2>6, <2>7
<1>5. QED
  BY <1>3, <1>4

\* The head of a queue and the rest.
LEMMA HeadAndTail ==
    ASSUME NEW T, NEW q \in Seq(T), q # <<>>, Distinct(q)
    PROVE  /\ Head(q) \in Elements(q) /\ Tail(q) \in Seq(T)
           /\ Elements(Tail(q)) = Elements(q) \ {Head(q)} /\ Distinct(Tail(q))
<1>1. Len(q) \in Nat /\ Len(q) > 0 /\ DOMAIN q = 1..Len(q)
  BY EmptySeq, LenProperties
<1>2. /\ Tail(q) \in Seq(T) /\ Len(Tail(q)) = Len(q) - 1 /\ Head(q) = q[1]
      /\ \A i \in 1..Len(Tail(q)) : Tail(q)[i] = q[i + 1]
  BY HeadTailProperties
<1>3. DOMAIN Tail(q) = 1..(Len(q) - 1)
  BY <1>2, LenProperties
<1>4. \A i \in 1..(Len(q) - 1) : Tail(q)[i] = q[i + 1]
  BY <1>2
<1>5. \A i \in 1..(Len(q) - 1) : i + 1 \in DOMAIN q /\ i + 1 # 1
  BY <1>1
<1>6. \A i \in 1..Len(q) : i # 1 => i - 1 \in 1..(Len(q) - 1) /\ (i - 1) + 1 = i
  BY <1>1
<1>7. 1 \in DOMAIN q
  BY <1>1
<1>8. ASSUME NEW y \in Elements(Tail(q)) PROVE y \in Elements(q) \ {Head(q)}
  <2>1. PICK i \in 1..(Len(q) - 1) : y = q[i + 1]
    BY <1>3, <1>4, <1>8 DEF Elements
  <2>2. QED
    BY <1>2, <1>5, <1>7, <2>1 DEF Elements, Distinct
<1>9. ASSUME NEW y \in Elements(q) \ {Head(q)} PROVE y \in Elements(Tail(q))
  <2>1. PICK i \in 1..Len(q) : y = q[i] /\ i # 1
    BY <1>1, <1>2, <1>9 DEF Elements
  <2>2. i - 1 \in DOMAIN Tail(q) /\ Tail(q)[i - 1] = y
    BY <1>3, <1>4, <1>6, <2>1
  <2>3. QED
    BY <2>2 DEF Elements
<1>10. Distinct(Tail(q))
  <2>1. ASSUME NEW i \in DOMAIN Tail(q), NEW j \in DOMAIN Tail(q), Tail(q)[i] = Tail(q)[j] PROVE i = j
    <3>1. q[i + 1] = q[j + 1] /\ i + 1 \in DOMAIN q /\ j + 1 \in DOMAIN q
      BY <1>3, <1>4, <1>5, <2>1
    <3>2. i + 1 = j + 1
      BY <3>1 DEF Distinct
    <3>3. QED
      BY <1>3, <3>2
  <2>2. QED
    BY <2>1 DEF Distinct
<1>11. Head(q) \in Elements(q)
  BY <1>2, <1>7 DEF Elements
<1>12. QED
  BY <1>2, <1>8, <1>9, <1>10, <1>11

\* A queue without elements is the empty one.
LEMMA NoElements == ASSUME NEW T, NEW q \in Seq(T) PROVE q = <<>> <=> Elements(q) = {}
<1>1. Len(q) \in Nat /\ DOMAIN q = 1..Len(q)
  BY LenProperties
<1>2. CASE Len(q) = 0
  BY <1>1, <1>2, EmptySeq DEF Elements
<1>3. CASE Len(q) # 0
  <2>1. 1 \in DOMAIN q /\ q # <<>>
    BY <1>1, <1>3, EmptySeq
  <2>2. QED
    BY <2>1 DEF Elements
<1>4. QED
  BY <1>2, <1>3

\* A function that maps nothing.
LEMMA EmptyMap == ASSUME NEW f, f = [x \in DOMAIN f |-> f[x]], DOMAIN f = {} PROVE f = <<>>
<1>1. 1..0 = {}
  OBVIOUS
<1>2. f \in [1..0 -> Nat]
  BY <1>1
<1>3. f \in Seq(Nat) /\ Len(f) = 0
  BY <1>1, <1>2, IsASeq, LenProperties
<1>4. QED
  BY <1>3, EmptySeq

\* Registrations keep what they are, and no tunnel goes online.
LEMMA SameRegistrations ==
    ASSUME NEW ps, NEW aw, NEW pe, NEW cs, Sound(ps, aw, pe, cs), NEW ps2,
           DOMAIN ps2 = DOMAIN ps,
           \A id \in DOMAIN ps2 :
               /\ ps2[id] \in Plugin
               /\ ps2[id].owner = ps[id].owner /\ ps2[id].tunnel = ps[id].tunnel /\ ps2[id].client = ps[id].client
               /\ ps2[id].tunnel /\ ps2[id].online => ps[id].online
    PROVE  Sound(ps2, aw, pe, cs)
<1>1. TablesTyped(ps2, aw, pe, cs)
  BY DEF Sound, TablesTyped
<1>2. ASSUME NEW id \in DOMAIN ps2, ps2[id].client \in Conns, ps2[id].online PROVE cs[ps2[id].client].st # "gone"
  <2>1. id \in DOMAIN ps /\ id \in Ids /\ id \notin Conns
    BY <1>2, RegistryAssumption DEF Sound, TablesTyped, Ids
  <2>2. ps[id].tunnel
    BY <1>2, <2>1 DEF Sound, ClientsTrue
  <2>3. ps[id].online
    BY <1>2, <2>1, <2>2
  <2>4. QED
    BY <1>2, <2>1, <2>3 DEF Sound, ClientsTrue
<1>3. \A o \in Owners : Elements(aw[o]) = Elements(aw[o]) \cap DOMAIN ps2 /\ Distinct(aw[o])
  BY DEF Sound, Exact, Unbound
<1>4. \A o \in Owners : Elements(pe[o]) \subseteq Elements(pe[o]) /\ Distinct(pe[o])
  BY DEF Sound, Unclaimed
<1>5. QED
  BY <1>1, <1>2, <1>3, <1>4, Shrinks

\* A stream is queued when no registration of its owner waits for one.
LEMMA AddsPending ==
    ASSUME NEW ps, NEW aw, NEW pe, NEW cs, Sound(ps, aw, pe, cs), NEW c \in Conns, NEW o \in Owners,
           cs[c].st \in Connected, cs[c].owner = o, \A x \in DOMAIN ps : ps[x].client # c,
           c \notin Elements(pe[o]), Elements(aw[o]) = {},
           NEW pe2 \in [Owners -> Seq(Conns)], pe2[o] = Append(pe[o], c), \A x \in Owners : x # o => pe2[x] = pe[x]
    PROVE  Sound(ps, aw, pe2, cs)
<1>1. pe[o] \in Seq(Conns)
  BY DEF Sound, TablesTyped
<1>2. Elements(pe2[o]) = Elements(pe[o]) \cup {c} /\ Distinct(pe2[o])
  BY <1>1, OneMore DEF Sound, Unclaimed
<1>3. Unclaimed(ps, pe2, cs)
  <2>1. ASSUME NEW x \in Owners, NEW d \in Elements(pe2[x])
        PROVE  cs[d].st \in Connected /\ cs[d].owner = x /\ \A id \in DOMAIN ps : ps[id].client # d
    <3>1. CASE d \in Elements(pe[x])
      BY <2>1, <3>1 DEF Sound, Unclaimed
    <3>2. CASE d \notin Elements(pe[x])
      <4>1. x = o /\ d = c
        BY <1>2, <2>1, <3>2
      <4>2. QED
        BY <4>1
    <3>3. QED
      BY <3>1, <3>2
  <2>2. \A x \in Owners : Distinct(pe2[x])
    BY <1>2 DEF Sound, Unclaimed
  <2>3. QED
    BY <2>1, <2>2 DEF Unclaimed
<1>4. Paired(aw, pe2, cs)
  BY DEF Sound, Paired
<1>5. QED
  BY <1>3, <1>4 DEF Sound, TablesTyped

(***************************************************************************)
(* The handlers and the queues.                                            *)
(***************************************************************************)

QueuesSound == Sound(plugins, awaiting, pending, conns)

\* What Sound says of one entry.
LEMMA EntryOf ==
    ASSUME QueuesSound, NEW id \in DOMAIN plugins
    PROVE  plugins[id] \in Plugin /\ id \in Ids /\ id \notin Conns /\ id # NoClient
BY RegistryAssumption DEF QueuesSound, Sound, TablesTyped, Ids

\* Entries of one registration and one stream.
Alike(r, q) == q \in Plugin /\ q.owner = r.owner /\ q.tunnel = r.tunnel /\ q.client = r.client

\* A handler that changes the mark of an entry ...
LEMMA OnlineChanged ==
    ASSUME NEW r \in Plugin, NEW b \in BOOLEAN, NEW q, q = [r EXCEPT !.online = b]
    PROVE  Alike(r, q) /\ q.online = b
BY DEF Plugin, Alike

\* ... or its age.
LEMMA AgeChanged ==
    ASSUME NEW r \in Plugin, NEW a \in 0..2, NEW q, q = [r EXCEPT !.age = a]
    PROVE  Alike(r, q) /\ q.online = r.online
BY DEF Plugin, Alike

\* Heartbeat.
LEMMA HeartbeatSound == ASSUME QueuesSound, NEW id \in Ids, Heartbeat(id) PROVE QueuesSound'
<1>1. PICK b \in BOOLEAN : b = TRUE
  OBVIOUS
<1>2. PICK a \in 0..2 : a = 0
  OBVIOUS
<1>3. PICK q : q = [plugins[id] EXCEPT !.online = b]
  OBVIOUS
<1>4. PICK r : r = [q EXCEPT !.age = a]
  OBVIOUS
<1>5. id \in DOMAIN plugins /\ plugins[id] \in Plugin /\ ~plugins[id].tunnel
  BY EntryOf DEF Heartbeat
<1>6. Alike(plugins[id], q)
  BY <1>5, <1>3, OnlineChanged
<1>7. Alike(q, r)
  <2>1. q \in Plugin
    BY <1>6 DEF Alike
  <2>2. QED
    BY <2>1, <1>4, AgeChanged
<1>8. plugins' = [plugins EXCEPT ![id] = r] /\ UNCHANGED <<awaiting, pending, conns>>
  BY <1>2, <1>1, <1>5, <1>3, <1>4 DEF Heartbeat
<1>9. DOMAIN plugins' = DOMAIN plugins /\ plugins'[id] = r /\ \A x \in DOMAIN plugins : x # id => plugins'[x] = plugins[x]
  BY <1>5, <1>8
<1>10. ~r.tunnel
  BY <1>5, <1>6, <1>7 DEF Alike
<1>11. ASSUME NEW x \in DOMAIN plugins'
       PROVE  /\ plugins'[x] \in Plugin
              /\ plugins'[x].owner = plugins[x].owner /\ plugins'[x].tunnel = plugins[x].tunnel
              /\ plugins'[x].client = plugins[x].client
              /\ plugins'[x].tunnel /\ plugins'[x].online => plugins[x].online
  <2>1. CASE x = id
    BY <1>6, <1>7, <1>9, <1>10, <2>1 DEF Alike
  <2>2. CASE x # id
    BY <1>9, <1>11, <2>2, EntryOf
  <2>3. QED
    BY <2>1, <2>2
<1>12. Sound(plugins', awaiting, pending, conns)
  BY <1>9, <1>11, SameRegistrations DEF QueuesSound
<1>13. QED
  BY <1>8, <1>12 DEF QueuesSound

\* TimePasses.
LEMMA TimeSound == ASSUME QueuesSound, TimePasses PROVE QueuesSound'
<1>1. DOMAIN plugins' = DOMAIN plugins /\ UNCHANGED <<awaiting, pending, conns>>
  BY DEF TimePasses
<1>2. ASSUME NEW x \in DOMAIN plugins'
      PROVE  /\ plugins'[x] \in Plugin
             /\ plugins'[x].owner = plugins[x].owner /\ plugins'[x].tunnel = plugins[x].tunnel
             /\ plugins'[x].client = plugins[x].client
             /\ plugins'[x].tunnel /\ plugins'[x].online => plugins[x].online
  <2>1. plugins[x] \in Plugin /\ plugins[x].age \in 0..2
    BY <1>1, <1>2, EntryOf DEF Plugin
  <2>2. PICK a \in 0..2 : a = IF plugins[x].age = 2 THEN 2 ELSE plugins[x].age + 1
    BY <2>1
  <2>3. plugins'[x] = [plugins[x] EXCEPT !.age = a]
    BY <1>1, <1>2, <2>2 DEF TimePasses
  <2>4. PICK q : q = [plugins[x] EXCEPT !.age = a]
    OBVIOUS
  <2>5. Alike(plugins[x], q) /\ q.online = plugins[x].online
    BY <2>1, <2>4, AgeChanged
  <2>6. QED
    BY <2>3, <2>4, <2>5 DEF Alike
<1>3. Sound(plugins', awaiting, pending, conns)
  BY <1>1, <1>2, SameRegistrations DEF QueuesSound
<1>4. QED
  BY <1>1, <1>3 DEF QueuesSound

\* The queues after registrations and streams have been taken out of them.
LEMMA Trimmed ==
    ASSUME QueuesSound, NEW S, NEW D
    PROVE  /\ \A o \in Owners : /\ Lacking(awaiting[o], S) \in Seq(Ids)
                                /\ Elements(Lacking(awaiting[o], S)) = Elements(awaiting[o]) \ S
                                /\ Distinct(Lacking(awaiting[o], S))
           /\ \A o \in Owners : /\ Pruned(pending[o]) \in Seq(Conns)
                                /\ Elements(Pruned(pending[o])) = {c \in Elements(pending[o]) : ~DeadIn(conns, c)}
                                /\ Distinct(Pruned(pending[o]))
<1>1. ASSUME NEW o \in Owners
      PROVE  /\ awaiting[o] \in Seq(Ids) /\ Distinct(awaiting[o])
             /\ pending[o] \in Seq(Conns) /\ Distinct(pending[o])
  BY DEF QueuesSound, Sound, TablesTyped, Exact, Unclaimed
<1>2. ASSUME NEW o \in Owners
      PROVE  /\ Lacking(awaiting[o], S) \in Seq(Ids)
             /\ Elements(Lacking(awaiting[o], S)) = Elements(awaiting[o]) \ S
             /\ Distinct(Lacking(awaiting[o], S))
  BY <1>1, LackingProperties
<1>3. ASSUME NEW o \in Owners
      PROVE  /\ Pruned(pending[o]) \in Seq(Conns)
             /\ Elements(Pruned(pending[o])) = {c \in Elements(pending[o]) : ~DeadIn(conns, c)}
             /\ Distinct(Pruned(pending[o]))
  <2>1. PICK P : P = {c \in Conns : Dead(c)}
    OBVIOUS
  <2>2. /\ Lacking(pending[o], P) \in Seq(Conns) /\ Elements(Lacking(pending[o], P)) = Elements(pending[o]) \ P
        /\ Distinct(Lacking(pending[o], P))
    BY <1>1, LackingProperties
  <2>3. Elements(pending[o]) \subseteq Conns
    BY <1>1 DEF Elements
  <2>4. Elements(pending[o]) \ P = {c \in Elements(pending[o]) : ~DeadIn(conns, c)}
    BY <2>1, <2>3 DEF Dead, DeadIn
  <2>5. QED
    BY <2>1, <2>2, <2>4 DEF Pruned
<1>4. QED
  BY <1>2, <1>3

\* Deregister takes the instance out of its owner's queue.
LEMMA DeregisterSound == ASSUME QueuesSound, NEW id \in Ids, Deregister(id) PROVE QueuesSound'
<1>1. id \in DOMAIN plugins /\ UNCHANGED <<pending, conns>>
  BY DEF Deregister
<1>2. PICK p : p = plugins[id].owner
  OBVIOUS
<1>3. p \in Owners
  BY <1>1, <1>2, EntryOf DEF Plugin
<1>4. PICK S : S = {id}
  OBVIOUS
<1>5. awaiting' = [awaiting EXCEPT ![p] = Lacking(awaiting[p], S)]
  BY <1>2, <1>4 DEF Deregister, RemoveAwaiting
<1>6. DOMAIN plugins' = DOMAIN plugins \ S /\ \A x \in DOMAIN plugins' : plugins'[x] = plugins[x]
  BY <1>4 DEF Deregister, Without
<1>7. awaiting \in [Owners -> Seq(Ids)]
  BY DEF QueuesSound, Sound, TablesTyped
<1>8. \A o \in Owners : Lacking(awaiting[o], S) \in Seq(Ids) /\ Elements(Lacking(awaiting[o], S)) = Elements(awaiting[o]) \ S
                         /\ Distinct(Lacking(awaiting[o], S))
  BY Trimmed
<1>9. awaiting' \in [Owners -> Seq(Ids)]
  BY <1>3, <1>5, <1>7, <1>8
<1>10. TablesTyped(plugins', awaiting', pending, conns)
  BY <1>6, <1>9 DEF QueuesSound, Sound, TablesTyped
<1>11. ASSUME NEW o \in Owners
       PROVE  Elements(awaiting'[o]) = Elements(awaiting[o]) \cap DOMAIN plugins' /\ Distinct(awaiting'[o])
  <2>1. Elements(awaiting[o]) = Unbound(plugins, o) /\ Distinct(awaiting[o])
    BY DEF QueuesSound, Sound, Exact
  <2>2. CASE o = p
    <3>1. awaiting'[o] = Lacking(awaiting[o], S)
      BY <1>3, <1>5, <1>7, <2>2
    <3>2. Elements(awaiting[o]) \ S = Elements(awaiting[o]) \cap DOMAIN plugins'
      BY <1>6, <2>1 DEF Unbound
    <3>3. QED
      BY <1>8, <3>1, <3>2
  <2>3. CASE o # p
    <3>1. awaiting'[o] = awaiting[o]
      BY <1>5, <1>7, <2>3
    <3>2. Elements(awaiting[o]) = Elements(awaiting[o]) \cap DOMAIN plugins'
      BY <1>2, <1>4, <1>6, <2>1, <2>3 DEF Unbound
    <3>3. QED
      BY <2>1, <3>1, <3>2
  <2>4. QED
    BY <2>2, <2>3
<1>12. \A x \in DOMAIN plugins' :
          /\ plugins'[x].owner = plugins[x].owner /\ plugins'[x].tunnel = plugins[x].tunnel
          /\ plugins'[x].client = plugins[x].client
          /\ plugins'[x].tunnel /\ plugins'[x].online => plugins[x].online
          /\ plugins'[x].client \in Conns /\ plugins'[x].online => conns[plugins'[x].client].st # "gone"
  BY <1>6 DEF QueuesSound, Sound, ClientsTrue
<1>13. \A o \in Owners : Elements(pending[o]) \subseteq Elements(pending[o]) /\ Distinct(pending[o])
  BY DEF QueuesSound, Sound, Unclaimed
<1>14. Sound(plugins', awaiting', pending, conns)
  BY <1>6, <1>10, <1>11, <1>12, <1>13, Shrinks DEF QueuesSound
<1>15. QED
  BY <1>1, <1>14 DEF QueuesSound

\* An instance loses its mark, or keeps it.
LEMMA GoesOffline ==
    ASSUME NEW r \in Plugin, NEW x, NEW L, NEW q, q = [r EXCEPT !.online = (r.online /\ x \notin L)]
    PROVE  Alike(r, q) /\ (q.online <=> r.online /\ x \notin L)
<1>1. PICK b \in BOOLEAN : b = (r.online /\ x \notin L)
  OBVIOUS
<1>2. q = [r EXCEPT !.online = b]
  BY <1>1
<1>3. Alike(r, q) /\ q.online = b
  BY <1>2, OnlineChanged
<1>4. QED
  BY <1>1, <1>3

\* CheckOffline takes what it forgets out of every queue.
LEMMA CheckOfflineSound == ASSUME QueuesSound, CheckOffline PROVE QueuesSound'
<1>1. PICK L, S : L = {id \in DOMAIN plugins : Lost(id)} /\ S = {id \in DOMAIN plugins : Forgotten(id)}
  OBVIOUS
<1>2. /\ plugins' = [id \in DOMAIN plugins \ S |-> [plugins[id] EXCEPT !.online = (plugins[id].online /\ id \notin L)]]
      /\ awaiting' = [o \in Owners |-> Lacking(awaiting[o], S)] /\ UNCHANGED <<pending, conns>>
  BY <1>1 DEF CheckOffline
<1>3. ASSUME NEW x \in DOMAIN plugins'
      PROVE  /\ x \in DOMAIN plugins /\ Alike(plugins[x], plugins'[x])
             /\ plugins'[x].online <=> plugins[x].online /\ x \notin L
  <2>1. x \in DOMAIN plugins /\ plugins[x] \in Plugin
    BY <1>2, <1>3, EntryOf
  <2>2. plugins'[x] = [plugins[x] EXCEPT !.online = (plugins[x].online /\ x \notin L)]
    BY <1>2, <1>3
  <2>3. QED
    BY <2>1, <2>2, GoesOffline
<1>4. DOMAIN plugins' = DOMAIN plugins \ S
  BY <1>2
<1>5. \A o \in Owners : Lacking(awaiting[o], S) \in Seq(Ids) /\ Elements(Lacking(awaiting[o], S)) = Elements(awaiting[o]) \ S
                         /\ Distinct(Lacking(awaiting[o], S))
  BY Trimmed
<1>6. \A o \in Owners : Elements(awaiting'[o]) = Elements(awaiting[o]) \cap DOMAIN plugins' /\ Distinct(awaiting'[o])
  BY <1>2, <1>4, <1>5 DEF QueuesSound, Sound, Exact, Unbound
<1>7. TablesTyped(plugins', awaiting', pending, conns)
  BY <1>2, <1>3, <1>5 DEF QueuesSound, Sound, TablesTyped, Alike
<1>8. ASSUME NEW x \in DOMAIN plugins'
      PROVE  /\ plugins'[x].owner = plugins[x].owner /\ plugins'[x].tunnel = plugins[x].tunnel
             /\ plugins'[x].client = plugins[x].client
             /\ plugins'[x].tunnel /\ plugins'[x].online => plugins[x].online
             /\ plugins'[x].client \in Conns /\ plugins'[x].online => conns[plugins'[x].client].st # "gone"
  BY <1>3, <1>8 DEF QueuesSound, Sound, ClientsTrue, Alike
<1>9. \A o \in Owners : Elements(pending[o]) \subseteq Elements(pending[o]) /\ Distinct(pending[o])
  BY DEF QueuesSound, Sound, Unclaimed
<1>10. Sound(plugins', awaiting', pending, conns)
  BY <1>4, <1>6, <1>7, <1>8, <1>9, Shrinks DEF QueuesSound
<1>11. QED
  BY <1>2, <1>10 DEF QueuesSound

\* Streams that a step opens, ends or forgets, and instances that go offline with them.
LEMMA StreamsMove ==
    ASSUME NEW ps, NEW aw, NEW pe, NEW cs, Sound(ps, aw, pe, cs), NEW ps2, NEW pe2, NEW cs2,
           DOMAIN ps2 = DOMAIN ps,
           \A id \in DOMAIN ps2 :
               /\ Alike(ps[id], ps2[id]) /\ (ps2[id].online => ps[id].online)
               /\ ps2[id].client \in Conns /\ ps2[id].online => cs2[ps2[id].client].st # "gone",
           pe2 \in [Owners -> Seq(Conns)],
           \A o \in Owners : Elements(pe2[o]) \subseteq Elements(pe[o]) /\ Distinct(pe2[o]),
           cs2 \in [Conns -> [st : ConnState, owner : Owners]],
           \A c \in Conns : cs[c].st \in Connected => cs2[c].st \in Connected /\ cs2[c].owner = cs[c].owner,
           \A c \in Conns : DeadIn(cs, c) => DeadIn(cs2, c)
    PROVE  Sound(ps2, aw, pe2, cs2)
<1>1. TablesTyped(ps2, aw, pe2, cs2)
  BY DEF Sound, TablesTyped, Alike
<1>2. \A o \in Owners : Elements(aw[o]) = Elements(aw[o]) \cap DOMAIN ps2 /\ Distinct(aw[o])
  BY DEF Sound, Exact, Unbound
<1>3. \A id \in DOMAIN ps2 :
         /\ ps2[id].owner = ps[id].owner /\ ps2[id].tunnel = ps[id].tunnel /\ ps2[id].client = ps[id].client
         /\ ps2[id].tunnel /\ ps2[id].online => ps[id].online
         /\ ps2[id].client \in Conns /\ ps2[id].online => cs2[ps2[id].client].st # "gone"
  BY DEF Alike
<1>4. QED
  BY <1>1, <1>2, <1>3, Shrinks

\* Connect checks, and the end of a stream.
LEMMA StreamSound ==
    ASSUME QueuesSound, NEW c \in Conns, NEW o \in Owners, Connect(c, o) \/ SessionCloses(c)
    PROVE  QueuesSound'
<1>1. UNCHANGED <<plugins, awaiting, pending>> /\ conns \in [Conns -> [st : ConnState, owner : Owners]]
      /\ pending \in [Owners -> Seq(Conns)]
  BY DEF Connect, SessionCloses, tables, QueuesSound, Sound, TablesTyped
<1>2. PICK s \in {"checked", "closed"}, p \in Owners :
          conns' = [conns EXCEPT ![c] = [st |-> s, owner |-> p]]
          /\ \/ conns[c].st = "none"
             \/ s = "closed" /\ conns[c].st = "open" /\ p = conns[c].owner
  <2>1. CASE Connect(c, o)
    BY <2>1 DEF Connect
  <2>2. CASE SessionCloses(c)
    <3>1. conns[c] \in [st : ConnState, owner : Owners] /\ conns[c].st = "open"
      BY <1>1, <2>2 DEF SessionCloses
    <3>2. [conns[c] EXCEPT !.st = "closed"] = [st |-> "closed", owner |-> conns[c].owner] /\ conns[c].owner \in Owners
      BY <3>1
    <3>3. conns' = [conns EXCEPT ![c] = [st |-> "closed", owner |-> conns[c].owner]]
      BY <1>1, <2>2, <3>2 DEF SessionCloses
    <3>4. QED
      BY <3>1, <3>2, <3>3
  <2>3. QED
    BY <2>1, <2>2
<1>3. /\ conns'[c].st = s /\ conns'[c].owner = p /\ \A d \in Conns : d # c => conns'[d] = conns[d]
      /\ conns' \in [Conns -> [st : ConnState, owner : Owners]]
  BY <1>1, <1>2 DEF ConnState
<1>4. \A d \in Conns : conns[d].st \in Connected => conns'[d].st \in Connected /\ conns'[d].owner = conns[d].owner
  BY <1>2, <1>3 DEF Connected
<1>5. \A d \in Conns : DeadIn(conns, d) => DeadIn(conns', d)
  BY <1>2, <1>3 DEF DeadIn
<1>6. \A d \in Conns : conns'[d].st = "gone" => conns[d].st = "gone"
  BY <1>2, <1>3
<1>7. \A id \in DOMAIN plugins :
         /\ Alike(plugins[id], plugins[id]) /\ (plugins[id].online => plugins[id].online)
         /\ plugins[id].client \in Conns /\ plugins[id].online => conns'[plugins[id].client].st # "gone"
  BY <1>6, EntryOf DEF Alike, QueuesSound, Sound, ClientsTrue
<1>8. \A x \in Owners : Elements(pending[x]) \subseteq Elements(pending[x]) /\ Distinct(pending[x])
  BY DEF QueuesSound, Sound, Unclaimed
<1>9. Sound(plugins, awaiting, pending, conns')
  BY <1>1, <1>3, <1>4, <1>5, <1>7, <1>8, StreamsMove DEF QueuesSound
<1>10. QED
  BY <1>1, <1>9 DEF QueuesSound

\* The disconnect hook.
LEMMA DisconnectSound ==
    ASSUME QueuesSound, closed => DOMAIN plugins = {}, NEW c \in Conns, tunnelDisconnected(c)
    PROVE  QueuesSound'
<1>1. conns \in [Conns -> [st : ConnState, owner : Owners]] /\ pending \in [Owners -> Seq(Conns)]
  BY DEF QueuesSound, Sound, TablesTyped
<1>2. /\ conns[c].st = "closed" /\ conns' = [conns EXCEPT ![c].st = "gone"] /\ awaiting' = awaiting
  BY DEF tunnelDisconnected
<1>3. PICK o \in Owners : o = conns[c].owner
  BY <1>1
<1>4. /\ conns'[c].st = "gone" /\ conns'[c].owner = o /\ \A d \in Conns : d # c => conns'[d] = conns[d]
      /\ conns' \in [Conns -> [st : ConnState, owner : Owners]]
  BY <1>1, <1>2, <1>3 DEF ConnState
<1>5. \A d \in Conns : conns[d].st \in Connected => conns'[d].st \in Connected /\ conns'[d].owner = conns[d].owner
  BY <1>3, <1>4 DEF Connected
<1>6. \A d \in Conns : DeadIn(conns, d) => DeadIn(conns', d)
  BY <1>4 DEF DeadIn
<1>7. \A x \in Owners : Elements(pending[x]) \subseteq Elements(pending[x]) /\ Distinct(pending[x])
  BY DEF QueuesSound, Sound, Unclaimed
<1>8. CASE Ignores
  <2>1. plugins' = plugins /\ pending' = pending /\ DOMAIN plugins = {}
    BY <1>8 DEF Ignores, tunnelDisconnected
  <2>2. Sound(plugins, awaiting, pending, conns')
    BY <1>1, <1>4, <1>5, <1>6, <1>7, <2>1, StreamsMove DEF QueuesSound
  <2>3. QED
    BY <1>2, <2>1, <2>2 DEF QueuesSound
<1>9. CASE ~Ignores
  <2>1. PICK L : L = {id \in DOMAIN plugins : /\ plugins[id].tunnel /\ plugins[id].owner = o
                                              /\ Dead(plugins[id].client) /\ plugins[id].online}
    OBVIOUS
  <2>2. /\ plugins' = [id \in DOMAIN plugins |-> [plugins[id] EXCEPT !.online = (plugins[id].online /\ id \notin L)]]
        /\ pending' = [pending EXCEPT ![o] = Pruned(pending[o])]
    BY <1>3, <1>9, <2>1 DEF tunnelDisconnected
  <2>3. DOMAIN plugins' = DOMAIN plugins
    BY <2>2
  <2>4. ASSUME NEW x \in DOMAIN plugins'
        PROVE  /\ Alike(plugins[x], plugins'[x]) /\ (plugins'[x].online => plugins[x].online)
               /\ plugins'[x].client \in Conns /\ plugins'[x].online => conns'[plugins'[x].client].st # "gone"
    <3>1. x \in DOMAIN plugins /\ plugins[x] \in Plugin /\ x \notin Conns
      BY <2>3, <2>4, EntryOf
    <3>2. plugins'[x] = [plugins[x] EXCEPT !.online = (plugins[x].online /\ x \notin L)]
      BY <2>2, <2>4
    <3>3. Alike(plugins[x], plugins'[x]) /\ (plugins'[x].online <=> plugins[x].online /\ x \notin L)
      <4>1. PICK q, r : q = plugins'[x] /\ r = plugins[x]
        OBVIOUS
      <4>2. q = [r EXCEPT !.online = (r.online /\ x \notin L)] /\ r \in Plugin
        BY <3>1, <3>2, <4>1
      <4>3. Alike(r, q) /\ (q.online <=> r.online /\ x \notin L)
        BY <4>2, GoesOffline
      <4>4. QED
        BY <4>1, <4>3
    <3>4. ASSUME plugins[x].client \in Conns, plugins[x].online, x \notin L PROVE conns'[plugins[x].client].st # "gone"
      <4>1. plugins[x].tunnel /\ conns[plugins[x].client].owner = plugins[x].owner /\ conns[plugins[x].client].st # "gone"
        BY <3>1, <3>4 DEF QueuesSound, Sound, ClientsTrue
      <4>2. plugins[x].client # c
        BY <1>2, <1>3, <2>1, <3>1, <3>4, <4>1 DEF Dead
      <4>3. QED
        BY <1>4, <3>4, <4>1, <4>2
    <3>5. QED
      BY <3>3, <3>4 DEF Alike
  <2>5. \A x \in Owners : Pruned(pending[x]) \in Seq(Conns) /\ Distinct(Pruned(pending[x]))
                          /\ Elements(Pruned(pending[x])) = {d \in Elements(pending[x]) : ~DeadIn(conns, d)}
    BY Trimmed
  <2>6. pending' \in [Owners -> Seq(Conns)]
    BY <1>1, <2>2, <2>5
  <2>7. ASSUME NEW x \in Owners PROVE Elements(pending'[x]) \subseteq Elements(pending[x]) /\ Distinct(pending'[x])
    <3>1. pending'[x] = IF x = o THEN Pruned(pending[x]) ELSE pending[x]
      BY <1>1, <2>2
    <3>2. QED
      BY <1>7, <2>5, <3>1
  <2>8. Sound(plugins', awaiting, pending', conns')
    BY <1>4, <1>5, <1>6, <2>3, <2>4, <2>6, <2>7, StreamsMove DEF QueuesSound
  <2>9. QED
    BY <1>2, <2>8 DEF QueuesSound
<1>10. QED
  BY <1>8, <1>9

\* What the queue of an owner hands out.
LEMMA NextAwaiting ==
    ASSUME QueuesSound, NEW o \in Owners
    PROVE  IF awaiting[o] = <<>> THEN FirstAwaiting(plugins, awaiting[o]) = <<0, <<>>>> /\ Unbound(plugins, o) = {}
           ELSE /\ FirstAwaiting(plugins, awaiting[o]) = <<Head(awaiting[o]), Tail(awaiting[o])>>
                /\ Head(awaiting[o]) \in Unbound(plugins, o) /\ Tail(awaiting[o]) \in Seq(Ids)
                /\ Elements(Tail(awaiting[o])) = Unbound(plugins, o) \ {Head(awaiting[o])} /\ Distinct(Tail(awaiting[o]))
<1>1. awaiting[o] \in Seq(Ids) /\ Elements(awaiting[o]) = Unbound(plugins, o) /\ Distinct(awaiting[o])
  BY DEF QueuesSound, Sound, TablesTyped, Exact
<1>2. \A id \in Elements(awaiting[o]) : id \in DOMAIN plugins /\ plugins[id].client = NoClient
  BY <1>1 DEF Unbound
<1>3. CASE awaiting[o] = <<>>
  <2>1. Unbound(plugins, o) = {}
    BY <1>1, <1>3, NoElements
  <2>2. FirstAwaiting(plugins, awaiting[o]) = <<0, <<>>>>
    BY <1>1, <1>2, <1>3, FirstOfQueue
  <2>3. QED
    BY <1>3, <2>1, <2>2
<1>4. CASE awaiting[o] # <<>>
  <2>1. FirstAwaiting(plugins, awaiting[o]) = <<awaiting[o][1], Tail(awaiting[o])>>
    BY <1>1, <1>2, <1>4, FirstOfQueue
  <2>2. Head(awaiting[o]) = awaiting[o][1]
    BY <1>1, <1>4
  <2>3. /\ Head(awaiting[o]) \in Elements(awaiting[o]) /\ Tail(awaiting[o]) \in Seq(Ids)
        /\ Elements(Tail(awaiting[o])) = Elements(awaiting[o]) \ {Head(awaiting[o])} /\ Distinct(Tail(awaiting[o]))
    BY <1>1, <1>4, HeadAndTail
  <2>4. QED
    BY <1>1, <1>4, <2>1, <2>2, <2>3
<1>5. QED
  BY <1>3, <1>4

\* The connect hook: an open stream is nobody's and is in no queue.
LEMMA Opens ==
    ASSUME QueuesSound, NEW c \in Conns, bindTunnelClient(c), NEW o, o = conns[c].owner, closed => DOMAIN plugins = {}
    PROVE  /\ o \in Owners /\ Sound(plugins, awaiting, pending, conns')
           /\ conns'[c].st = "open" /\ conns'[c].owner = o
           /\ \A x \in DOMAIN plugins : plugins[x].client # c
           /\ \A x \in Owners : c \notin Elements(pending[x])
<1>1. conns \in [Conns -> [st : ConnState, owner : Owners]] /\ pending \in [Owners -> Seq(Conns)]
  BY DEF QueuesSound, Sound, TablesTyped
<1>2. conns[c].st = "checked" /\ conns' = [conns EXCEPT ![c].st = "open"]
  BY DEF bindTunnelClient
<1>3. /\ conns'[c].st = "open" /\ conns'[c].owner = o /\ \A d \in Conns : d # c => conns'[d] = conns[d]
      /\ conns' \in [Conns -> [st : ConnState, owner : Owners]]
  BY <1>1, <1>2 DEF ConnState
<1>4. \A d \in Conns : conns[d].st \in Connected => conns'[d].st \in Connected /\ conns'[d].owner = conns[d].owner
  BY <1>2, <1>3 DEF Connected
<1>5. \A d \in Conns : DeadIn(conns, d) => DeadIn(conns', d)
  BY <1>2, <1>3 DEF DeadIn
<1>6. \A d \in Conns : conns'[d].st = "gone" => conns[d].st = "gone"
  BY <1>3
<1>7. \A id \in DOMAIN plugins :
         /\ Alike(plugins[id], plugins[id]) /\ (plugins[id].online => plugins[id].online)
         /\ plugins[id].client \in Conns /\ plugins[id].online => conns'[plugins[id].client].st # "gone"
  BY <1>6, EntryOf DEF Alike, QueuesSound, Sound, ClientsTrue
<1>8. \A x \in Owners : Elements(pending[x]) \subseteq Elements(pending[x]) /\ Distinct(pending[x])
  BY DEF QueuesSound, Sound, Unclaimed
<1>9. Sound(plugins, awaiting, pending, conns')
  BY <1>1, <1>3, <1>4, <1>5, <1>7, <1>8, StreamsMove DEF QueuesSound
<1>10. \A x \in DOMAIN plugins : plugins[x].client # c
  BY <1>2 DEF QueuesSound, Sound, ClientsTrue, Connected
<1>11. \A x \in Owners : c \notin Elements(pending[x])
  BY <1>2 DEF QueuesSound, Sound, Unclaimed, Connected
<1>12. QED
  BY <1>1, <1>3, <1>9, <1>10, <1>11

\* The connect hook binds the stream to the owner's first registration, or queues it.
LEMMA BindSound ==
    ASSUME QueuesSound, closed => DOMAIN plugins = {}, NEW c \in Conns, bindTunnelClient(c)
    PROVE  QueuesSound'
<1>1. PICK o : o = conns[c].owner
  OBVIOUS
<1>2. /\ o \in Owners /\ Sound(plugins, awaiting, pending, conns')
      /\ conns'[c].st = "open" /\ conns'[c].owner = o
      /\ \A x \in DOMAIN plugins : plugins[x].client # c
      /\ \A x \in Owners : c \notin Elements(pending[x])
  BY <1>1, Opens
<1>3. awaiting \in [Owners -> Seq(Ids)] /\ pending \in [Owners -> Seq(Conns)]
  BY DEF QueuesSound, Sound, TablesTyped
<1>4. PICK first : first = FirstAwaiting(plugins, awaiting[o])
  OBVIOUS
<1>5. IF awaiting[o] = <<>> THEN first = <<0, <<>>>> /\ Unbound(plugins, o) = {}
      ELSE /\ first = <<Head(awaiting[o]), Tail(awaiting[o])>>
           /\ Head(awaiting[o]) \in Unbound(plugins, o) /\ Tail(awaiting[o]) \in Seq(Ids)
           /\ Elements(Tail(awaiting[o])) = Unbound(plugins, o) \ {Head(awaiting[o])} /\ Distinct(Tail(awaiting[o]))
  BY <1>2, <1>4, NextAwaiting
<1>6. 0 \notin Unbound(plugins, o)
  BY EntryOf DEF Unbound, Ids
<1>7. CASE Ignores
  BY <1>2, <1>7 DEF bindTunnelClient, QueuesSound
<1>8. CASE ~Ignores /\ first[1] # 0
  <2>1. /\ plugins' = Bound(plugins, first[1], c) /\ awaiting' = [awaiting EXCEPT ![o] = first[2]] /\ pending' = pending
    BY <1>1, <1>4, <1>8 DEF bindTunnelClient
  <2>2. awaiting[o] # <<>>
    BY <1>5, <1>8
  <2>3. PICK id : id = Head(awaiting[o])
    OBVIOUS
  <2>4. /\ first[1] = id /\ first[2] = Tail(awaiting[o]) /\ id \in Unbound(plugins, o)
        /\ Tail(awaiting[o]) \in Seq(Ids)
        /\ Elements(Tail(awaiting[o])) = Unbound(plugins, o) \ {id} /\ Distinct(Tail(awaiting[o]))
    BY <1>5, <2>2, <2>3
  <2>5. awaiting' \in [Owners -> Seq(Ids)] /\ awaiting'[o] = Tail(awaiting[o]) /\ \A x \in Owners : x # o => awaiting'[x] = awaiting[x]
    <3>1. PICK t : t = Tail(awaiting[o])
      OBVIOUS
    <3>2. awaiting' = [awaiting EXCEPT ![o] = t] /\ t \in Seq(Ids)
      BY <2>1, <2>4, <3>1
    <3>3. QED
      BY <1>2, <1>3, <3>1, <3>2
  <2>6. ASSUME NEW x \in Owners PROVE Elements(awaiting'[x]) = Unbound(plugins, x) \ {id} /\ Distinct(awaiting'[x])
    <3>1. CASE x = o
      BY <2>4, <2>5, <3>1
    <3>2. CASE x # o
      <4>1. id \notin Unbound(plugins, x)
        BY <2>4, <3>2 DEF Unbound
      <4>2. Elements(awaiting[x]) = Unbound(plugins, x) /\ Distinct(awaiting[x])
        BY DEF QueuesSound, Sound, Exact
      <4>3. QED
        BY <2>5, <3>2, <4>1, <4>2
    <3>3. QED
      BY <3>1, <3>2
  <2>7. Paired(awaiting', pending, conns')
    <3>1. ASSUME NEW x \in Owners PROVE Elements(awaiting'[x]) \subseteq Elements(awaiting[x])
      BY <2>6 DEF QueuesSound, Sound, Exact
    <3>2. QED
      BY <1>2, <3>1 DEF Sound, Paired
  <2>8. /\ TablesTyped(plugins, awaiting, pending, conns') /\ ClientsTrue(plugins, conns') /\ BoundOnce(plugins)
        /\ Unclaimed(plugins, pending, conns')
    BY <1>2 DEF Sound
  <2>9. conns'[c].st \in {"open", "closed"}
    BY <1>2
  <2>10. Sound(Bound(plugins, id, c), awaiting', pending, conns')
    BY <1>2, <2>4, <2>5, <2>6, <2>7, <2>8, <2>9, Binds
  <2>11. QED
    BY <2>1, <2>4, <2>10 DEF QueuesSound
<1>9. CASE ~Ignores /\ first[1] = 0
  <2>1. /\ awaiting' = [awaiting EXCEPT ![o] = first[2]] /\ plugins' = plugins
        /\ pending' = [pending EXCEPT ![o] = Append(Pruned(pending[o]), c)]
    BY <1>1, <1>4, <1>9 DEF bindTunnelClient
  <2>2. awaiting[o] = <<>> /\ first[2] = <<>>
    BY <1>5, <1>6, <1>9
  <2>3. awaiting' = awaiting
    BY <1>3, <2>1, <2>2
  <2>4. /\ Pruned(pending[o]) \in Seq(Conns) /\ Distinct(Pruned(pending[o]))
        /\ Elements(Pruned(pending[o])) \subseteq Elements(pending[o])
    BY <1>2, Trimmed
  <2>5. PICK pe : pe = [pending EXCEPT ![o] = Pruned(pending[o])]
    OBVIOUS
  <2>6. pe \in [Owners -> Seq(Conns)] /\ pe[o] = Pruned(pending[o]) /\ \A x \in Owners : x # o => pe[x] = pending[x]
    BY <1>2, <1>3, <2>4, <2>5
  <2>7. \A x \in Owners : Elements(pe[x]) \subseteq Elements(pending[x]) /\ Distinct(pe[x])
    BY <2>4, <2>6 DEF QueuesSound, Sound, Unclaimed
  <2>8. \A id \in DOMAIN plugins :
           /\ Alike(plugins[id], plugins[id]) /\ (plugins[id].online => plugins[id].online)
           /\ plugins[id].client \in Conns /\ plugins[id].online => conns'[plugins[id].client].st # "gone"
    BY <1>2, EntryOf DEF Alike, Sound, ClientsTrue
  <2>9. conns' \in [Conns -> [st : ConnState, owner : Owners]]
    BY <1>2 DEF Sound, TablesTyped
  <2>10. Sound(plugins, awaiting, pe, conns')
    BY <1>2, <2>6, <2>7, <2>8, <2>9, StreamsMove
  <2>11. Append(pe[o], c) \in Seq(Conns)
    BY <1>2, <2>6
  <2>12. pending' \in [Owners -> Seq(Conns)] /\ pending'[o] = Append(pe[o], c) /\ \A x \in Owners : x # o => pending'[x] = pe[x]
    BY <1>2, <1>3, <2>1, <2>6, <2>11
  <2>13. conns'[c].st \in Connected /\ c \notin Elements(pe[o])
    BY <1>2, <2>7 DEF Connected
  <2>14. Elements(awaiting[o]) = {}
    BY <1>2, <1>3, <2>2, NoElements
  <2>15. Sound(plugins, awaiting, pending', conns')
    BY <1>2, <2>10, <2>12, <2>13, <2>14, AddsPending
  <2>16. QED
    BY <2>1, <2>3, <2>15 DEF QueuesSound
<1>10. QED
  BY <1>7, <1>8, <1>9

\* The tables once Register has removed the instance it replaces.
LEMMA Replaces ==
    ASSUME QueuesSound, NamesAgree, NEW o \in Owners, NEW n \in Names, NEW old, old = Replaced(o, n),
           NEW ps, ps = Without(plugins, old),
           NEW aw, aw = [awaiting EXCEPT ![o] = Lacking(awaiting[o], old)],
           NEW pe \in [Owners -> Seq(Conns)], \A x \in Owners : Elements(pe[x]) \subseteq Elements(pending[x]) /\ Distinct(pe[x])
    PROVE  Sound(ps, aw, pe, conns)
<1>1. old \subseteq DOMAIN plugins /\ \A x \in old : plugins[x].owner = o
  BY DEF Replaced, NamesAgree
<1>2. DOMAIN ps = DOMAIN plugins \ old /\ \A x \in DOMAIN ps : ps[x] = plugins[x]
  BY DEF Without
<1>3. awaiting \in [Owners -> Seq(Ids)]
  BY DEF QueuesSound, Sound, TablesTyped
<1>4. /\ Lacking(awaiting[o], old) \in Seq(Ids) /\ Elements(Lacking(awaiting[o], old)) = Elements(awaiting[o]) \ old
      /\ Distinct(Lacking(awaiting[o], old))
  BY Trimmed
<1>5. aw \in [Owners -> Seq(Ids)] /\ aw[o] = Lacking(awaiting[o], old) /\ \A x \in Owners : x # o => aw[x] = awaiting[x]
  BY <1>3, <1>4
<1>6. ASSUME NEW x \in Owners PROVE Elements(aw[x]) = Elements(awaiting[x]) \cap DOMAIN ps /\ Distinct(aw[x])
  <2>1. Elements(awaiting[x]) = Unbound(plugins, x) /\ Distinct(awaiting[x])
    BY DEF QueuesSound, Sound, Exact
  <2>2. CASE x = o
    BY <1>2, <1>4, <1>5, <2>1, <2>2 DEF Unbound
  <2>3. CASE x # o
    BY <1>1, <1>2, <1>5, <2>1, <2>3 DEF Unbound
  <2>4. QED
    BY <2>2, <2>3
<1>7. TablesTyped(ps, aw, pe, conns)
  BY <1>2, <1>5 DEF QueuesSound, Sound, TablesTyped
<1>8. \A x \in DOMAIN ps :
         /\ ps[x].owner = plugins[x].owner /\ ps[x].tunnel = plugins[x].tunnel /\ ps[x].client = plugins[x].client
         /\ ps[x].tunnel /\ ps[x].online => plugins[x].online
         /\ ps[x].client \in Conns /\ ps[x].online => conns[ps[x].client].st # "gone"
  BY <1>2 DEF QueuesSound, Sound, ClientsTrue
<1>9. PICK ps1, aw1 : ps1 = ps /\ aw1 = aw
  OBVIOUS
<1>10. Sound(ps1, aw1, pe, conns)
  <2>1. DOMAIN ps1 \subseteq DOMAIN plugins /\ TablesTyped(ps1, aw1, pe, conns)
    BY <1>2, <1>7, <1>9
  <2>2. \A x \in DOMAIN ps1 :
           /\ ps1[x].owner = plugins[x].owner /\ ps1[x].tunnel = plugins[x].tunnel /\ ps1[x].client = plugins[x].client
           /\ ps1[x].tunnel /\ ps1[x].online => plugins[x].online
           /\ ps1[x].client \in Conns /\ ps1[x].online => conns[ps1[x].client].st # "gone"
    BY <1>8, <1>9
  <2>3. \A x \in Owners : Elements(aw1[x]) = Elements(awaiting[x]) \cap DOMAIN ps1 /\ Distinct(aw1[x])
    BY <1>6, <1>9
  <2>5. Sound(plugins, awaiting, pending, conns)
    BY DEF QueuesSound
  <2>6. /\ \A x \in Owners : Elements(pe[x]) \subseteq Elements(pending[x]) /\ Distinct(pe[x])
        /\ \A c \in Conns : conns[c].st \in Connected => conns[c].st \in Connected /\ conns[c].owner = conns[c].owner
        /\ \A c \in Conns : DeadIn(conns, c) => DeadIn(conns, c)
    OBVIOUS
  <2>4. QED
    BY ONLY <2>1, <2>2, <2>3, <2>5, <2>6, Shrinks, SMTT(30)
<1>11. QED
  BY <1>9, <1>10

\* Register puts an instance into the tables, and binds it if a stream of its owner is alive.
LEMMA RegisterSound ==
    ASSUME QueuesSound, NamesAgree, \A x \in DOMAIN plugins : x <= nextID, nextID \in Nat,
           NEW o \in Owners, NEW n \in Names, NEW tunnel \in BOOLEAN, Register(o, n, tunnel)
    PROVE  QueuesSound'
<1>1. PICK id : id = nextID + 1
  OBVIOUS
<1>2. PICK old : old = Replaced(o, n)
  OBVIOUS
<1>3. PICK e : e = Registration(o, n, tunnel, id)
  OBVIOUS
<1>4. PICK ps : ps = Without(plugins, old)
  OBVIOUS
<1>5. PICK kept : kept = Lacking(awaiting[o], old)
  OBVIOUS
<1>6. PICK live : live = Pruned(pending[o])
  OBVIOUS
<1>7. PICK aw : aw = [awaiting EXCEPT ![o] = kept]
  OBVIOUS
<1>8. id \in Ids /\ conns' = conns
  BY <1>1 DEF Register
<1>9. id \notin DOMAIN plugins /\ id \notin DOMAIN ps
  BY <1>1, <1>4 DEF Without
<1>10. /\ awaiting \in [Owners -> Seq(Ids)] /\ pending \in [Owners -> Seq(Conns)]
       /\ \A x \in Owners : Elements(pending[x]) \subseteq Elements(pending[x]) /\ Distinct(pending[x])
  BY DEF QueuesSound, Sound, TablesTyped, Unclaimed
<1>11. Sound(ps, aw, pending, conns)
  BY <1>2, <1>4, <1>5, <1>7, <1>10, Replaces
<1>12. /\ kept \in Seq(Ids) /\ Elements(kept) = Elements(awaiting[o]) \ old /\ Distinct(kept)
       /\ live \in Seq(Conns) /\ Distinct(live) /\ Elements(live) = {c \in Elements(pending[o]) : ~DeadIn(conns, c)}
  BY <1>5, <1>6, Trimmed
<1>13. aw \in [Owners -> Seq(Ids)] /\ aw[o] = kept /\ \A x \in Owners : x # o => aw[x] = awaiting[x]
  BY <1>7, <1>10, <1>12
<1>14. /\ e \in Plugin /\ e.owner = o /\ (e.tunnel <=> tunnel) /\ (e.online <=> ~tunnel)
       /\ tunnel => e.client = NoClient
       /\ ~tunnel => e.client = id
  BY <1>3, <1>8, Registers
<1>15. CASE ~tunnel
  <2>1. plugins' = With(ps, id, e) /\ awaiting' = aw /\ pending' = pending
    BY <1>1, <1>2, <1>3, <1>4, <1>5, <1>7, <1>15 DEF Register
  <2>2. e \in Plugin /\ ~e.tunnel /\ e.client = id
    BY <1>3, <1>8, <1>15, Registers
  <2>3. Sound(With(ps, id, e), aw, pending, conns)
    BY <1>8, <1>9, <1>11, <2>2, AddsDialled
  <2>4. QED
    BY <1>8, <2>1, <2>3 DEF QueuesSound
<1>16. ASSUME tunnel PROVE Waits(e, o)
  <2>1. e.tunnel
    BY <1>14, <1>16
  <2>2. ~e.online
    BY <1>14, <1>16
  <2>3. e.client = NoClient
    BY <1>14, <1>16
  <2>4. e \in Plugin /\ e.owner = o
    BY <1>14
  <2>5. QED
    BY <2>1, <2>2, <2>3, <2>4 DEF Waits
<1>17. CASE tunnel /\ live = <<>>
  <2>1. /\ plugins' = With(ps, id, e) /\ awaiting' = [awaiting EXCEPT ![o] = Append(kept, id)]
        /\ pending' = [pending EXCEPT ![o] = live]
    BY <1>1, <1>2, <1>3, <1>4, <1>5, <1>6, <1>17 DEF Register
  <2>2. Elements(live) = {}
    BY <1>12, <1>17, NoElements
  <2>3. pending' \in [Owners -> Seq(Conns)] /\ pending'[o] = live /\ \A x \in Owners : x # o => pending'[x] = pending[x]
    BY <1>10, <1>12, <2>1
  <2>4. \A x \in Owners : Elements(pending'[x]) \subseteq Elements(pending[x]) /\ Distinct(pending'[x])
    BY <1>10, <1>12, <2>3
  <2>5. Sound(ps, aw, pending', conns)
    BY <1>2, <1>4, <1>5, <1>7, <2>3, <2>4, Replaces
  <2>6. Append(kept, id) \in Seq(Ids)
    BY <1>8, <1>12
  <2>7. awaiting' \in [Owners -> Seq(Ids)] /\ awaiting'[o] = Append(aw[o], id) /\ \A x \in Owners : x # o => awaiting'[x] = aw[x]
    BY <1>10, <1>13, <2>1, <2>6
  <2>8. Elements(pending'[o]) = {} /\ Waits(e, o)
    BY <1>16, <1>17, <2>2, <2>3
  <2>9. Sound(With(ps, id, e), awaiting', pending', conns)
    BY <1>8, <1>9, <2>5, <2>7, <2>8, AddsWaiting
  <2>10. QED
    BY <1>8, <2>1, <2>9 DEF QueuesSound
<1>18. CASE tunnel /\ live # <<>>
  <2>1. PICK p2, first, c, pe :
           /\ p2 = With(ps, id, e) /\ first = FirstAwaiting(p2, Append(kept, id)) /\ c = Head(live)
           /\ pe = [pending EXCEPT ![o] = Tail(live)]
    OBVIOUS
  <2>2. /\ plugins' = Bound(p2, first[1], c) /\ awaiting' = [awaiting EXCEPT ![o] = first[2]] /\ pending' = pe
    BY <1>1, <1>2, <1>3, <1>4, <1>5, <1>6, <1>18, <2>1 DEF Register, Claimed
  <2>3. /\ c \in Elements(live) /\ Tail(live) \in Seq(Conns) /\ Elements(Tail(live)) = Elements(live) \ {c}
        /\ Distinct(Tail(live))
    BY <1>12, <1>18, <2>1, HeadAndTail
  <2>4. pe \in [Owners -> Seq(Conns)] /\ pe[o] = Tail(live) /\ \A x \in Owners : x # o => pe[x] = pending[x]
    BY <1>10, <2>1, <2>3
  <2>5. \A x \in Owners : Elements(pe[x]) \subseteq Elements(pending[x]) /\ Distinct(pe[x])
    BY <1>10, <1>12, <2>3, <2>4
  <2>6. Sound(ps, aw, pe, conns)
    BY <1>2, <1>4, <1>5, <1>7, <2>4, <2>5, Replaces
  <2>7. c \in Elements(pending[o]) /\ ~DeadIn(conns, c)
    BY <1>12, <2>3
  <2>8. /\ c \in Conns /\ conns[c].st \in Connected /\ conns[c].owner = o /\ \A x \in DOMAIN ps : ps[x].client # c
        /\ \A x \in Owners : x # o => c \notin Elements(pending[x])
    <3>1. c \in Conns
      BY <1>10, <2>7 DEF Elements
    <3>2. QED
      BY <1>11, <2>7, <3>1 DEF Sound, Unclaimed
  <2>9. conns[c].st \in {"open", "closed"}
    BY <2>7, <2>8 DEF Connected, DeadIn
  <2>10. \A x \in Owners : c \notin Elements(pe[x])
    BY <2>3, <2>4, <2>8
  <2>11. Elements(kept) = {} /\ kept = <<>>
    BY <1>11, <1>12, <1>13, <2>7, NoElements DEF Sound, Paired
  <2>12. Append(kept, id) \in Seq(Ids) /\ Elements(Append(kept, id)) = {id} /\ Append(kept, id) # <<>>
    <3>1. Append(kept, id) \in Seq(Ids) /\ Elements(Append(kept, id)) = {id}
      <4>1. PICK q : q = kept
        OBVIOUS
      <4>2. q \in Seq(Ids) /\ Elements(q) = {}
        BY <1>12, <2>11, <4>1
      <4>3. Append(q, id) \in Seq(Ids) /\ Elements(Append(q, id)) = Elements(q) \cup {id}
        BY <1>8, <4>2, OneMore
      <4>4. QED
        BY <4>1, <4>2, <4>3
    <3>2. QED
      BY <3>1, NoElements
  <2>13. OneMoreWaits(ps, aw, pe, conns, o, id, p2) /\ e.client = NoClient
    <3>1. Waits(e, o)
      BY <1>16, <1>18
    <3>2. OneMoreWaits(ps, aw, pe, conns, o, id, p2)
      BY <1>8, <1>9, <2>1, <2>6, <3>1, AddsUnbound
    <3>3. QED
      BY <3>1, <3>2 DEF Waits
  <2>14. /\ TablesTyped(p2, aw, pe, conns) /\ ClientsTrue(p2, conns) /\ BoundOnce(p2) /\ Unclaimed(p2, pe, conns)
         /\ Unbound(p2, o) = Unbound(ps, o) \cup {id}
         /\ \A x \in Owners : x # o => Unbound(p2, x) = Unbound(ps, x)
    BY <2>13 DEF OneMoreWaits
  <2>15. id \in Unbound(p2, o)
    BY <2>14
  <2>16. \A x \in {id} : x \in DOMAIN p2 /\ p2[x].client = NoClient
    BY <2>15 DEF Unbound
  <2>17. first[1] = id /\ first[2] = <<>>
    <3>1. PICK q : q = Append(kept, id)
      OBVIOUS
    <3>2. q \in Seq(Ids) /\ q # <<>> /\ \A x \in Elements(q) : x \in DOMAIN p2 /\ p2[x].client = NoClient
      BY <2>12, <2>16, <3>1
    <3>3. FirstAwaiting(p2, q) = <<q[1], Tail(q)>>
      BY <3>2, FirstOfQueue
    <3>4. q[1] = id /\ Tail(q) = <<>>
      BY <1>8, <2>11, <3>1
    <3>5. QED
      BY <2>1, <3>1, <3>3, <3>4
  <2>18. awaiting' \in [Owners -> Seq(Ids)] /\ awaiting'[o] = <<>> /\ \A x \in Owners : x # o => awaiting'[x] = awaiting[x]
    BY <1>10, <2>2, <2>17
  <2>19. ASSUME NEW x \in Owners PROVE Elements(awaiting'[x]) = Unbound(p2, x) \ {id} /\ Distinct(awaiting'[x])
    <3>1. Elements(aw[x]) = Unbound(ps, x) /\ Distinct(aw[x])
      BY <2>6 DEF Sound, Exact
    <3>2. CASE x = o
      <4>1. Unbound(ps, o) = {} /\ id \notin Unbound(ps, o)
        BY <1>13, <2>11, <3>1, <3>2
      <4>2. awaiting'[x] = kept
        BY <2>11, <2>18, <3>2
      <4>3. QED
        BY <1>12, <2>11, <2>14, <3>2, <4>1, <4>2
    <3>3. CASE x # o
      <4>1. id \notin Unbound(ps, x) /\ awaiting'[x] = aw[x] /\ Unbound(p2, x) = Unbound(ps, x)
        BY <1>9, <1>13, <2>14, <2>18, <3>3 DEF Unbound
      <4>2. QED
        BY <3>1, <4>1
    <3>4. QED
      BY <3>2, <3>3
  <2>20. Paired(awaiting', pe, conns)
    <3>1. ASSUME NEW x \in Owners PROVE Elements(awaiting'[x]) = {} \/ \A d \in Elements(pe[x]) : DeadIn(conns, d)
      <4>1. CASE x = o
        BY <2>11, <2>18, <4>1
      <4>2. CASE x # o
        BY <1>13, <2>6, <2>18, <4>2 DEF Sound, Paired
      <4>3. QED
        BY <4>1, <4>2
    <3>2. QED
      BY <3>1 DEF Paired
  <2>21. \A x \in DOMAIN p2 : p2[x].client # c
    <3>1. DOMAIN p2 = DOMAIN ps \cup {id} /\ \A x \in DOMAIN ps : p2[x] = ps[x]
      BY <2>13 DEF OneMoreWaits
    <3>2. p2[id].client = NoClient /\ c # NoClient
      BY <2>8, <2>16, RegistryAssumption
    <3>3. QED
      BY <2>8, <3>1, <3>2
  <2>22. Sound(Bound(p2, id, c), awaiting', pe, conns)
    BY <2>8, <2>9, <2>10, <2>14, <2>15, <2>18, <2>19, <2>20, <2>21, Binds
  <2>23. QED
    BY <1>8, <2>2, <2>17, <2>22 DEF QueuesSound
<1>19. QED
  BY <1>15, <1>17, <1>18

(***************************************************************************)
(* The tables and the queues together.                                     *)
(***************************************************************************)

ListenerTyped == inbox \in 0..Buffer /\ seen \subseteq Ids \X BOOLEAN /\ subscribes \in 0..MaxSubscribes

TabInv == RegInv /\ QueuesSound /\ ListenerTyped /\ ClosedIsEmpty

\* The invariant holds at first, ...
LEMMA TabInvInit == Init => TabInv
<1> SUFFICES ASSUME Init PROVE TabInv
  OBVIOUS
<1>1. RegInv
  BY RegInvInit
<1>2. ListenerTyped /\ ClosedIsEmpty
  BY RegistryAssumption DEF Init, ListenerTyped, ClosedIsEmpty
<1>3. /\ DOMAIN plugins = {} /\ \A o \in Owners : pending[o] = <<>> /\ awaiting[o] = <<>>
  BY DEF Init
<1>4. \A o \in Owners : /\ Elements(awaiting[o]) = {} /\ Elements(pending[o]) = {}
                        /\ Distinct(awaiting[o]) /\ Distinct(pending[o])
  <2>1. DOMAIN (<<>>) = {}
    OBVIOUS
  <2>2. QED
    BY <1>3, <2>1 DEF Elements, Distinct
<1>5. TablesTyped(plugins, awaiting, pending, conns)
  <2>1. awaiting \in [Owners -> Seq(Ids)] /\ pending \in [Owners -> Seq(Conns)]
    BY DEF Init
  <2>2. conns \in [Conns -> [st : ConnState, owner : Owners]]
    BY RegistryAssumption DEF Init, ConnState
  <2>3. QED
    BY <1>3, <2>1, <2>2 DEF TablesTyped
<1>6. ClientsTrue(plugins, conns) /\ BoundOnce(plugins) /\ Unclaimed(plugins, pending, conns)
  BY <1>3, <1>4 DEF ClientsTrue, BoundOnce, Unclaimed
<1>7. Exact(plugins, awaiting) /\ Paired(awaiting, pending, conns)
  BY <1>3, <1>4 DEF Exact, Paired, Unbound
<1>8. QED
  BY <1>1, <1>2, <1>5, <1>6, <1>7 DEF TabInv, QueuesSound, Sound

\* ... the queues stay sound, ...
LEMMA QueuesStep == ASSUME TabInv, [Next]_vars PROVE QueuesSound'
<1>1. /\ QueuesSound /\ NamesAgree /\ (closed => DOMAIN plugins = {})
      /\ nextID \in Nat /\ \A x \in DOMAIN plugins : x <= nextID
  BY DEF TabInv, RegInv, PluginsTyped, ClosedTables
<1>2. CASE \E o \in Owners, n \in Names, tunnel \in BOOLEAN : Register(o, n, tunnel)
  BY <1>1, <1>2, RegisterSound
<1>3. CASE \E id \in Ids : Heartbeat(id) \/ Deregister(id)
  BY <1>1, <1>3, HeartbeatSound, DeregisterSound
<1>4. CASE \E c \in Conns : \E o \in Owners : Connect(c, o)
  BY <1>1, <1>4, StreamSound
<1>5. CASE \E c \in Conns : bindTunnelClient(c) \/ tunnelDisconnected(c)
  BY <1>1, <1>5, BindSound, DisconnectSound
<1>6. CASE \E c \in Conns : SessionCloses(c)
  <2>1. PICK o \in Owners : TRUE
    BY RegistryAssumption
  <2>2. QED
    BY <1>1, <1>6, <2>1, StreamSound
<1>7. CASE CheckOffline \/ TimePasses
  BY <1>1, <1>7, CheckOfflineSound, TimeSound
<1>8. CASE Close
  <2>1. /\ plugins' = <<>> /\ conns' = conns
        /\ awaiting' = [o \in Owners |-> <<>>] /\ pending' = [o \in Owners |-> <<>>]
    BY <1>8 DEF Close
  <2>2. DOMAIN plugins' = {} /\ \A o \in Owners : pending'[o] = <<>> /\ awaiting'[o] = <<>>
    BY <2>1
  <2>3. \A o \in Owners : /\ Elements(awaiting'[o]) = {} /\ Elements(pending'[o]) = {}
                          /\ Distinct(awaiting'[o]) /\ Distinct(pending'[o])
    <3>1. DOMAIN (<<>>) = {}
      OBVIOUS
    <3>2. QED
      BY <2>2, <3>1 DEF Elements, Distinct
  <2>4. TablesTyped(plugins', awaiting', pending', conns')
    BY <1>1, <2>1, <2>2 DEF QueuesSound, Sound, TablesTyped
  <2>5. ClientsTrue(plugins', conns') /\ BoundOnce(plugins') /\ Unclaimed(plugins', pending', conns')
    BY <2>2, <2>3 DEF ClientsTrue, BoundOnce, Unclaimed
  <2>6. Exact(plugins', awaiting') /\ Paired(awaiting', pending', conns')
    BY <2>2, <2>3 DEF Exact, Paired, Unbound
  <2>7. QED
    BY <2>4, <2>5, <2>6 DEF QueuesSound, Sound
<1>9. CASE Emit \/ Subscribe \/ Unsubscribe \/ Listens \/ UNCHANGED vars
  <2>1. UNCHANGED <<plugins, awaiting, pending, conns>>
    BY <1>9 DEF Emit, Subscribe, Unsubscribe, Listens, vars, tables
  <2>2. QED
    BY <1>1, <2>1 DEF QueuesSound
<1>10. QED
  BY <1>2, <1>3, <1>4, <1>5, <1>6, <1>7, <1>8, <1>9 DEF Next

\* ... a closed registry stays empty, ...
LEMMA ClosedStep == ASSUME TabInv, [Next]_vars PROVE ClosedIsEmpty'
<1>1. ASSUME UNCHANGED <<plugins, byName, awaiting, pending, closed>> PROVE ClosedIsEmpty'
  BY <1>1 DEF TabInv, ClosedIsEmpty
<1>2. ASSUME closed
      PROVE  DOMAIN plugins = {} /\ DOMAIN byName = {} /\ \A o \in Owners : pending[o] = <<>> /\ awaiting[o] = <<>>
  BY <1>2 DEF TabInv, ClosedIsEmpty
<1>3. CASE \E o \in Owners, n \in Names, tunnel \in BOOLEAN : Register(o, n, tunnel)
  BY <1>3 DEF Register, ClosedIsEmpty
<1>4. CASE \E id \in Ids : Heartbeat(id) \/ Deregister(id)
  BY <1>2, <1>4 DEF Heartbeat, Deregister, ClosedIsEmpty
<1>5. CASE \E c \in Conns : (\E o \in Owners : Connect(c, o)) \/ SessionCloses(c)
  BY <1>1, <1>5 DEF Connect, SessionCloses, tables
<1>6. ASSUME NEW c \in Conns, bindTunnelClient(c) \/ tunnelDisconnected(c) PROVE ClosedIsEmpty'
  <2>1. CASE closed
    BY <1>1, <1>6, <2>1 DEF bindTunnelClient, tunnelDisconnected, Ignores
  <2>2. CASE ~closed
    BY <1>6, <2>2 DEF bindTunnelClient, tunnelDisconnected, ClosedIsEmpty
  <2>3. QED
    BY <2>1, <2>2
<1>7. CASE CheckOffline
  <2> SUFFICES ASSUME closed
               PROVE  plugins' = <<>> /\ byName' = <<>> /\ \A o \in Owners : pending'[o] = <<>> /\ awaiting'[o] = <<>>
    BY <1>7 DEF CheckOffline, ClosedIsEmpty
  <2>1. plugins' = [id \in DOMAIN plugins' |-> plugins'[id]] /\ DOMAIN plugins' \subseteq DOMAIN plugins
    BY <1>7 DEF CheckOffline
  <2>2. byName' = [k \in DOMAIN byName' |-> byName'[k]] /\ DOMAIN byName' \subseteq DOMAIN byName
    BY <1>7 DEF CheckOffline, Without
  <2>3. PICK S : awaiting' = [o \in Owners |-> Lacking(awaiting[o], S)]
    BY <1>7 DEF CheckOffline
  <2>4. ASSUME NEW o \in Owners PROVE awaiting'[o] = <<>>
    <3>1. awaiting[o] = <<>> /\ awaiting[o] \in Seq(Ids)
      BY <1>2 DEF TabInv, QueuesSound, Sound, TablesTyped
    <3>2. Elements(awaiting[o]) = {}
      BY <3>1, NoElements
    <3>3. Lacking(awaiting[o], S) \in Seq(Ids) /\ Elements(Lacking(awaiting[o], S)) = Elements(awaiting[o]) \ S
      BY <3>1, LackingProperties
    <3>4. QED
      BY <2>3, <3>2, <3>3, NoElements
  <2>5. plugins' = <<>>
    BY <1>2, <2>1, EmptyMap
  <2>6. byName' = <<>>
    BY <1>2, <2>2, EmptyMap
  <2>7. QED
    BY <1>2, <1>7, <2>4, <2>5, <2>6 DEF CheckOffline
<1>8. CASE TimePasses
  <2>1. plugins' = [id \in DOMAIN plugins' |-> plugins'[id]] /\ DOMAIN plugins' = DOMAIN plugins
    BY <1>8 DEF TimePasses
  <2>2. closed => plugins' = <<>>
    BY <1>2, <2>1, EmptyMap
  <2>3. QED
    BY <1>8, <2>2 DEF TimePasses, TabInv, ClosedIsEmpty
<1>9. CASE Close
  BY <1>9 DEF Close, ClosedIsEmpty
<1>10. CASE Emit \/ Subscribe \/ Unsubscribe \/ Listens \/ UNCHANGED vars
  BY <1>1, <1>10 DEF Emit, Subscribe, Unsubscribe, Listens, vars, tables
<1>11. QED
  BY <1>3, <1>4, <1>5, <1>6, <1>7, <1>8, <1>9, <1>10 DEF Next

\* ... a channel never holds more than it can, and every step keeps the invariant.
LEMMA TabInvStep == TabInv /\ [Next]_vars => TabInv'
<1> SUFFICES ASSUME TabInv, [Next]_vars PROVE TabInv'
  OBVIOUS
<1>1. RegInv'
  BY RegInvStep DEF TabInv
<1>2. Summaries \subseteq Ids \X BOOLEAN /\ Buffer \in Nat /\ MaxSubscribes \in Nat
  BY RegistryAssumption DEF TabInv, RegInv, PluginsTyped, Entry, Summaries
<1>3. UNCHANGED listener \/ Emit \/ Subscribe \/ Unsubscribe \/ Listens
  <2>1. ASSUME NEW o \in Owners, NEW n \in Names, NEW tunnel \in BOOLEAN, Register(o, n, tunnel) PROVE UNCHANGED listener
    BY <2>1 DEF Register
  <2>2. ASSUME NEW id \in Ids, Heartbeat(id) \/ Deregister(id) PROVE UNCHANGED listener
    BY <2>2 DEF Heartbeat, Deregister
  <2>3. ASSUME NEW c \in Conns, NEW o \in Owners, Connect(c, o) PROVE UNCHANGED listener
    BY <2>3 DEF Connect
  <2>4. ASSUME NEW c \in Conns, bindTunnelClient(c) \/ SessionCloses(c) \/ tunnelDisconnected(c) PROVE UNCHANGED listener
    BY <2>4 DEF bindTunnelClient, SessionCloses, tunnelDisconnected
  <2>5. CASE CheckOffline \/ TimePasses \/ Close \/ UNCHANGED vars
    BY <2>5 DEF CheckOffline, TimePasses, Close, vars
  <2>6. QED
    BY <2>1, <2>2, <2>3, <2>4, <2>5, Zenon DEF Next
<1>4. ListenerTyped'
  <2>1. CASE UNCHANGED listener
    BY <2>1 DEF listener, TabInv, ListenerTyped
  <2>2. CASE Emit
    BY <1>2, <2>2 DEF Emit, TabInv, ListenerTyped
  <2>3. CASE Subscribe
    BY <1>2, <2>3 DEF Subscribe, TabInv, ListenerTyped
  <2>4. CASE Unsubscribe
    BY <1>2, <2>4 DEF Unsubscribe, TabInv, ListenerTyped
  <2>5. CASE Listens
    BY <1>2, <2>5 DEF Listens, TabInv, ListenerTyped
  <2>6. QED
    BY <1>3, <2>1, <2>2, <2>3, <2>4, <2>5
<1>5. QED
  BY <1>1, <1>4, QueuesStep, ClosedStep DEF TabInv

\* The tables, the queues and the streams agree in every state.
THEOREM TabInvariant == Spec => []TabInv
<1>1. QED
  BY TabInvInit, TabInvStep, PTL DEF Spec

\* A live stream and a registration of one owner never wait for each other, whichever of
\* Register and Connect comes second.
THEOREM NobodyWaitsSafe == Spec => []NobodyWaits
<1>1. ASSUME TabInv PROVE NobodyWaits
  <2>1. ASSUME NEW o \in Owners PROVE awaiting[o] = <<>> \/ \A i \in DOMAIN pending[o] : Dead(pending[o][i])
    <3>1. Elements(awaiting[o]) = {} \/ \A c \in Elements(pending[o]) : DeadIn(conns, c)
      BY <1>1 DEF TabInv, QueuesSound, Sound, Paired
    <3>2. awaiting[o] = <<>> <=> Elements(awaiting[o]) = {}
      BY <1>1, NoElements DEF TabInv, QueuesSound, Sound, TablesTyped
    <3>3. QED
      BY <3>1, <3>2 DEF Elements, DeadIn, Dead
  <2>2. QED
    BY <2>1 DEF NobodyWaits
<1>2. QED
  BY <1>1, TabInvariant, PTL

\* A set without two different elements.
LEMMA AtMostOne == ASSUME NEW S, \A a, b \in S : a = b PROVE Cardinality(S) = IF S = {} THEN 0 ELSE 1
<1>1. CASE S = {}
  BY <1>1, FS_EmptySet
<1>2. CASE S # {}
  <2>1. PICK a : S = {a}
    BY <1>2
  <2>2. QED
    BY <1>2, <2>1, FS_Singleton
<1>3. QED
  BY <1>1, <1>2

\* The tables agree with each other, a stream serves at most one instance and none while
\* it is queued, and nothing comes back into a closed registry.
THEOREM TablesSoundSafe == Spec => []TablesSound
<1>1. ASSUME TabInv PROVE TypeOK
  <2>1. DOMAIN plugins \subseteq Ids /\ \A id \in DOMAIN plugins : plugins[id] \in Plugin
    BY <1>1 DEF TabInv, QueuesSound, Sound, TablesTyped
  <2>2. ASSUME NEW k \in DOMAIN byName PROVE k \in Keys /\ byName[k] \in Ids
    <3>1. byName[k] \in DOMAIN plugins /\ k = <<plugins[byName[k]].owner, plugins[byName[k]].name>>
      BY <1>1, <2>2 DEF TabInv, RegInv, NamesAgree
    <3>2. QED
      BY <2>1, <3>1 DEF Keys, Plugin
  <2>3. QED
    BY <1>1, <2>1, <2>2 DEF TabInv, QueuesSound, Sound, TablesTyped, RegInv, PluginsTyped, ListenerTyped, TypeOK
<1>2. ASSUME TabInv PROVE TablesAgree
  BY <1>2 DEF TabInv, RegInv, QueuesSound, Sound, Exact, Elements, Distinct, Unbound, TablesAgree, AwaitingExact
<1>3. ASSUME TabInv PROVE OneInstancePerStream
  <2>1. SUFFICES ASSUME NEW c \in Conns
                 PROVE  Cardinality({id \in DOMAIN plugins : plugins[id].client = c})
                        + Cardinality({p \in Owners \X (1..Cardinality(Conns)) :
                                          p[2] \in DOMAIN pending[p[1]] /\ pending[p[1]][p[2]] = c}) <= 1
    BY DEF OneInstancePerStream
  <2> DEFINE bound == {id \in DOMAIN plugins : plugins[id].client = c}
             places == {p \in Owners \X (1..Cardinality(Conns)) :
                           p[2] \in DOMAIN pending[p[1]] /\ pending[p[1]][p[2]] = c}
  <2>2. \A a, b \in bound : a = b
    BY <1>3 DEF TabInv, QueuesSound, Sound, BoundOnce
  <2>3. ASSUME NEW p \in places
        PROVE  /\ p[1] \in Owners /\ p = <<p[1], p[2]>> /\ c \in Elements(pending[p[1]])
               /\ p[2] \in DOMAIN pending[p[1]] /\ pending[p[1]][p[2]] = c
    BY <2>3 DEF Elements
  <2>4. \A p \in places : bound = {} /\ conns[c].owner = p[1]
    BY <1>3, <2>3 DEF TabInv, QueuesSound, Sound, Unclaimed
  <2>5. ASSUME NEW p \in places, NEW q \in places PROVE p = q
    <3>1. p[1] = q[1] /\ Distinct(pending[p[1]])
      BY <1>3, <2>3, <2>4 DEF TabInv, QueuesSound, Sound, Unclaimed
    <3>2. p[2] = q[2]
      BY <2>3, <3>1 DEF Distinct
    <3>3. QED
      BY <2>3, <3>1, <3>2
  <2> HIDE DEF bound, places
  <2>6. Cardinality(bound) = (IF bound = {} THEN 0 ELSE 1)
    BY <2>2, AtMostOne
  <2>7. Cardinality(places) = (IF places = {} THEN 0 ELSE 1)
    BY <2>5, AtMostOne
  <2>8. Cardinality(bound) + Cardinality(places) <= 1
    BY <2>4, <2>6, <2>7
  <2>9. QED
    BY <2>8 DEF bound, places
<1>4. TabInv => TablesSound
  BY <1>1, <1>2, <1>3 DEF TablesSound, TabInv
<1>5. QED
  BY <1>4, TabInvariant, PTL

\* An instance that a lookup may return has a client that serves its owner.
LEMMA Serves ==
    ASSUME TabInv, NEW id, Usable(id), NEW owners, plugins[id].owner \in {Anonymous} \cup owners
    PROVE  MayServe(plugins[id].client, owners)
<1>1. id \in DOMAIN plugins /\ plugins[id].online /\ plugins[id].client # NoClient
  BY DEF Usable
<1>2. /\ ~plugins[id].tunnel => plugins[id].client = id
      /\ plugins[id].tunnel => plugins[id].client \in Conns \cup {NoClient}
      /\ plugins[id].client \in Conns =>
            /\ conns[plugins[id].client].st \in Connected /\ conns[plugins[id].client].owner = plugins[id].owner
            /\ plugins[id].online => conns[plugins[id].client].st # "gone"
  BY <1>1 DEF TabInv, QueuesSound, Sound, ClientsTrue
<1>3. CASE plugins[id].client \in Conns
  BY <1>1, <1>2, <1>3 DEF MayServe, Connected
<1>4. CASE plugins[id].client \notin Conns
  BY <1>1, <1>2, <1>4 DEF MayServe
<1>5. QED
  BY <1>3, <1>4

\* Every lookup returns clients that may serve the caller: no stream that is gone, and
\* none of another owner.
THEOREM LookupsServeSafe == Spec => []LookupsServe
<1>1. ASSUME TabInv, NEW o \in Owners, NEW c \in FindFor(o) PROVE MayServe(c, {o})
  <2>1. PICK id : Usable(id) /\ plugins[id].owner \in {Anonymous, o} /\ c = plugins[id].client
    BY <1>1 DEF FindFor
  <2>2. QED
    BY <1>1, <2>1, Serves
<1>2. ASSUME TabInv, NEW callers, NEW key, NEW c \in FindByKey(callers, key) PROVE MayServe(c, callers)
  <2>1. /\ Usable(byName[key]) /\ plugins[byName[key]].owner \in {Anonymous} \cup callers
        /\ c = plugins[byName[key]].client
    BY <1>2 DEF FindByKey
  <2>2. QED
    BY <1>2, <2>1, Serves
<1>3. ASSUME TabInv, NEW o \in Owners, NEW n \in Names, NEW c \in FindByNameFor(o, n) PROVE MayServe(c, {o})
  <2>1. PICK key : c \in FindByKey({o}, key)
    BY <1>3 DEF FindByNameFor
  <2>2. QED
    BY <1>2, <1>3, <2>1
<1>4. ASSUME TabInv, NEW o \in Owners, NEW p \in Owners, NEW n \in Names, NEW c \in FindByNameAmong(<<o, p>>, n)
      PROVE  MayServe(c, {o, p})
  <2> DEFINE key(i) == <<IF i % 2 = 1 THEN (<<o, p>>)[(i + 1) \div 2] ELSE Anonymous, n>>
             hits == {i \in 1..(2 * Len(<<o, p>>)) : key(i) \in DOMAIN byName /\ Usable(byName[key(i)])}
             first == CHOOSE i \in hits : \A j \in hits : i <= j
  <2>1. hits # {} /\ c = plugins[byName[key(first)]].client
    BY <1>4 DEF FindByNameAmong
  <2>2. Len(<<o, p>>) = 2 /\ hits \in SUBSET Nat
    OBVIOUS
  <2>3. first \in hits
    <3> HIDE DEF hits
    <3>1. PICK k : k \in hits
      BY <2>1
    <3>2. PICK m \in hits : \A j \in hits : m <= j
      BY <2>2, <3>1, Least
    <3>3. QED
      BY <3>2
  <2> HIDE DEF first
  <2>4. first \in 1..4 /\ key(first) \in DOMAIN byName /\ Usable(byName[key(first)])
    BY <2>2, <2>3
  <2>5. key(first)[1] \in {Anonymous} \cup {o, p}
    <3>1. PICK i \in 1..4 : i = first
      BY <2>4
    <3>2. key(i)[1] = IF i % 2 = 1 THEN (<<o, p>>)[(i + 1) \div 2] ELSE Anonymous
      OBVIOUS
    <3>3. i = 1 \/ i = 3 \/ i % 2 # 1
      OBVIOUS
    <3>4. CASE i = 1
      <4>1. (i + 1) \div 2 = 1 /\ i % 2 = 1
        BY <3>4
      <4>2. QED
        BY <3>1, <3>2, <4>1
    <3>5. CASE i = 3
      <4>1. (i + 1) \div 2 = 2 /\ i % 2 = 1
        BY <3>5
      <4>2. QED
        BY <3>1, <3>2, <4>1
    <3>6. CASE i % 2 # 1
      BY <3>1, <3>2, <3>6
    <3>7. QED
      BY <3>3, <3>4, <3>5, <3>6
  <2> HIDE DEF key, hits
  <2>6. plugins[byName[key(first)]].owner = key(first)[1]
    BY <1>4, <2>4 DEF TabInv, RegInv, NamesAgree
  <2>7. QED
    BY <1>4, <2>1, <2>4, <2>5, <2>6, Serves
<1>5. TabInv => LookupsServe
  BY <1>1, <1>2, <1>3, <1>4 DEF LookupsServe
<1>6. QED
  BY <1>5, TabInvariant, PTL
=============================================================================
