----------------------------- MODULE RelayProofs ----------------------------
(***************************************************************************)
(* Theorems about the relay agent and the source it reports to, for any    *)
(* numbers of connections, sessions, captures, streams, chunks and breaks. *)
(***************************************************************************)
EXTENDS RelayAgent, TLAPS, FiniteSetTheorems

Epochs == Nat \ {0}
Ids == Phones \X Epochs
Messages ==
    [ev : {"open", "close"}, id : Ids, dir : {""}, n : {0}] \cup [ev : {"data"}, id : Ids, dir : Directions, n : Nat]
        \cup {[ev |-> "eof"]}
Streams == [epoch : Epochs, q : Seq(Messages), alive : BOOLEAN, ids : SUBSET Ids]
Captures == [session : Sources, filter : {Filtered, Phones}]
Sinks == [stream : Nat, open : BOOLEAN]
ConnRecs == [at : {"new", "announce", "relay", "end", "done"}, st : Nat, epoch : Nat, opened : BOOLEAN]
FwdRecs == [at : {"read", "begin", "send", "stopped"}, st : Nat, n : Nat]
Packets == [id : Ids, dir : Directions, n : Nat]
SourceRecs == [up : BOOLEAN, table : SUBSET (Nat \X Ids), active : Int, got : SUBSET Packets, late : SUBSET Ids]

RelTyped ==
    /\ captures \in Seq(Captures) /\ gate \in 0..Len(captures)
    /\ sink \in Seq(Sinks) /\ Len(sink) = Len(captures)
    /\ pushes \in Seq(Streams)
    /\ conn \in [Phones -> ConnRecs]
    /\ fwd \in [Phones \X Directions -> FwdRecs]
    /\ sources \in [Sources -> SourceRecs]
    /\ lost \subseteq Ids

\* Nobody has seen an epoch that has not begun.
Known ==
    /\ \A k \in Phones : conn[k].st <= Len(captures) /\ conn[k].epoch <= Len(captures)
    /\ \A f \in Phones \X Directions : fwd[f].st <= Len(captures)
    /\ \A id \in lost : id[2] <= Len(captures)
    /\ \A s \in Sources : /\ \A p \in sources[s].got : p.id[2] <= Len(captures)
                          /\ \A id \in sources[s].late : id[2] <= Len(captures)

\* The current capture's client is the only one that is not closed, and a client
\* writes to a stream of its own.
Clients ==
    \A e \in DOMAIN sink :
        /\ sink[e].open => e = gate
        /\ sink[e].stream # 0 => sink[e].stream \in DOMAIN pushes /\ pushes[sink[e].stream].epoch = e

\* While a capture goes on, the stream of its client is its only live one, and it
\* has lost one only by a break.
StreamWired(i) ==
    LET p == pushes[i] IN
    /\ p.epoch \in DOMAIN captures
    /\ p.alive => sources[Session(p.epoch)].up
    /\ p.alive /\ sink[p.epoch].open => sink[p.epoch].stream = i
    /\ ~p.alive => p.ids = {}
    /\ ~p.alive /\ sink[p.epoch].open => p.q = <<>> /\ p.epoch \in cut
    /\ \A j \in DOMAIN p.q : IF p.q[j].ev = "eof" THEN ~sink[p.epoch].open ELSE p.q[j].id[2] = p.epoch
Wired == \A i \in DOMAIN pushes : StreamWired(i)

\* The tables hold what is open on live streams, and it is counted.
Counted ==
    /\ \A i \in DOMAIN pushes : IsFiniteSet(pushes[i].ids)
    /\ \A s \in Sources :
        /\ IsFiniteSet(sources[s].table) /\ sources[s].active = Cardinality(sources[s].table)
        /\ \A key \in sources[s].table :
              /\ key[1] \in DOMAIN pushes /\ pushes[key[1]].alive
              /\ Session(pushes[key[1]].epoch) = s /\ key[2] \in pushes[key[1]].ids

\* A chunk on the way or received was read before, and by now it is not the one that
\* is yet to be reported.
Numbered(F, m) ==
    LET f == F[<<m.id[1], m.dir>>] IN
    m.n <= f.n /\ (f.at \in {"begin", "send"} => m.n < f.n)
Read ==
    /\ \A i \in DOMAIN pushes : \A j \in DOMAIN pushes[i].q : pushes[i].q[j].ev = "data" => Numbered(fwd, pushes[i].q[j])
    /\ \A s \in Sources : \A p \in sources[s].got : Numbered(fwd, p)

SameWay(a, b) == a.id = b.id /\ a.dir = b.dir
InOrder(q) == \A j, l \in DOMAIN q : j < l /\ q[j].ev = "data" /\ q[l].ev = "data" /\ SameWay(q[j], q[l]) => q[j].n < q[l].n
AfterGot(q, got) == \A j \in DOMAIN q : \A o \in got : q[j].ev = "data" /\ SameWay(q[j], o) => o.n < q[j].n
Ordered ==
    \A i \in DOMAIN pushes :
        sink[pushes[i].epoch].open => InOrder(pushes[i].q) /\ AfterGot(pushes[i].q, sources[Session(pushes[i].epoch)].got)

GotOwn == \A s \in Sources : \A p \in sources[s].got : Session(p.id[2]) = s
LateClosed == \A s \in Sources : \A id \in sources[s].late : ~sink[id[2]].open

\* A capture that goes on, whose source is up and whose stream has not broken.
Holding(e) == e \in DOMAIN sink /\ sink[e].open /\ e \notin cut /\ sources[Session(e)].up
Opens(q, id) == \E j \in DOMAIN q : q[j].ev = "open" /\ q[j].id = id
Announced(k, e) ==
    LET i == sink[e].stream IN
    i # 0 /\ (<<i, <<k, e>>>> \in sources[Session(e)].table \/ Opens(pushes[i].q, <<k, e>>))
Preceded(i, q, table) ==
    \A j \in DOMAIN q : q[j].ev = "data" =>
        <<i, q[j].id>> \in table \/ \E l \in DOMAIN q : l < j /\ q[l].ev = "open" /\ q[l].id = q[j].id
ClosedLast(q) == \A j, l \in DOMAIN q : j < l /\ q[j].ev = "close" /\ q[l].ev = "data" => q[j].id # q[l].id

ConnsAnnounced ==
    \A k \in Phones : conn[k].opened /\ conn[k].at # "done" /\ Holding(conn[k].epoch) => Announced(k, conn[k].epoch)
ChunksAnnounced ==
    \A f \in Phones \X Directions : fwd[f].at = "send" /\ Holding(fwd[f].st) => Announced(f[1], fwd[f].st)
QueuesAnnounced ==
    \A i \in DOMAIN pushes : Holding(pushes[i].epoch) =>
        Preceded(i, pushes[i].q, sources[Session(pushes[i].epoch)].table)
Relaying ==
    \A f \in Phones \X Directions :
        /\ fwd[f].at \in {"begin", "send"} => conn[f[1]].at = "relay"
        /\ fwd[f].at = "send" => fwd[f].st # 0
ClosedDone ==
    \A i \in DOMAIN pushes :
        /\ ClosedLast(pushes[i].q)
        /\ \A j \in DOMAIN pushes[i].q : pushes[i].q[j].ev = "close" => conn[pushes[i].q[j].id[1]].at = "done"

RelInv ==
    /\ RelTyped /\ Known /\ Clients /\ Wired /\ Counted
    /\ Read /\ Ordered /\ GotOwn /\ LateClosed
    /\ Relaying /\ ClosedDone
    /\ ConnsAnnounced /\ ChunksAnnounced /\ QueuesAnnounced /\ NothingUnannounced

-----------------------------------------------------------------------------
(***************************************************************************)
(* Messages and queues.                                                    *)
(***************************************************************************)

\* What the state is made of.
LEMMA StreamTyped ==
    ASSUME RelTyped, NEW i \in DOMAIN pushes
    PROVE  /\ pushes[i] \in Streams /\ pushes[i].epoch \in Epochs /\ pushes[i].ids \subseteq Ids
           /\ pushes[i].q \in Seq(Messages) /\ \A j \in DOMAIN pushes[i].q : pushes[i].q[j] \in Messages
<1>1. pushes \in Seq(Streams)
  BY DEF RelTyped
<1>2. pushes[i] \in Streams
  BY <1>1
<1>3. pushes[i].q \in Seq(Messages) /\ pushes[i].epoch \in Epochs /\ pushes[i].ids \subseteq Ids
  BY <1>2 DEF Streams
<1> QED BY <1>2, <1>3

\* ... a source, ...
LEMMA SourceTyped ==
    ASSUME RelTyped, NEW s \in Sources
    PROVE  /\ sources[s] \in SourceRecs /\ sources[s].table \subseteq Nat \X Ids /\ sources[s].late \subseteq Ids
           /\ \A p \in sources[s].got : p \in Packets /\ p.id \in Ids /\ p.dir \in Directions /\ p.n \in Nat
<1>1. sources[s] \in SourceRecs
  BY DEF RelTyped
<1>2. sources[s].table \subseteq Nat \X Ids /\ sources[s].late \subseteq Ids /\ sources[s].got \subseteq Packets
  BY <1>1 DEF SourceRecs
<1> QED BY <1>1, <1>2 DEF Packets

\* ... a forwarding goroutine, ...
LEMMA FwdTyped ==
    ASSUME RelTyped, NEW f \in Phones \X Directions
    PROVE  /\ fwd[f] \in FwdRecs /\ fwd[f].n \in Nat /\ fwd[f].st \in Nat
           /\ fwd[f].at \in {"read", "begin", "send", "stopped"}
<1>1. fwd[f] \in FwdRecs
  BY DEF RelTyped
<1> QED BY <1>1 DEF FwdRecs

\* ... and a connection.
LEMMA ConnTyped ==
    ASSUME RelTyped, NEW k \in Phones
    PROVE  /\ conn[k] \in ConnRecs /\ conn[k].epoch \in Nat /\ conn[k].st \in Nat /\ conn[k].opened \in BOOLEAN
           /\ conn[k].at \in {"new", "announce", "relay", "end", "done"}
<1>1. conn[k] \in ConnRecs
  BY DEF RelTyped
<1> QED BY <1>1 DEF ConnRecs

\* What a message carries.
LEMMA MessageParts ==
    ASSUME NEW m \in Messages
    PROVE  /\ m.ev \in {"open", "close", "data", "eof"}
           /\ m.ev # "eof" => m.id \in Ids
           /\ m.ev = "data" => m.dir \in Directions /\ m.n \in Nat
<1>1. CASE m \in [ev : {"open", "close"}, id : Ids, dir : {""}, n : {0}]
  BY <1>1
<1>2. CASE m \in [ev : {"data"}, id : Ids, dir : Directions, n : Nat]
  BY <1>2
<1>3. CASE m = [ev |-> "eof"]
  BY <1>3
<1> QED BY <1>1, <1>2, <1>3 DEF Messages

\* What the agent builds are messages.
LEMMA MadeMessages ==
    ASSUME NEW k \in Phones, NEW e \in Epochs
    PROVE  /\ \A ev \in {"open", "close"} : Event(ev, k, e, "", 0) \in Messages
           /\ \A d \in Directions, n \in Nat : Event("data", k, e, d, n) \in Messages
           /\ [ev |-> "eof"] \in Messages
<1>1. <<k, e>> \in Ids
  BY DEF Ids
<1>2. \A ev \in {"open", "close"} : Event(ev, k, e, "", 0) \in Messages
  BY <1>1 DEF Messages, Event, ConnId
<1>3. \A d \in Directions, n \in Nat : Event("data", k, e, d, n) \in Messages
  BY <1>1 DEF Messages, Event, ConnId
<1>4. [ev |-> "eof"] \in Messages
  BY DEF Messages
<1> QED BY <1>2, <1>3, <1>4

\* The fields of a message.
LEMMA EventParts ==
    ASSUME NEW ev, NEW k, NEW e, NEW d, NEW n
    PROVE  LET m == Event(ev, k, e, d, n) IN m.ev = ev /\ m.id = <<k, e>> /\ m.dir = d /\ m.n = n
  BY DEF Event, ConnId

\* The parts of a conn_id.
LEMMA IdParts ==
    ASSUME NEW id \in Ids
    PROVE  id[1] \in Phones /\ id[2] \in Epochs /\ id = <<id[1], id[2]>>
  BY DEF Ids

\* Append and Tail, by position.
LEMMA Appended ==
    ASSUME NEW S, NEW q \in Seq(S), NEW x \in S, NEW p, p = Append(q, x)
    PROVE  /\ p \in Seq(S) /\ Len(p) = Len(q) + 1 /\ Len(q) \in Nat
           /\ p[Len(q) + 1] = x /\ Len(q) + 1 \in DOMAIN p
           /\ \A i \in DOMAIN q : i \in DOMAIN p /\ p[i] = q[i] /\ i < Len(q) + 1 /\ i \in Nat
           /\ \A i \in DOMAIN p : i \in DOMAIN q \/ i = Len(q) + 1
  OBVIOUS

\* A queue without its head.
LEMMA Tailed ==
    ASSUME NEW S, NEW q \in Seq(S), q # <<>>, NEW p, p = Tail(q)
    PROVE  /\ p \in Seq(S) /\ Head(q) = q[1] /\ q[1] \in S /\ 1 \in DOMAIN q
           /\ \A i \in DOMAIN p : i + 1 \in DOMAIN q /\ p[i] = q[i + 1] /\ i \in Nat /\ i > 0
           /\ \A i \in DOMAIN q : i # 1 => i - 1 \in DOMAIN p /\ p[i - 1] = q[i] /\ i \in Nat /\ i > 1
  OBVIOUS

\* A chunk comes after all the ones of its direction.
LEMMA OrderAppend ==
    ASSUME NEW q \in Seq(Messages), NEW m \in Messages, InOrder(q),
           m.ev = "data" => \A j \in DOMAIN q : q[j].ev = "data" /\ SameWay(q[j], m) => q[j].n < m.n
    PROVE  InOrder(Append(q, m))
<1> DEFINE p == Append(q, m)
<1>1. /\ p[Len(q) + 1] = m /\ Len(q) \in Nat
      /\ \A i \in DOMAIN q : i \in DOMAIN p /\ p[i] = q[i] /\ i < Len(q) + 1 /\ i \in Nat
      /\ \A i \in DOMAIN p : i \in DOMAIN q \/ i = Len(q) + 1
  BY Appended
<1> HIDE DEF p
<1>2. InOrder(p)
  BY <1>1 DEF InOrder
<1> QED BY <1>2 DEF p

\* The rest of an ordered queue is ordered.
LEMMA OrderTail ==
    ASSUME NEW q \in Seq(Messages), q # <<>>, InOrder(q)
    PROVE  InOrder(Tail(q))
<1> DEFINE p == Tail(q)
<1>1. \A i \in DOMAIN p : i + 1 \in DOMAIN q /\ p[i] = q[i + 1] /\ i \in Nat
  BY Tailed
<1> HIDE DEF p
<1>2. InOrder(p)
  BY <1>1 DEF InOrder
<1> QED BY <1>2 DEF p

\* A chunk behind all that was received and queued.
LEMMA GotAppend ==
    ASSUME NEW q \in Seq(Messages), NEW m \in Messages, NEW got, AfterGot(q, got),
           m.ev = "data" => \A o \in got : SameWay(m, o) => o.n < m.n
    PROVE  AfterGot(Append(q, m), got)
<1> DEFINE p == Append(q, m)
<1>1. /\ p[Len(q) + 1] = m
      /\ \A i \in DOMAIN q : i \in DOMAIN p /\ p[i] = q[i]
      /\ \A i \in DOMAIN p : i \in DOMAIN q \/ i = Len(q) + 1
  BY Appended
<1> HIDE DEF p
<1>2. AfterGot(p, got)
  BY <1>1 DEF AfterGot
<1> QED BY <1>2 DEF p
\* Receiving the first one keeps the rest after what was received.
LEMMA GotTail ==
    ASSUME NEW q \in Seq(Messages), q # <<>>, NEW got, NEW new, InOrder(q), AfterGot(q, got),
           \A o \in new : o \in got \/ (q[1].ev = "data" /\ SameWay(q[1], o) /\ o.n = q[1].n)
    PROVE  AfterGot(Tail(q), new)
<1> DEFINE p == Tail(q)
<1>1. /\ \A i \in DOMAIN p : i + 1 \in DOMAIN q /\ p[i] = q[i + 1] /\ i \in Nat /\ i > 0
      /\ 1 \in DOMAIN q
  BY Tailed
<1> HIDE DEF p
<1>2. ASSUME NEW j \in DOMAIN p, NEW o \in new, p[j].ev = "data", SameWay(p[j], o) PROVE o.n < p[j].n
  <2>1. j + 1 \in DOMAIN q /\ p[j] = q[j + 1] /\ 1 < j + 1
    BY <1>1
  <2>2. CASE o \in got
    BY <1>2, <2>1, <2>2 DEF AfterGot
  <2>3. CASE q[1].ev = "data" /\ SameWay(q[1], o) /\ o.n = q[1].n
    BY <1>1, <1>2, <2>1, <2>3 DEF InOrder, SameWay
  <2> QED BY <2>2, <2>3
<1>3. AfterGot(p, new)
  BY <1>2 DEF AfterGot
<1> QED BY <1>3 DEF p

\* A chunk whose connection was announced.
LEMMA PrecededAppend ==
    ASSUME NEW q \in Seq(Messages), NEW m \in Messages, NEW i, NEW table, Preceded(i, q, table),
           m.ev = "data" => <<i, m.id>> \in table \/ Opens(q, m.id)
    PROVE  Preceded(i, Append(q, m), table)
<1> DEFINE p == Append(q, m)
<1>1. /\ p[Len(q) + 1] = m
      /\ \A j \in DOMAIN q : j \in DOMAIN p /\ p[j] = q[j] /\ j < Len(q) + 1
      /\ \A j \in DOMAIN p : j \in DOMAIN q \/ j = Len(q) + 1
  BY Appended
<1> HIDE DEF p
<1>2. ASSUME NEW j \in DOMAIN p, p[j].ev = "data"
      PROVE  <<i, p[j].id>> \in table \/ \E l \in DOMAIN p : l < j /\ p[l].ev = "open" /\ p[l].id = p[j].id
  <2>1. CASE j \in DOMAIN q
    BY <1>1, <1>2, <2>1 DEF Preceded
  <2>2. CASE j = Len(q) + 1
    BY <1>1, <1>2, <2>2 DEF Opens
  <2> QED BY <1>1, <2>1, <2>2
<1>3. Preceded(i, p, table)
  BY <1>2 DEF Preceded
<1> QED BY <1>3 DEF p
\* The first message is opened, closed or received.
LEMMA PrecededTail ==
    ASSUME NEW q \in Seq(Messages), q # <<>>, NEW i, NEW table, NEW new, Preceded(i, q, table), ClosedLast(q),
           q[1].ev = "open" => <<i, q[1].id>> \in new,
           \A key \in table : key \in new \/ (q[1].ev = "close" /\ key = <<i, q[1].id>>)
    PROVE  Preceded(i, Tail(q), new)
<1> DEFINE p == Tail(q)
<1>1. /\ \A j \in DOMAIN p : j + 1 \in DOMAIN q /\ p[j] = q[j + 1] /\ j \in Nat /\ j > 0
      /\ \A j \in DOMAIN q : j # 1 => j - 1 \in DOMAIN p /\ p[j - 1] = q[j] /\ j \in Nat /\ j > 1
      /\ 1 \in DOMAIN q
  BY Tailed
<1> HIDE DEF p
<1>2. ASSUME NEW j \in DOMAIN p, p[j].ev = "data"
      PROVE  <<i, p[j].id>> \in new \/ \E l \in DOMAIN p : l < j /\ p[l].ev = "open" /\ p[l].id = p[j].id
  <2>1. j + 1 \in DOMAIN q /\ p[j] = q[j + 1] /\ 1 < j + 1 /\ j \in Nat
    BY <1>1
  <2>2. CASE <<i, q[j + 1].id>> \in table
    <3>1. ~(q[1].ev = "close" /\ q[1].id = q[j + 1].id)
      BY <1>1, <1>2, <2>1 DEF ClosedLast
    <3> QED BY <2>1, <2>2, <3>1
  <2>3. ASSUME NEW l \in DOMAIN q, l < j + 1, q[l].ev = "open", q[l].id = q[j + 1].id
        PROVE  <<i, p[j].id>> \in new \/ \E o \in DOMAIN p : o < j /\ p[o].ev = "open" /\ p[o].id = p[j].id
    <3>1. CASE l = 1
      BY <2>1, <2>3, <3>1
    <3>2. CASE l # 1
      <4>1. l - 1 \in DOMAIN p /\ p[l - 1] = q[l] /\ l - 1 < j
        BY <1>1, <2>1, <2>3, <3>2
      <4> QED BY <2>1, <2>3, <4>1
    <3> QED BY <3>1, <3>2
  <2> QED BY <1>2, <2>1, <2>2, <2>3 DEF Preceded
<1>3. Preceded(i, p, new)
  BY <1>2 DEF Preceded
<1> QED BY <1>3 DEF p

\* No chunk of a connection follows its close.
LEMMA ClosedAppend ==
    ASSUME NEW q \in Seq(Messages), NEW m \in Messages, ClosedLast(q),
           m.ev = "data" => \A j \in DOMAIN q : q[j].ev = "close" => q[j].id # m.id
    PROVE  ClosedLast(Append(q, m))
<1> DEFINE p == Append(q, m)
<1>1. /\ p[Len(q) + 1] = m /\ Len(q) \in Nat
      /\ \A i \in DOMAIN q : i \in DOMAIN p /\ p[i] = q[i] /\ i < Len(q) + 1 /\ i \in Nat
      /\ \A i \in DOMAIN p : i \in DOMAIN q \/ i = Len(q) + 1
  BY Appended
<1> HIDE DEF p
<1>2. ClosedLast(p)
  BY <1>1 DEF ClosedLast
<1> QED BY <1>2 DEF p

\* Nothing follows a close in the rest of a queue either.
LEMMA ClosedTail ==
    ASSUME NEW q \in Seq(Messages), q # <<>>, ClosedLast(q)
    PROVE  ClosedLast(Tail(q))
<1> DEFINE p == Tail(q)
<1>1. \A i \in DOMAIN p : i + 1 \in DOMAIN q /\ p[i] = q[i + 1] /\ i \in Nat
  BY Tailed
<1> HIDE DEF p
<1>2. ClosedLast(p)
  BY <1>1 DEF ClosedLast
<1> QED BY <1>2 DEF p

-----------------------------------------------------------------------------
(***************************************************************************)
(* Steps of the agent: streams only grow, by a message of epoch e, and the *)
(* source is left alone.                                                   *)
(***************************************************************************)

\* Every stream is as before or has one message more; a new one has at most that one.
Grown(e, m) ==
    /\ \A i \in DOMAIN pushes :
          /\ i \in DOMAIN pushes'
          /\ pushes'[i].epoch = pushes[i].epoch /\ pushes'[i].alive = pushes[i].alive /\ pushes'[i].ids = pushes[i].ids
          /\ \/ pushes'[i].q = pushes[i].q
             \/ /\ pushes'[i].q = Append(pushes[i].q, m) /\ pushes[i].epoch = e
                /\ m.ev = "eof" \/ pushes[i].alive
    /\ \A i \in DOMAIN pushes' : i \notin DOMAIN pushes =>
          /\ pushes'[i].ids = {} /\ pushes'[i].epoch \in DOMAIN captures'
          /\ \/ pushes'[i].q = <<>>
             \/ pushes'[i].q = <<m>> /\ pushes'[i].epoch = e /\ e \in DOMAIN sink /\ sink[e].stream = 0

\* Captures stay what they are, and a client keeps a stream that holds.
CapturesKept ==
    /\ \A x \in DOMAIN captures : x \in DOMAIN captures' /\ captures'[x] = captures[x]
    /\ \A x \in DOMAIN sink :
          /\ x \in DOMAIN sink' /\ (sink'[x].open => sink[x].open)
          /\ sink'[x].open /\ x \notin cut /\ sink[x].stream # 0 => sink'[x].stream = sink[x].stream

\* Chunks are numbered upwards, and what is done stays done.
MovesOn ==
    /\ \A f \in Phones \X Directions :
          /\ fwd[f].n <= fwd'[f].n
          /\ fwd'[f].at \in {"begin", "send"} => fwd[f].n < fwd'[f].n \/ fwd[f].at \in {"begin", "send"}
    /\ \A k \in Phones : conn[k].at = "done" => conn'[k].at = "done"

\* A chunk is sent by the goroutine that holds it, a close when both have stopped.
Fits(e, m) ==
    /\ m.ev = "data" => LET f == <<m.id[1], m.dir>> IN
          fwd[f].at = "send" /\ fwd[f].n = m.n /\ fwd[f].st = e /\ fwd'[f].at = "read" /\ m.id = <<m.id[1], e>>
    /\ m.ev = "close" => conn'[m.id[1]].at = "done"

\* Counters only grow.
LEMMA NumberedOn ==
    ASSUME RelTyped, RelTyped', MovesOn, NEW m, m.id \in Ids, m.dir \in Directions, m.n \in Nat, Numbered(fwd, m)
    PROVE  Numbered(fwd', m)
<1> DEFINE f == <<m.id[1], m.dir>>
<1>1. f \in Phones \X Directions
  BY IdParts
<1>2. fwd[f].n \in Nat /\ fwd'[f].n \in Nat
  <2>1. /\ fwd[f].n \in Nat
    BY <1>1, FwdTyped
  <2>2. fwd' \in [Phones \X Directions -> FwdRecs]
    BY DEF RelTyped
  <2>3. fwd'[f] \in FwdRecs
    BY <1>1, <2>2
  <2> QED BY <2>1, <2>3 DEF FwdRecs
<1>3. /\ fwd[f].n <= fwd'[f].n
      /\ fwd'[f].at \in {"begin", "send"} => fwd[f].n < fwd'[f].n \/ fwd[f].at \in {"begin", "send"}
  BY <1>1 DEF MovesOn
<1>4. m.n <= fwd[f].n /\ (fwd[f].at \in {"begin", "send"} => m.n < fwd[f].n)
  BY DEF Numbered
<1> HIDE DEF f
<1>5. m.n <= fwd'[f].n /\ (fwd'[f].at \in {"begin", "send"} => m.n < fwd'[f].n)
  BY <1>2, <1>3, <1>4
<1> QED BY <1>5 DEF Numbered, f

\* What is in a queue after it grew.
LEMMA GrownQueue ==
    ASSUME RelTyped, RelTyped', NEW e, NEW m \in Messages, Grown(e, m), NEW i \in DOMAIN pushes', NEW j \in DOMAIN pushes'[i].q
    PROVE  \/ i \in DOMAIN pushes /\ j \in DOMAIN pushes[i].q /\ pushes'[i].q[j] = pushes[i].q[j]
           \/ pushes'[i].q[j] = m /\ pushes'[i].epoch = e
<1>1. CASE i \in DOMAIN pushes /\ pushes'[i].q = pushes[i].q
  BY <1>1
<1>2. CASE i \in DOMAIN pushes /\ pushes'[i].q = Append(pushes[i].q, m) /\ pushes[i].epoch = e /\ pushes'[i].epoch = e
  <2>1. pushes[i].q \in Seq(Messages)
    BY <1>2, StreamTyped
  <2>2. /\ pushes'[i].q[Len(pushes[i].q) + 1] = m
        /\ \A l \in DOMAIN pushes[i].q : pushes'[i].q[l] = pushes[i].q[l]
        /\ \A l \in DOMAIN pushes'[i].q : l \in DOMAIN pushes[i].q \/ l = Len(pushes[i].q) + 1
    BY <1>2, <2>1, Appended
  <2> QED BY <1>2, <2>2
<1>3. CASE pushes'[i].q = <<>>
  BY <1>3
<1>4. CASE pushes'[i].q = <<m>> /\ pushes'[i].epoch = e
  BY <1>4
<1> QED BY <1>1, <1>2, <1>3, <1>4 DEF Grown

\* A message more: its chunk was read before.
LEMMA GrownRead ==
    ASSUME RelInv, RelTyped', NEW e, NEW m \in Messages, Grown(e, m), MovesOn, Fits(e, m), UNCHANGED sources
    PROVE  Read'
<1>1. RelTyped /\ Read
  BY DEF RelInv
<1>2. m.ev = "data" => Numbered(fwd', m)
  <2> SUFFICES ASSUME m.ev = "data" PROVE Numbered(fwd', m)
    OBVIOUS
  <2> DEFINE f == <<m.id[1], m.dir>>
  <2>1. f \in Phones \X Directions /\ m.n \in Nat
    BY MessageParts, IdParts
  <2>2. fwd[f].n = m.n /\ fwd'[f].at = "read"
    BY DEF Fits
  <2>3. fwd[f].n <= fwd'[f].n
    BY <2>1 DEF MovesOn
  <2> QED BY <2>2, <2>3 DEF Numbered
<1>3. ASSUME NEW i \in DOMAIN pushes', NEW j \in DOMAIN pushes'[i].q, pushes'[i].q[j].ev = "data"
      PROVE  Numbered(fwd', pushes'[i].q[j])
  <2> DEFINE x == pushes'[i].q[j]
  <2>1. CASE x = m
    BY <1>2, <1>3, <2>1
  <2>2. CASE i \in DOMAIN pushes /\ j \in DOMAIN pushes[i].q /\ x = pushes[i].q[j]
    <3>1. x \in Messages
      BY <1>1, <2>2, StreamTyped
    <3>2. x.id \in Ids /\ x.dir \in Directions /\ x.n \in Nat
      BY <1>3, <3>1, MessageParts
    <3>3. Numbered(fwd, x)
      BY <1>1, <1>3, <2>2 DEF Read
    <3> HIDE DEF x
    <3>4. Numbered(fwd', x)
      BY <1>1, <3>2, <3>3, NumberedOn
    <3> QED BY <3>4 DEF x
  <2> QED BY <1>1, <2>1, <2>2, GrownQueue
<1>4. ASSUME NEW s \in Sources, NEW p \in sources[s].got PROVE Numbered(fwd', p)
  <2>2. p.id \in Ids /\ p.dir \in Directions /\ p.n \in Nat
    BY <1>1, SourceTyped
  <2>3. Numbered(fwd, p)
    BY <1>1 DEF Read
  <2> QED BY <1>1, <2>2, <2>3, NumberedOn
<1> QED BY <1>3, <1>4 DEF Read

\* A chunk that is sent is later than those of its direction that were sent before.
LEMMA ChunkLater ==
    ASSUME RelInv, NEW e, NEW m \in Messages, Fits(e, m), m.ev = "data"
    PROVE  /\ \A i \in DOMAIN pushes : \A j \in DOMAIN pushes[i].q :
                 pushes[i].q[j].ev = "data" /\ SameWay(pushes[i].q[j], m) => pushes[i].q[j].n < m.n
           /\ \A s \in Sources : \A o \in sources[s].got : SameWay(m, o) => o.n < m.n
<1>1. Read
  BY DEF RelInv
<1> DEFINE f == <<m.id[1], m.dir>>
<1>2. fwd[f].at = "send" /\ fwd[f].n = m.n
  BY DEF Fits
<1>3. ASSUME NEW x, SameWay(x, m) \/ SameWay(m, x), Numbered(fwd, x) PROVE x.n < m.n
  <2>1. f = <<x.id[1], x.dir>>
    BY <1>3 DEF SameWay
  <2> QED BY <1>2, <1>3, <2>1 DEF Numbered
<1> QED BY <1>1, <1>3 DEF Read

\* The captures that there were are the ones that there are.
LEMMA KnownEpoch ==
    ASSUME RelTyped, NEW e \in Epochs, e <= Len(captures)
    PROVE  e \in DOMAIN captures /\ e \in DOMAIN sink
  BY DEF RelTyped, Epochs

\* A capture that goes on after the step went on before.
LEMMA StillHolding ==
    ASSUME RelInv, CapturesKept, UNCHANGED <<sources, cut>>, NEW e \in DOMAIN sink, Holding(e)'
    PROVE  Holding(e) /\ Session(e)' = Session(e) /\ sources'[Session(e)'] = sources[Session(e)]
<1>1. e \in DOMAIN captures
  BY DEF RelInv, RelTyped
<1>2. captures'[e] = captures[e]
  BY <1>1 DEF CapturesKept
<1>3. Session(e)' = Session(e)
  BY <1>2 DEF Session
<1>4. sink'[e].open /\ e \notin cut' /\ sources'[Session(e)'].up
  BY DEF Holding
<1>5. sink[e].open
  BY <1>4 DEF CapturesKept
<1> QED BY <1>3, <1>4, <1>5 DEF Holding

\* Once announced, a connection stays announced while the stream holds.
LEMMA AnnouncedOn ==
    ASSUME RelInv, NEW e, NEW m \in Messages, Grown(e, m), CapturesKept, UNCHANGED <<sources, cut>>,
           NEW x \in DOMAIN sink, NEW k \in Phones, Announced(k, x), Holding(x)'
    PROVE  Announced(k, x)'
<1>1. Session(x)' = Session(x) /\ Holding(x)
  BY StillHolding
<1>2. sink'[x].open /\ x \notin cut /\ sink[x].stream # 0
  BY <1>1 DEF Holding, Announced
<1>3. sink'[x].stream = sink[x].stream
  BY <1>2 DEF CapturesKept
<1> DEFINE i == sink[x].stream
<1>4. i \in DOMAIN pushes
  BY <1>2 DEF RelInv, Clients
<1>5. pushes[i].q \in Seq(Messages)
  BY <1>4, StreamTyped DEF RelInv
<1>6. CASE <<i, <<k, x>>>> \in sources[Session(x)].table
  BY <1>1, <1>2, <1>3, <1>6 DEF Announced
<1>7. ASSUME NEW j \in DOMAIN pushes[i].q, pushes[i].q[j].ev = "open", pushes[i].q[j].id = <<k, x>>
      PROVE  Announced(k, x)'
  <2>1. j \in DOMAIN pushes'[i].q /\ pushes'[i].q[j] = pushes[i].q[j]
    <3>1. CASE pushes'[i].q = pushes[i].q
      BY <3>1
    <3>2. CASE pushes'[i].q = Append(pushes[i].q, m)
      BY <1>5, <3>2, Appended
    <3> QED BY <1>4, <3>1, <3>2 DEF Grown
  <2>2. Opens(pushes'[i].q, <<k, x>>)
    BY <1>7, <2>1 DEF Opens
  <2> QED BY <1>2, <1>3, <2>2 DEF Announced
<1> QED BY <1>6, <1>7 DEF Announced, Opens

\* ... the source has counted nothing new.
LEMMA GrownCounted ==
    ASSUME RelInv, RelTyped', NEW e, NEW m, Grown(e, m), CapturesKept, UNCHANGED sources
    PROVE  Counted'
<1>1. ASSUME NEW i \in DOMAIN pushes' PROVE IsFiniteSet(pushes'[i].ids)
  <2>1. CASE i \in DOMAIN pushes
    BY <2>1 DEF RelInv, Counted, Grown
  <2>2. CASE i \notin DOMAIN pushes
    BY <2>2, FS_EmptySet DEF Grown
  <2> QED BY <2>1, <2>2
<1>2. ASSUME NEW s \in Sources, NEW key \in sources[s].table
      PROVE  /\ key[1] \in DOMAIN pushes' /\ pushes'[key[1]].alive
             /\ captures'[pushes'[key[1]].epoch].session = s /\ key[2] \in pushes'[key[1]].ids
  <2>1. /\ key[1] \in DOMAIN pushes /\ pushes[key[1]].alive
        /\ Session(pushes[key[1]].epoch) = s /\ key[2] \in pushes[key[1]].ids
    BY DEF RelInv, Counted
  <2>2. /\ key[1] \in DOMAIN pushes' /\ pushes'[key[1]].epoch = pushes[key[1]].epoch
        /\ pushes'[key[1]].alive = pushes[key[1]].alive /\ pushes'[key[1]].ids = pushes[key[1]].ids
    BY <2>1 DEF Grown
  <2>3. pushes[key[1]].epoch \in DOMAIN captures
    BY <2>1 DEF RelInv, Wired, StreamWired
  <2>4. captures'[pushes[key[1]].epoch] = captures[pushes[key[1]].epoch]
    BY <2>3 DEF CapturesKept
  <2> QED BY <2>1, <2>2, <2>4 DEF Session
<1>3. \A s \in Sources : IsFiniteSet(sources[s].table) /\ sources[s].active = Cardinality(sources[s].table)
  BY DEF RelInv, Counted
<1> QED BY <1>1, <1>2, <1>3 DEF Counted, Session

\* ... the queues stay in order.
LEMMA GrownOrdered ==
    ASSUME RelInv, RelTyped', NEW e, NEW m \in Messages, Grown(e, m), CapturesKept, Fits(e, m), UNCHANGED sources
    PROVE  Ordered'
<1>1. ASSUME NEW i \in DOMAIN pushes', sink'[pushes'[i].epoch].open
      PROVE  InOrder(pushes'[i].q) /\ \A s \in Sources : s = captures'[pushes'[i].epoch].session => AfterGot(pushes'[i].q, sources[s].got)
  <2>1. CASE i \in DOMAIN pushes
    <3> DEFINE q == pushes[i].q
    <3>1. pushes[i].epoch \in DOMAIN captures /\ pushes[i].epoch \in DOMAIN sink
      BY <2>1 DEF RelInv, RelTyped, Wired, StreamWired
    <3>2. /\ pushes'[i].epoch = pushes[i].epoch
          /\ pushes'[i].q = q \/ pushes'[i].q = Append(q, m)
      BY <2>1 DEF Grown
    <3>3. sink[pushes[i].epoch].open /\ captures'[pushes[i].epoch] = captures[pushes[i].epoch]
      BY <1>1, <3>1, <3>2 DEF CapturesKept
    <3>4. InOrder(q) /\ AfterGot(q, sources[captures[pushes[i].epoch].session].got)
      BY <2>1, <3>3 DEF RelInv, Ordered, Session
    <3>5. q \in Seq(Messages)
      BY <2>1, StreamTyped DEF RelInv
    <3>6. m.ev = "data" => \A j \in DOMAIN q : q[j].ev = "data" /\ SameWay(q[j], m) => q[j].n < m.n
      BY <2>1, ChunkLater
    <3>7. ASSUME NEW s \in Sources PROVE m.ev = "data" => \A o \in sources[s].got : SameWay(m, o) => o.n < m.n
      BY ChunkLater
    <3> HIDE DEF q
    <3>8. InOrder(Append(q, m))
      BY <3>4, <3>5, <3>6, OrderAppend
    <3>9. ASSUME NEW s \in Sources, s = captures[pushes[i].epoch].session PROVE AfterGot(Append(q, m), sources[s].got)
      <4>1. AfterGot(q, sources[s].got)
        BY <3>4, <3>9
      <4>2. m.ev = "data" => \A o \in sources[s].got : SameWay(m, o) => o.n < m.n
        BY <3>7
      <4> QED BY <3>5, <4>1, <4>2, GotAppend
    <3> QED BY <3>2, <3>3, <3>4, <3>8, <3>9
  <2>2. CASE i \notin DOMAIN pushes
    <3>1. CASE pushes'[i].q = <<>>
      BY <3>1 DEF InOrder, AfterGot
    <3>2. CASE pushes'[i].q = <<m>>
      <4>1. InOrder(<<m>>)
        BY DEF InOrder
      <4>2. ASSUME NEW s \in Sources PROVE AfterGot(<<m>>, sources[s].got)
        BY ChunkLater DEF AfterGot
      <4> QED BY <3>2, <4>1, <4>2
    <3> QED BY <2>2, <3>1, <3>2 DEF Grown
  <2> QED BY <2>1, <2>2
<1>2. ASSUME NEW i \in DOMAIN pushes' PROVE captures'[pushes'[i].epoch].session \in Sources
  <2>1. pushes'[i].epoch \in DOMAIN captures'
    <3>1. CASE i \in DOMAIN pushes
      <4>1. pushes[i].epoch \in DOMAIN captures
        BY <3>1 DEF RelInv, Wired, StreamWired
      <4> QED BY <3>1, <4>1 DEF Grown, CapturesKept
    <3>2. CASE i \notin DOMAIN pushes
      BY <3>2 DEF Grown
    <3> QED BY <3>1, <3>2
  <2>2. captures'[pushes'[i].epoch] \in Captures
    BY <2>1 DEF RelTyped
  <2> QED BY <2>2 DEF Captures
<1> QED BY <1>1, <1>2 DEF Ordered, Session

\* ... what was received stays where it belongs.
LEMMA GrownGot ==
    ASSUME RelInv, RelTyped', CapturesKept, UNCHANGED <<sources, lost, cut>>
    PROVE  GotOwn' /\ LateClosed' /\ NothingUnannounced'
<1>1. RelTyped /\ Known /\ GotOwn /\ LateClosed /\ NothingUnannounced
  BY DEF RelInv
<1>2. ASSUME NEW id \in Ids, id[2] <= Len(captures)
      PROVE  captures'[id[2]] = captures[id[2]] /\ (sink'[id[2]].open => sink[id[2]].open)
  <2>1. id[2] \in DOMAIN captures /\ id[2] \in DOMAIN sink
    BY <1>1, <1>2, IdParts, KnownEpoch
  <2> QED BY <2>1 DEF CapturesKept
<1>3. ASSUME NEW s \in Sources, NEW p \in sources[s].got PROVE captures'[p.id[2]].session = s
  <2>1. p.id \in Ids /\ p.id[2] <= Len(captures)
    BY <1>1, SourceTyped DEF Known
  <2>2. captures[p.id[2]].session = s
    BY <1>1 DEF GotOwn, Session
  <2> QED BY <1>2, <2>1, <2>2
<1>4. ASSUME NEW s \in Sources, NEW id \in sources[s].late PROVE ~sink'[id[2]].open
  <2>1. id \in Ids /\ id[2] <= Len(captures)
    BY <1>1, SourceTyped DEF Known
  <2> QED BY <1>1, <1>2, <2>1 DEF LateClosed
<1>5. ASSUME NEW id \in lost PROVE id[2] \in cut \/ ~sink'[id[2]].open
  <2>1. id \in Ids /\ id[2] <= Len(captures)
    BY <1>1 DEF Known, RelTyped
  <2> QED BY <1>1, <1>2, <2>1 DEF NothingUnannounced
<1> QED BY <1>3, <1>4, <1>5 DEF GotOwn, LateClosed, NothingUnannounced, Session

\* ... nothing is queued behind a close.
LEMMA GrownClosed ==
    ASSUME RelInv, RelTyped', NEW e, NEW m \in Messages, Grown(e, m), MovesOn, Fits(e, m)
    PROVE  ClosedDone'
<1>1. RelTyped /\ ClosedDone /\ Relaying
  BY DEF RelInv
<1>2. ASSUME m.ev = "data", NEW i \in DOMAIN pushes, NEW j \in DOMAIN pushes[i].q, pushes[i].q[j].ev = "close"
      PROVE  pushes[i].q[j].id # m.id
  <2>1. m.id \in Ids /\ m.dir \in Directions /\ m.id[1] \in Phones
    BY <1>2, MessageParts, IdParts
  <2>2. fwd[<<m.id[1], m.dir>>].at = "send"
    BY <1>2 DEF Fits
  <2>3. conn[m.id[1]].at = "relay"
    BY <1>1, <2>1, <2>2 DEF Relaying
  <2> QED BY <1>1, <1>2, <2>3 DEF ClosedDone
<1>3. ASSUME NEW i \in DOMAIN pushes' PROVE ClosedLast(pushes'[i].q)
  <2>1. CASE i \in DOMAIN pushes
    <3> DEFINE q == pushes[i].q
    <3>1. pushes'[i].q = q \/ pushes'[i].q = Append(q, m)
      BY <2>1 DEF Grown
    <3>2. q \in Seq(Messages) /\ ClosedLast(q)
      BY <1>1, <2>1, StreamTyped DEF ClosedDone
    <3>3. m.ev = "data" => \A j \in DOMAIN q : q[j].ev = "close" => q[j].id # m.id
      BY <1>2, <2>1
    <3> HIDE DEF q
    <3>4. ClosedLast(Append(q, m))
      BY <3>2, <3>3, ClosedAppend
    <3> QED BY <3>1, <3>2, <3>4
  <2>2. CASE i \notin DOMAIN pushes
    <3>1. CASE pushes'[i].q = <<>>
      BY <3>1 DEF ClosedLast
    <3>2. CASE pushes'[i].q = <<m>>
      BY <3>2 DEF ClosedLast
    <3> QED BY <2>2, <3>1, <3>2 DEF Grown
  <2> QED BY <2>1, <2>2
<1>4. ASSUME NEW i \in DOMAIN pushes', NEW j \in DOMAIN pushes'[i].q, pushes'[i].q[j].ev = "close"
      PROVE  conn'[pushes'[i].q[j].id[1]].at = "done"
  <2>1. CASE pushes'[i].q[j] = m
    BY <1>4, <2>1 DEF Fits
  <2>2. CASE i \in DOMAIN pushes /\ j \in DOMAIN pushes[i].q /\ pushes'[i].q[j] = pushes[i].q[j]
    <3>1. pushes[i].q[j] \in Messages
      BY <1>1, <2>2, StreamTyped
    <3>2. pushes[i].q[j].id \in Ids
      BY <1>4, <2>2, <3>1, MessageParts
    <3>3. pushes[i].q[j].id[1] \in Phones
      BY <3>2, IdParts
    <3>4. conn[pushes[i].q[j].id[1]].at = "done"
      BY <1>1, <1>4, <2>2 DEF ClosedDone
    <3> QED BY <2>2, <3>3, <3>4 DEF MovesOn
  <2> QED BY <1>1, <2>1, <2>2, GrownQueue
<1> QED BY <1>3, <1>4 DEF ClosedDone

\* ... its connection was announced on this stream.
LEMMA GrownAnnounced ==
    ASSUME RelInv, RelTyped', NEW e, NEW m \in Messages, Grown(e, m), CapturesKept, Fits(e, m), UNCHANGED <<sources, cut>>
    PROVE  QueuesAnnounced'
<1>1. RelTyped /\ QueuesAnnounced /\ ChunksAnnounced /\ Wired
  BY DEF RelInv
<1>2. ASSUME m.ev = "data", Holding(e)
      PROVE  LET i == sink[e].stream IN i # 0 /\ (<<i, m.id>> \in sources[Session(e)].table \/ Opens(pushes[i].q, m.id))
  <2>1. m.id \in Ids /\ m.dir \in Directions /\ m.id[1] \in Phones
    BY <1>2, MessageParts, IdParts
  <2> DEFINE f == <<m.id[1], m.dir>>
  <2>2. fwd[f].at = "send" /\ fwd[f].st = e /\ m.id = <<f[1], e>>
    BY <1>2 DEF Fits
  <2>3. f \in Phones \X Directions
    BY <2>1
  <2> HIDE DEF f
  <2>4. Announced(f[1], e)
    BY <1>1, <1>2, <2>2, <2>3 DEF ChunksAnnounced
  <2> QED BY <2>2, <2>4 DEF Announced
<1>3. ASSUME NEW i \in DOMAIN pushes', NEW x, x = pushes'[i].epoch, Holding(x)'
      PROVE  Preceded(i, pushes'[i].q, sources'[captures'[x].session].table)
  <2>1. CASE i \in DOMAIN pushes
    <3> DEFINE q == pushes[i].q
    <3>1. x = pushes[i].epoch /\ x \in DOMAIN captures /\ x \in DOMAIN sink
      BY <1>1, <1>3, <2>1 DEF RelTyped, Wired, StreamWired, Grown
    <3>3. Holding(x) /\ Session(x)' = Session(x)
      BY <1>3, <3>1, StillHolding
    <3>4. Preceded(i, q, sources[Session(x)].table)
      BY <1>1, <2>1, <3>1, <3>3 DEF QueuesAnnounced
    <3>5. CASE pushes'[i].q = q
      BY <3>3, <3>4, <3>5 DEF Session
    <3>6. CASE pushes'[i].q = Append(q, m) /\ x = e /\ (m.ev = "eof" \/ pushes[i].alive)
      <4>1. q \in Seq(Messages)
        BY <1>1, <2>1, StreamTyped
      <4>2. m.ev = "data" => <<i, m.id>> \in sources[Session(x)].table \/ Opens(q, m.id)
        <5> SUFFICES ASSUME m.ev = "data" PROVE <<i, m.id>> \in sources[Session(x)].table \/ Opens(q, m.id)
          OBVIOUS
        <5>1. pushes[i].alive /\ sink[x].open
          BY <3>3, <3>6 DEF Holding
        <5>2. sink[x].stream = i
          BY <1>1, <2>1, <3>1, <5>1 DEF Wired, StreamWired
        <5> QED BY <1>2, <3>3, <3>6, <5>2
      <4> HIDE DEF q
      <4>3. Preceded(i, Append(q, m), sources[Session(x)].table)
        BY <3>4, <4>1, <4>2, PrecededAppend
      <4> QED BY <3>3, <3>6, <4>3 DEF Session
    <3> QED BY <2>1, <3>1, <3>5, <3>6 DEF Grown
  <2>2. CASE i \notin DOMAIN pushes
    <3>1. CASE pushes'[i].q = <<>>
      BY <3>1 DEF Preceded
    <3>2. CASE pushes'[i].q = <<m>> /\ x = e /\ e \in DOMAIN sink /\ sink[e].stream = 0
      <4>1. Holding(e)'
        BY <1>3, <3>2
      <4>2. Holding(e)
        BY <3>2, <4>1, StillHolding
      <4>3. m.ev # "data"
        BY <1>2, <3>2, <4>2
      <4> QED BY <3>2, <4>3 DEF Preceded
    <3> QED BY <1>3, <2>2, <3>1, <3>2 DEF Grown
  <2> QED BY <2>1, <2>2
<1>4. ASSUME NEW i \in DOMAIN pushes', NEW x, x = pushes'[i].epoch
      PROVE  Holding(x)' => Preceded(i, pushes'[i].q, sources'[captures'[x].session].table)
  BY <1>3, <1>4
<1>5. \A i \in DOMAIN pushes' : \A x : x = pushes'[i].epoch =>
         (x \in DOMAIN sink' /\ sink'[x].open /\ x \notin cut' /\ sources'[captures'[x].session].up
            => Preceded(i, pushes'[i].q, sources'[captures'[x].session].table))
  BY <1>4 DEF Holding, Session
<1> QED BY <1>5 DEF QueuesAnnounced, Session, Holding

\* What is left to show of a step of the agent.
LEMMA AgentStep ==
    ASSUME RelInv, RelTyped', NEW e, NEW m \in Messages, Grown(e, m), CapturesKept, MovesOn, Fits(e, m),
           UNCHANGED <<sources, lost, cut>>,
           Known', Clients', Wired', Relaying', ConnsAnnounced', ChunksAnnounced'
    PROVE  RelInv'
<1>1. Counted'
  BY GrownCounted
<1>2. Read'
  BY GrownRead
<1>3. Ordered'
  BY GrownOrdered
<1>4. GotOwn' /\ LateClosed' /\ NothingUnannounced'
  BY GrownGot
<1>5. ClosedDone'
  BY GrownClosed
<1>6. QueuesAnnounced'
  BY GrownAnnounced
<1> QED BY <1>1, <1>2, <1>3, <1>4, <1>5, <1>6 DEF RelInv

-----------------------------------------------------------------------------
(***************************************************************************)
(* What Send does, in its four ways.                                       *)
(***************************************************************************)

\* A client is given another stream.
LEMMA StreamSet ==
    ASSUME sink \in Seq(Sinks), NEW e \in DOMAIN sink, NEW n \in Nat, sink' = [sink EXCEPT ![e].stream = n]
    PROVE  /\ sink' \in Seq(Sinks) /\ Len(sink') = Len(sink) /\ DOMAIN sink' = DOMAIN sink
           /\ \A x \in DOMAIN sink : sink'[x].open = sink[x].open /\ (x # e => sink'[x].stream = sink[x].stream)
           /\ sink'[e].stream = n
<1> DEFINE r == [sink[e] EXCEPT !.stream = n]
<1>1. sink[e] \in Sinks
  OBVIOUS
<1>2. r \in Sinks /\ r.stream = n /\ r.open = sink[e].open
  BY <1>1 DEF Sinks
<1>3. sink' = [sink EXCEPT ![e] = r]
  OBVIOUS
<1> HIDE DEF r
<1> QED BY <1>2, <1>3

\* It dials: the new stream carries the message, if there is one.
LEMMA Dialled ==
    ASSUME RelInv, NEW e \in DOMAIN sink, NEW m \in Messages, NEW q, sink[e].stream = 0, CanDial(e),
           q = <<>> \/ (q = <<m>> /\ m.ev # "eof" /\ m.id[2] = e),
           pushes' = Append(pushes, NewStream(e, q)), sink' = [sink EXCEPT ![e].stream = Len(pushes) + 1],
           UNCHANGED <<gate, captures, sources, cut>>
    PROVE  /\ pushes' \in Seq(Streams) /\ sink' \in Seq(Sinks) /\ Len(sink') = Len(sink)
           /\ Grown(e, m) /\ CapturesKept /\ Clients' /\ Wired'
           /\ sink'[e].stream \in DOMAIN pushes' /\ pushes'[sink'[e].stream].q = q
<1>1. /\ RelTyped /\ Clients /\ Wired
      /\ pushes \in Seq(Streams) /\ sink \in Seq(Sinks) /\ captures \in Seq(Captures) /\ Len(sink) = Len(captures)
  BY DEF RelInv, RelTyped
<1> DEFINE N == Len(pushes) + 1 new == NewStream(e, q)
<1>2. N \in Nat /\ N # 0
  BY <1>1
<1>3. e \in DOMAIN captures /\ e \in Epochs
  BY <1>1 DEF Epochs
<1>4. new \in Streams /\ new.epoch = e /\ new.q = q /\ new.alive = TRUE /\ new.ids = {}
  <2>1. CASE q = <<>>
    BY <1>3, <2>1 DEF Streams, NewStream
  <2>2. CASE q = <<m>>
    <3>1. <<m>> \in Seq(Messages)
      OBVIOUS
    <3> QED BY <1>3, <2>2, <3>1 DEF Streams, NewStream
  <2> QED BY <2>1, <2>2
<1> HIDE DEF new
<1>5. /\ pushes' \in Seq(Streams) /\ pushes'[N] = new /\ N \in DOMAIN pushes'
      /\ \A i \in DOMAIN pushes : i \in DOMAIN pushes' /\ pushes'[i] = pushes[i] /\ i # N /\ i # 0
      /\ \A i \in DOMAIN pushes' : i \in DOMAIN pushes \/ i = N
  BY <1>1, <1>4 DEF new
<1> HIDE DEF N
<1>6. sink' = [sink EXCEPT ![e].stream = N]
  BY DEF N
<1>7. /\ sink' \in Seq(Sinks) /\ Len(sink') = Len(sink) /\ DOMAIN sink' = DOMAIN sink
      /\ \A x \in DOMAIN sink : sink'[x].open = sink[x].open /\ (x # e => sink'[x].stream = sink[x].stream)
      /\ sink'[e].stream = N
  BY <1>1, <1>2, <1>6, StreamSet
<1>8. Grown(e, m)
  <2>1. \A i \in DOMAIN pushes' : i \notin DOMAIN pushes =>
          /\ pushes'[i].ids = {} /\ pushes'[i].epoch \in DOMAIN captures'
          /\ pushes'[i].q = <<>> \/ (pushes'[i].q = <<m>> /\ pushes'[i].epoch = e /\ e \in DOMAIN sink /\ sink[e].stream = 0)
    BY <1>3, <1>4, <1>5
  <2> QED BY <1>5, <2>1 DEF Grown
<1>9. CapturesKept
  BY <1>1, <1>7 DEF CapturesKept
<1>10. Clients'
  <2>1. ASSUME NEW x \in DOMAIN sink
        PROVE  /\ sink'[x].open => x = gate
               /\ sink'[x].stream # 0 => sink'[x].stream \in DOMAIN pushes' /\ pushes'[sink'[x].stream].epoch = x
    <3>1. CASE x = e
      BY <1>1, <1>4, <1>5, <1>7, <3>1 DEF Clients
    <3>2. CASE x # e
      BY <1>1, <1>5, <1>7, <3>2 DEF Clients
    <3> QED BY <3>1, <3>2
  <2> QED BY <1>7, <2>1 DEF Clients
<1>11. ASSUME NEW i \in DOMAIN pushes' PROVE StreamWired(i)'
  <2>1. CASE i \in DOMAIN pushes
    <3>1. StreamWired(i) /\ pushes'[i] = pushes[i]
      BY <1>1, <1>5, <2>1 DEF Wired
    <3>2. pushes[i].epoch \in DOMAIN sink
      BY <1>1, <3>1 DEF StreamWired
    <3>3. pushes[i].alive /\ sink[pushes[i].epoch].open => pushes[i].epoch # e
      BY <1>5, <2>1, <3>1 DEF StreamWired
    <3> QED BY <1>7, <3>1, <3>2, <3>3 DEF StreamWired, Session
  <2>2. CASE i = N
    <3>1. \A j \in DOMAIN q : q[j].ev # "eof" /\ q[j].id[2] = e
      OBVIOUS
    <3>2. sources[Session(e)].up
      BY DEF CanDial
    <3> QED BY <1>3, <1>4, <1>5, <1>7, <2>2, <3>1, <3>2 DEF StreamWired, Session
  <2> QED BY <1>5, <2>1, <2>2
<1> QED BY <1>4, <1>5, <1>7, <1>8, <1>9, <1>10, <1>11 DEF Wired

\* The message goes into the stream that there is.
LEMMA Queued ==
    ASSUME RelInv, NEW e \in DOMAIN sink, NEW m \in Messages, m.ev # "eof", m.id[2] = e, NEW i, i = sink[e].stream, i # 0, pushes[i].alive,
           pushes' = [pushes EXCEPT ![i].q = Append(@, m)], UNCHANGED <<gate, captures, sources, cut, sink>>
    PROVE  /\ pushes' \in Seq(Streams) /\ Grown(e, m) /\ CapturesKept /\ Clients' /\ Wired'
           /\ i \in DOMAIN pushes' /\ pushes'[i].q = Append(pushes[i].q, m)
<1>1. /\ RelTyped /\ Clients /\ Wired /\ pushes \in Seq(Streams) /\ i \in DOMAIN pushes /\ pushes[i].epoch = e
  BY DEF RelInv, RelTyped, Clients
<1> DEFINE q == Append(pushes[i].q, m) r == [pushes[i] EXCEPT !.q = q]
<1>2. pushes[i] \in Streams /\ pushes[i].q \in Seq(Messages)
  BY <1>1, StreamTyped
<1>3. q \in Seq(Messages)
  BY <1>2
<1>4. /\ \A j \in DOMAIN q : j \in DOMAIN pushes[i].q \/ q[j] = m
      /\ \A j \in DOMAIN pushes[i].q : q[j] = pushes[i].q[j]
  BY <1>2, Appended
<1>5. pushes' = [pushes EXCEPT ![i] = r]
  BY DEF q
<1> HIDE DEF q
<1>6. r \in Streams /\ r.epoch = e /\ r.alive = pushes[i].alive /\ r.ids = pushes[i].ids /\ r.q = q
  BY <1>1, <1>2, <1>3 DEF Streams
<1> HIDE DEF r
<1>7. pushes' \in Seq(Streams) /\ DOMAIN pushes' = DOMAIN pushes /\ pushes'[i] = r /\ \A j \in DOMAIN pushes : j # i => pushes'[j] = pushes[j]
  BY <1>1, <1>5, <1>6
<1>8. Grown(e, m)
  BY <1>1, <1>6, <1>7 DEF Grown, q
<1>9. CapturesKept
  BY DEF CapturesKept
<1>10. Clients'
  BY <1>1, <1>6, <1>7 DEF Clients
<1>11. ASSUME NEW j \in DOMAIN pushes PROVE StreamWired(j)'
  <2>1. CASE j # i
    BY <1>1, <1>7, <2>1 DEF Wired, StreamWired, Session
  <2>2. CASE j = i
    <3>1. StreamWired(i)
      BY <1>1 DEF Wired
    <3>2. \A l \in DOMAIN q : IF q[l].ev = "eof" THEN ~sink[e].open ELSE q[l].id[2] = e
      BY <1>1, <1>4, <3>1 DEF StreamWired
    <3>3. pushes'[j] = r /\ pushes[i].epoch = e /\ e \in DOMAIN captures /\ r.alive /\ sink[e].stream = j
      BY <1>1, <1>6, <1>7, <2>2, <3>1 DEF StreamWired
    <3>4. r.alive => sources[Session(e)].up
      BY <1>1, <1>6, <3>1 DEF StreamWired
    <3> QED BY <1>6, <3>2, <3>3, <3>4 DEF StreamWired, Session
  <2> QED BY <2>1, <2>2
<1> QED BY <1>1, <1>6, <1>7, <1>8, <1>9, <1>10, <1>11 DEF Wired, q

\* Nothing is sent.
LEMMA NotSent ==
    ASSUME RelInv, UNCHANGED <<gate, captures, sources, cut, sink, pushes>>, NEW e, NEW m
    PROVE  Grown(e, m) /\ CapturesKept /\ Clients' /\ Wired'
<1>1. Clients /\ Wired
  BY DEF RelInv
<1> QED BY <1>1 DEF Grown, CapturesKept, Clients, Wired, StreamWired, Session

\* The stream has broken: the client forgets it.
LEMMA Forgotten ==
    ASSUME RelInv, NEW e \in DOMAIN sink, NEW m, sink[e].stream # 0, ~pushes[sink[e].stream].alive,
           sink' = [sink EXCEPT ![e].stream = 0], UNCHANGED <<gate, captures, sources, cut, pushes>>
    PROVE  sink' \in Seq(Sinks) /\ Len(sink') = Len(sink) /\ Grown(e, m) /\ CapturesKept /\ Clients' /\ Wired' /\ ~Holding(e)'
<1>1. RelTyped /\ Clients /\ Wired /\ sink \in Seq(Sinks)
  BY DEF RelInv, RelTyped
<1>2. /\ sink' \in Seq(Sinks) /\ Len(sink') = Len(sink) /\ DOMAIN sink' = DOMAIN sink
      /\ \A x \in DOMAIN sink : sink'[x].open = sink[x].open /\ (x # e => sink'[x].stream = sink[x].stream)
      /\ sink'[e].stream = 0
  BY <1>1, StreamSet
<1> DEFINE i == sink[e].stream
<1>3. i \in DOMAIN pushes /\ pushes[i].epoch = e
  BY <1>1 DEF Clients
<1>4. sink[e].open => e \in cut
  BY <1>1, <1>3 DEF Wired, StreamWired
<1>5. CapturesKept
  BY <1>2, <1>4 DEF CapturesKept
<1>6. Clients'
  BY <1>1, <1>2 DEF Clients
<1>7. ASSUME NEW j \in DOMAIN pushes PROVE StreamWired(j)'
  <2>1. StreamWired(j) /\ pushes[j].epoch \in DOMAIN sink
    BY <1>1 DEF Wired, StreamWired, RelTyped
  <2>2. pushes[j].alive /\ sink[pushes[j].epoch].open => pushes[j].epoch # e
    BY <2>1 DEF StreamWired
  <2> QED BY <1>2, <2>1, <2>2 DEF StreamWired, Session
<1>8. ~Holding(e)'
  BY <1>2, <1>4 DEF Holding
<1> QED BY <1>2, <1>5, <1>6, <1>7, <1>8 DEF Grown, Wired

\* What Send does to streams and clients, whether it dials or finds the stream full.
LEMMA SendKeeps ==
    ASSUME RelInv, NEW e \in DOMAIN sink, NEW m \in Messages, m.ev # "eof", m.id[2] = e, Send(e, m),
           UNCHANGED <<gate, captures, sources, cut>>
    PROVE  /\ pushes' \in Seq(Streams) /\ sink' \in Seq(Sinks) /\ Len(sink') = Len(sink)
           /\ Grown(e, m) /\ CapturesKept /\ Clients' /\ Wired'
           /\ Holding(e)' /\ m.ev = "open" => sink'[e].stream # 0 /\ Opens(pushes'[sink'[e].stream].q, m.id)
<1> DEFINE i == sink[e].stream
<1>1. RelTyped /\ pushes \in Seq(Streams) /\ sink \in Seq(Sinks) /\ Clients
  BY DEF RelInv, RelTyped
<1>2. CASE i = 0 /\ CanDial(e) /\ pushes' = Append(pushes, NewStream(e, <<m>>)) /\ sink' = [sink EXCEPT ![e].stream = Len(pushes) + 1]
  <2>1. /\ pushes' \in Seq(Streams) /\ sink' \in Seq(Sinks) /\ Len(sink') = Len(sink)
        /\ Grown(e, m) /\ CapturesKept /\ Clients' /\ Wired'
        /\ sink'[e].stream \in DOMAIN pushes' /\ pushes'[sink'[e].stream].q = <<m>>
    BY <1>2, Dialled
  <2>2. m.ev = "open" => Opens(<<m>>, m.id)
    BY DEF Opens
  <2>3. sink'[e].stream # 0
    BY <2>1
  <2> QED BY <2>1, <2>2, <2>3
<1>3. CASE i = 0 /\ ~CanDial(e) /\ UNCHANGED pushVars
  <2>1. UNCHANGED <<gate, captures, sources, cut, sink, pushes>>
    BY <1>3 DEF pushVars
  <2>2. ~Holding(e)'
    BY <1>3, <2>1 DEF Holding, CanDial, Session
  <2> QED BY <1>1, <2>1, <2>2, NotSent
<1>4. CASE i # 0 /\ pushes[i].alive /\ pushes' = [pushes EXCEPT ![i].q = Append(@, m)] /\ UNCHANGED sink
  <2>1. /\ pushes' \in Seq(Streams) /\ Grown(e, m) /\ CapturesKept /\ Clients' /\ Wired'
        /\ i \in DOMAIN pushes' /\ pushes'[i].q = Append(pushes[i].q, m)
    BY <1>4, Queued
  <2>2. pushes[i].q \in Seq(Messages)
    BY <1>1, <1>4, StreamTyped DEF Clients
  <2>3. m.ev = "open" => Opens(Append(pushes[i].q, m), m.id)
    <3>1. Len(pushes[i].q) + 1 \in DOMAIN Append(pushes[i].q, m) /\ Append(pushes[i].q, m)[Len(pushes[i].q) + 1] = m
      BY <2>2, Appended
    <3> QED BY <3>1 DEF Opens
  <2> QED BY <1>1, <1>4, <2>1, <2>3
<1>5. CASE i # 0 /\ ~pushes[i].alive /\ sink' = [sink EXCEPT ![e].stream = 0] /\ UNCHANGED pushes
  <2>1. sink' \in Seq(Sinks) /\ Len(sink') = Len(sink) /\ Grown(e, m) /\ CapturesKept /\ Clients' /\ Wired' /\ ~Holding(e)'
    BY <1>5, Forgotten
  <2> QED BY <1>1, <1>5, <2>1
<1> QED BY <1>2, <1>3, <1>4, <1>5 DEF Send

\* What is announced stays so, and what is new is announced.
LEMMA AnnouncedKept ==
    ASSUME RelInv, RelTyped', NEW e, NEW m \in Messages, Grown(e, m), CapturesKept, UNCHANGED <<sources, cut>>
    PROVE  /\ (\A k \in Phones : conn'[k].opened /\ conn'[k].at # "done" =>
                 \/ conn[k].opened /\ conn[k].at # "done" /\ conn'[k].epoch = conn[k].epoch
                 \/ \A x : x = conn'[k].epoch /\ Holding(x)' => Announced(k, x)')
              => ConnsAnnounced'
           /\ (\A f \in Phones \X Directions : fwd'[f].at = "send" =>
                 \/ fwd[f].at = "send" /\ fwd'[f].st = fwd[f].st
                 \/ \A x : x = fwd'[f].st /\ Holding(x)' => Announced(f[1], x)')
              => ChunksAnnounced'
<1>1. RelTyped /\ Known /\ ConnsAnnounced /\ ChunksAnnounced
  BY DEF RelInv
<1>2. ASSUME NEW x, x \in Nat, x <= Len(captures), Holding(x)' PROVE x \in DOMAIN sink
  <2>1. x \in DOMAIN sink' /\ sink' \in Seq(Sinks) /\ sink \in Seq(Sinks) /\ Len(sink) = Len(captures)
    BY <1>1, <1>2 DEF Holding, RelTyped
  <2>2. DOMAIN sink' = 1..Len(sink') /\ Len(sink') \in Nat /\ DOMAIN sink = 1..Len(sink)
    BY <2>1
  <2>3. x >= 1
    BY <2>1, <2>2
  <2> QED BY <1>2, <2>1, <2>2, <2>3
<1>3. ASSUME NEW x, x \in Nat, x <= Len(captures), Holding(x)' PROVE Holding(x)
  BY <1>2, <1>3, StillHolding
<1>4. ASSUME NEW k \in Phones, NEW x, x = conn[k].epoch, conn[k].opened, conn[k].at # "done", Holding(x)'
      PROVE  Announced(k, x)'
  <2>1. x \in Nat /\ x <= Len(captures)
    BY <1>1, <1>4, ConnTyped DEF Known
  <2>2. x \in DOMAIN sink /\ Holding(x)
    BY <1>2, <1>3, <1>4, <2>1
  <2>3. Announced(k, x)
    BY <1>1, <1>4, <2>2 DEF ConnsAnnounced
  <2> QED BY <1>4, <2>2, <2>3, AnnouncedOn
<1>5. ASSUME NEW f \in Phones \X Directions, NEW x, x = fwd[f].st, fwd[f].at = "send", Holding(x)'
      PROVE  Announced(f[1], x)'
  <2>1. x \in Nat /\ x <= Len(captures)
    BY <1>1, <1>5, FwdTyped DEF Known
  <2>2. x \in DOMAIN sink /\ Holding(x)
    BY <1>2, <1>3, <1>5, <2>1
  <2>3. Announced(f[1], x)
    BY <1>1, <1>5, <2>2 DEF ChunksAnnounced
  <2> QED BY <1>5, <2>2, <2>3, AnnouncedOn
<1>6. ASSUME \A k \in Phones : conn'[k].opened /\ conn'[k].at # "done" =>
                 \/ conn[k].opened /\ conn[k].at # "done" /\ conn'[k].epoch = conn[k].epoch
                 \/ \A x : x = conn'[k].epoch /\ Holding(x)' => Announced(k, x)'
      PROVE  ConnsAnnounced'
  <2>1. \A k \in Phones : \A x : x = conn'[k].epoch /\ conn'[k].opened /\ conn'[k].at # "done" /\ Holding(x)' => Announced(k, x)'
    BY <1>4, <1>6
  <2> QED BY <2>1 DEF ConnsAnnounced, Holding, Announced, Session
<1>7. ASSUME \A f \in Phones \X Directions : fwd'[f].at = "send" =>
                 \/ fwd[f].at = "send" /\ fwd'[f].st = fwd[f].st
                 \/ \A x : x = fwd'[f].st /\ Holding(x)' => Announced(f[1], x)'
      PROVE  ChunksAnnounced'
  <2>1. \A f \in Phones \X Directions : \A x : x = fwd'[f].st /\ fwd'[f].at = "send" /\ Holding(x)' => Announced(f[1], x)'
    BY <1>5, <1>7
  <2> QED BY <2>1 DEF ChunksAnnounced, Holding, Announced, Session
<1> QED BY <1>6, <1>7

\* begin: in the epoch it was given, the connection is announced before it returns.
LEMMA BeginKeeps ==
    ASSUME RelInv, NEW k \in Phones, NEW e \in 0..Len(captures), begin(k, e, "relay"), conn[k].at # "done",
           UNCHANGED <<gate, captures, sources, cut>>
    PROVE  /\ pushes' \in Seq(Streams) /\ sink' \in Seq(Sinks) /\ Len(sink') = Len(sink)
           /\ \E m \in Messages : m.ev \in {"open", "eof"} /\ Grown(e, m)
           /\ CapturesKept /\ Clients' /\ Wired'
           /\ conn' \in [Phones -> ConnRecs] /\ \A j \in Phones : j # k => conn'[j] = conn[j]
           /\ conn'[k].at = "relay" /\ conn'[k].st = 0 /\ conn'[k].epoch \in {conn[k].epoch, e}
           /\ \/ conn[k].opened /\ conn'[k].epoch = conn[k].epoch
              \/ \A x : x = conn'[k].epoch /\ Holding(x)' => Announced(k, x)'
              \/ ~conn'[k].opened
           /\ e # 0 /\ allow(k, e) =>
                conn'[k].epoch = e /\ conn'[k].opened /\ \A x : x = e /\ Holding(x)' => Announced(k, x)'
<1>1. RelTyped /\ pushes \in Seq(Streams) /\ sink \in Seq(Sinks) /\ Len(sink) = Len(captures) /\ Len(sink) \in Nat
      /\ conn \in [Phones -> ConnRecs] /\ Known
  BY DEF RelInv, RelTyped
<1>2. conn[k] \in ConnRecs /\ conn[k].epoch \in Nat
  BY <1>1, ConnTyped
<1>3. [ev |-> "eof"] \in Messages
  BY DEF Messages
<1>4. CASE (e = 0 \/ ~allow(k, e)) /\ conn' = [conn EXCEPT ![k].at = "relay", ![k].st = 0] /\ UNCHANGED pushVars
  <2>1. UNCHANGED <<gate, captures, sources, cut, sink, pushes>>
    BY <1>4 DEF pushVars
  <2>2. Grown(e, [ev |-> "eof"]) /\ CapturesKept /\ Clients' /\ Wired'
    BY <2>1, NotSent
  <2>3. /\ conn' \in [Phones -> ConnRecs] /\ \A j \in Phones : j # k => conn'[j] = conn[j]
        /\ conn'[k].at = "relay" /\ conn'[k].st = 0 /\ conn'[k].epoch = conn[k].epoch /\ conn'[k].opened = conn[k].opened
    <3> DEFINE r == [conn[k] EXCEPT !.at = "relay", !.st = 0]
    <3>1. r \in ConnRecs /\ r.at = "relay" /\ r.st = 0 /\ r.epoch = conn[k].epoch /\ r.opened = conn[k].opened
      BY <1>2 DEF ConnRecs
    <3>2. conn' = [conn EXCEPT ![k] = r]
      BY <1>4
    <3> HIDE DEF r
    <3> QED BY <1>1, <3>1, <3>2
  <2>4. conn[k].opened \/ ~conn'[k].opened
    BY <2>3
  <2>5. \E m \in Messages : m.ev \in {"open", "eof"} /\ Grown(e, m)
    BY <1>3, <2>2
  <2> QED BY <1>1, <1>4, <2>1, <2>2, <2>3, <2>4, <2>5
<1>5. ASSUME e # 0, allow(k, e),
             NEW c, c = NewEpoch(conn[k], e),
             conn' = [conn EXCEPT ![k] = [c EXCEPT !.at = "relay", !.st = 0, !.opened = TRUE]],
             IF c.opened THEN UNCHANGED pushVars ELSE Send(e, Event("open", k, e, "", 0))
      PROVE  /\ pushes' \in Seq(Streams) /\ sink' \in Seq(Sinks) /\ Len(sink') = Len(sink)
             /\ \E m \in Messages : m.ev \in {"open", "eof"} /\ Grown(e, m)
             /\ CapturesKept /\ Clients' /\ Wired'
             /\ conn' \in [Phones -> ConnRecs] /\ \A j \in Phones : j # k => conn'[j] = conn[j]
             /\ conn'[k].at = "relay" /\ conn'[k].st = 0 /\ conn'[k].epoch = e /\ conn'[k].opened
             /\ \A x : x = e /\ Holding(x)' => Announced(k, x)'
  <2>1. e \in DOMAIN sink /\ e \in Epochs /\ e \in Nat
    <3>1. e # 0
      BY <1>5
    <3>2. e \in 1..Len(sink)
      BY <1>1, <3>1
    <3>3. DOMAIN sink = 1..Len(sink)
      BY <1>1
    <3> QED BY <1>1, <3>1, <3>2, <3>3 DEF Epochs
  <2>2. c \in ConnRecs /\ c.epoch = e /\ (c.opened => conn[k].opened /\ conn[k].epoch = e)
    BY <1>2, <1>5, <2>1 DEF NewEpoch, ConnRecs
  <2>3. /\ conn' \in [Phones -> ConnRecs] /\ \A j \in Phones : j # k => conn'[j] = conn[j]
        /\ conn'[k].at = "relay" /\ conn'[k].st = 0 /\ conn'[k].epoch = e /\ conn'[k].opened
    <3> DEFINE r == [c EXCEPT !.at = "relay", !.st = 0, !.opened = TRUE]
    <3>1. r \in ConnRecs /\ r.at = "relay" /\ r.st = 0 /\ r.epoch = e /\ r.opened = TRUE
      BY <2>2 DEF ConnRecs
    <3>2. conn' = [conn EXCEPT ![k] = r]
      BY <1>5
    <3> HIDE DEF r
    <3> QED BY <1>1, <3>1, <3>2
  <2>4. CASE c.opened
    <3>1. UNCHANGED <<gate, captures, sources, cut, sink, pushes>>
      BY <1>5, <2>4 DEF pushVars
    <3>2. Grown(e, [ev |-> "eof"]) /\ CapturesKept /\ Clients' /\ Wired'
      BY <3>1, NotSent
    <3>3. \E m \in Messages : m.ev \in {"open", "eof"} /\ Grown(e, m)
      BY <1>3, <3>2
    <3>4. ASSUME NEW x, x = e, Holding(x)' PROVE Announced(k, x)'
      <4>1. Holding(x)
        BY <2>1, <3>2, <3>4, StillHolding, <3>1
      <4>2. Announced(k, x)
        BY <2>2, <2>4, <3>4, <4>1 DEF RelInv, ConnsAnnounced
      <4> QED BY <2>1, <3>1, <3>2, <3>4, <4>2, <1>3, AnnouncedOn
    <3> QED BY <1>1, <2>3, <3>1, <3>2, <3>3, <3>4
  <2>5. CASE ~c.opened
    <3> DEFINE m == Event("open", k, e, "", 0)
    <3>1. m \in Messages
      BY <2>1, MadeMessages
    <3>2. m.ev = "open" /\ m.id = <<k, e>> /\ m.id[2] = e
      BY DEF Event, ConnId
    <3>3. Send(e, m)
      BY <1>5, <2>5
    <3> HIDE DEF m
    <3>4. /\ pushes' \in Seq(Streams) /\ sink' \in Seq(Sinks) /\ Len(sink') = Len(sink)
          /\ Grown(e, m) /\ CapturesKept /\ Clients' /\ Wired'
          /\ Holding(e)' => sink'[e].stream # 0 /\ Opens(pushes'[sink'[e].stream].q, <<k, e>>)
      BY <2>1, <3>1, <3>2, <3>3, SendKeeps
    <3>5. \E w \in Messages : w.ev \in {"open", "eof"} /\ Grown(e, w)
      BY <3>1, <3>2, <3>4
    <3>6. ASSUME NEW x, x = e, Holding(x)' PROVE Announced(k, x)'
      BY <3>4, <3>6 DEF Announced
    <3> QED BY <2>3, <3>4, <3>5, <3>6
  <2> QED BY <2>4, <2>5
<1>6. CASE e # 0 /\ allow(k, e)
  <2>1. PICK c : c = NewEpoch(conn[k], e)
    OBVIOUS
  <2>2. /\ conn' = [conn EXCEPT ![k] = [c EXCEPT !.at = "relay", !.st = 0, !.opened = TRUE]]
        /\ IF c.opened THEN UNCHANGED pushVars ELSE Send(e, Event("open", k, e, "", 0))
    BY <1>6, <2>1 DEF begin
  <2>3. /\ pushes' \in Seq(Streams) /\ sink' \in Seq(Sinks) /\ Len(sink') = Len(sink)
        /\ \E m \in Messages : m.ev \in {"open", "eof"} /\ Grown(e, m)
        /\ CapturesKept /\ Clients' /\ Wired'
        /\ conn' \in [Phones -> ConnRecs] /\ \A j \in Phones : j # k => conn'[j] = conn[j]
        /\ conn'[k].at = "relay" /\ conn'[k].st = 0 /\ conn'[k].epoch = e /\ conn'[k].opened
        /\ \A x : x = e /\ Holding(x)' => Announced(k, x)'
    BY <1>5, <1>6, <2>1, <2>2
  <2> QED BY <2>3
<1> QED BY <1>4, <1>6 DEF begin

-----------------------------------------------------------------------------
(***************************************************************************)
(* The steps of the relay.                                                 *)
(***************************************************************************)

\* A step of a connection: the captures stay, and nobody looks beyond them.
LEMMA ConnectionStep ==
    ASSUME RelInv, pushes' \in Seq(Streams), sink' \in Seq(Sinks), Len(sink') = Len(sink),
           conn' \in [Phones -> ConnRecs], fwd' \in [Phones \X Directions -> FwdRecs],
           UNCHANGED <<gate, captures, sources, lost, cut>>,
           NEW e, NEW m \in Messages, Grown(e, m), CapturesKept, Clients', Wired', MovesOn, Fits(e, m), Relaying',
           \A k \in Phones : conn'[k].st <= Len(captures) /\ conn'[k].epoch <= Len(captures),
           \A f \in Phones \X Directions : fwd'[f].st <= Len(captures),
           \A k \in Phones : conn'[k].opened /\ conn'[k].at # "done" =>
                 \/ conn[k].opened /\ conn[k].at # "done" /\ conn'[k].epoch = conn[k].epoch
                 \/ \A x : x = conn'[k].epoch /\ Holding(x)' => Announced(k, x)',
           \A f \in Phones \X Directions : fwd'[f].at = "send" =>
                 \/ fwd[f].at = "send" /\ fwd'[f].st = fwd[f].st
                 \/ \A x : x = fwd'[f].st /\ Holding(x)' => Announced(f[1], x)'
    PROVE  RelInv'
<1>1. RelTyped /\ Known
  BY DEF RelInv
<1>2. RelTyped'
  BY <1>1 DEF RelTyped
<1>3. Known'
  BY <1>1 DEF Known
<1>4. ConnsAnnounced' /\ ChunksAnnounced'
  BY <1>2, AnnouncedKept
<1> QED BY <1>2, <1>3, <1>4, AgentStep

\* A step that sends nothing.
LEMMA QuietStep ==
    ASSUME RelInv, UNCHANGED <<gate, captures, sink, pushes, sources, lost, cut>>,
           conn' \in [Phones -> ConnRecs], fwd' \in [Phones \X Directions -> FwdRecs], MovesOn, Relaying',
           \A k \in Phones : conn'[k].st <= Len(captures) /\ conn'[k].epoch <= Len(captures),
           \A f \in Phones \X Directions : fwd'[f].st <= Len(captures),
           \A k \in Phones : conn'[k].opened /\ conn'[k].at # "done" =>
                 conn[k].opened /\ conn[k].at # "done" /\ conn'[k].epoch = conn[k].epoch,
           \A f \in Phones \X Directions : fwd'[f].at = "send" => fwd[f].at = "send" /\ fwd'[f].st = fwd[f].st
    PROVE  RelInv'
<1> DEFINE m == [ev |-> "eof"]
<1>1. m \in Messages /\ Fits(0, m)
  BY DEF Messages, Fits
<1> HIDE DEF m
<1>2. Grown(0, m) /\ CapturesKept /\ Clients' /\ Wired'
  BY NotSent
<1>3. pushes' \in Seq(Streams) /\ sink' \in Seq(Sinks) /\ Len(sink') = Len(sink)
  BY DEF RelInv, RelTyped
<1> QED BY <1>1, <1>2, <1>3, ConnectionStep

\* The state by its parts.
LEMMA StateParts ==
    ASSUME RelInv
    PROVE  /\ conn \in [Phones -> ConnRecs] /\ fwd \in [Phones \X Directions -> FwdRecs]
           /\ gate \in 0..Len(captures) /\ Len(captures) \in Nat /\ Len(sink) = Len(captures) /\ DOMAIN sink = 1..Len(captures)
           /\ \A k \in Phones : conn[k].st <= Len(captures) /\ conn[k].epoch <= Len(captures)
           /\ \A f \in Phones \X Directions : fwd[f].st <= Len(captures) /\ fwd[f].n \in Nat
           /\ RelTyped /\ Relaying
<1>1. RelTyped /\ Known /\ Relaying
  BY DEF RelInv
<1> QED BY <1>1, FwdTyped DEF RelTyped, Known

\* One connection, or one of its directions, changes.
LEMMA ConnSet ==
    ASSUME conn \in [Phones -> ConnRecs], NEW k \in Phones, NEW a \in {"new", "announce", "relay", "end", "done"}, NEW n \in Nat,
           conn' = [conn EXCEPT ![k].at = a, ![k].st = n] \/ (conn' = [conn EXCEPT ![k].at = a] /\ n = conn[k].st)
    PROVE  /\ conn' \in [Phones -> ConnRecs] /\ \A j \in Phones : j # k => conn'[j] = conn[j]
           /\ conn'[k].at = a /\ conn'[k].st = n /\ conn'[k].epoch = conn[k].epoch /\ conn'[k].opened = conn[k].opened
<1> DEFINE r == [conn[k] EXCEPT !.at = a, !.st = n]
<1>1. conn[k] \in ConnRecs
  OBVIOUS
<1>2. r \in ConnRecs /\ r.at = a /\ r.st = n /\ r.epoch = conn[k].epoch /\ r.opened = conn[k].opened
  BY <1>1 DEF ConnRecs
<1>3. conn' = [conn EXCEPT ![k] = r]
  <2>1. CASE conn' = [conn EXCEPT ![k].at = a, ![k].st = n]
    BY <2>1
  <2>2. CASE conn' = [conn EXCEPT ![k].at = a] /\ n = conn[k].st
    <3>1. r = [conn[k] EXCEPT !.at = a]
      BY <1>1, <2>2 DEF ConnRecs
    <3> HIDE DEF r
    <3> QED BY <2>2, <3>1
  <2> QED BY <2>1, <2>2
<1> HIDE DEF r
<1> QED BY <1>2, <1>3

\* A forwarding goroutine moves on.
LEMMA FwdSet ==
    ASSUME fwd \in [Phones \X Directions -> FwdRecs], NEW f \in Phones \X Directions,
           NEW a \in {"read", "begin", "send", "stopped"}, fwd' = [fwd EXCEPT ![f].at = a]
    PROVE  /\ fwd' \in [Phones \X Directions -> FwdRecs] /\ \A g \in Phones \X Directions : g # f => fwd'[g] = fwd[g]
           /\ fwd'[f].at = a /\ fwd'[f].st = fwd[f].st /\ fwd'[f].n = fwd[f].n
<1> DEFINE r == [fwd[f] EXCEPT !.at = a]
<1>1. fwd[f] \in FwdRecs
  OBVIOUS
<1>2. r \in FwdRecs /\ r.at = a /\ r.st = fwd[f].st /\ r.n = fwd[f].n
  BY <1>1 DEF FwdRecs
<1>3. fwd' = [fwd EXCEPT ![f] = r]
  OBVIOUS
<1> HIDE DEF r
<1> QED BY <1>2, <1>3

\* A phone connects.
LEMMA AcceptsStep ==
    ASSUME RelInv, NEW k \in Phones, Accepts(k)
    PROVE  RelInv'
<1>1. /\ conn[k].at = "new" /\ UNCHANGED <<gate, captures, sink, pushes, fwd, sources, lost, cut>>
      /\ conn' = [conn EXCEPT ![k].at = "announce", ![k].st = gate] \/ conn' = [conn EXCEPT ![k].at = "done"]
  BY DEF Accepts, gateVars, pushVars
<1>2. /\ conn \in [Phones -> ConnRecs] /\ fwd \in [Phones \X Directions -> FwdRecs]
      /\ gate \in Nat /\ gate <= Len(captures) /\ Relaying /\ conn[k].st \in Nat
      /\ \A j \in Phones : conn[j].st <= Len(captures) /\ conn[j].epoch <= Len(captures)
      /\ \A f \in Phones \X Directions : fwd[f].st <= Len(captures)
  BY StateParts, ConnTyped
<1>3. PICK a \in {"announce", "done"}, n \in Nat :
        /\ n <= Len(captures)
        /\ conn' = [conn EXCEPT ![k].at = a, ![k].st = n] \/ (conn' = [conn EXCEPT ![k].at = a] /\ n = conn[k].st)
  BY <1>1, <1>2
<1>4. /\ conn' \in [Phones -> ConnRecs] /\ \A j \in Phones : j # k => conn'[j] = conn[j]
      /\ conn'[k].at = a /\ conn'[k].st = n /\ conn'[k].epoch = conn[k].epoch /\ conn'[k].opened = conn[k].opened
  BY ZenonT(30), <1>2, <1>3, ConnSet
<1>5. MovesOn
  BY <1>1, <1>2, <1>4, FwdTyped DEF MovesOn, RelInv
<1>6. Relaying'
  BY <1>1, <1>2, <1>4 DEF Relaying
<1>7. \A j \in Phones : conn'[j].opened /\ conn'[j].at # "done" => conn[j].opened /\ conn[j].at # "done" /\ conn'[j].epoch = conn[j].epoch
  BY <1>1, <1>4
<1> QED BY <1>1, <1>2, <1>3, <1>4, <1>5, <1>6, <1>7, QuietStep

\* Both directions have stopped.
LEMMA BothStoppedStep ==
    ASSUME RelInv, NEW k \in Phones, BothStopped(k)
    PROVE  RelInv'
<1>1. /\ conn[k].at = "relay" /\ UNCHANGED <<gate, captures, sink, pushes, fwd, sources, lost, cut>>
      /\ \A d \in Directions : fwd[<<k, d>>].at = "stopped"
      /\ conn' = [conn EXCEPT ![k].at = "end", ![k].st = gate]
  BY DEF BothStopped, gateVars, pushVars
<1>2. /\ conn \in [Phones -> ConnRecs] /\ fwd \in [Phones \X Directions -> FwdRecs]
      /\ gate \in Nat /\ gate <= Len(captures) /\ Relaying
      /\ \A j \in Phones : conn[j].st <= Len(captures) /\ conn[j].epoch <= Len(captures)
      /\ \A f \in Phones \X Directions : fwd[f].st <= Len(captures)
  BY StateParts
<1>3. /\ conn' \in [Phones -> ConnRecs] /\ \A j \in Phones : j # k => conn'[j] = conn[j]
      /\ conn'[k].at = "end" /\ conn'[k].st = gate /\ conn'[k].epoch = conn[k].epoch /\ conn'[k].opened = conn[k].opened
  BY <1>1, <1>2, ConnSet
<1>4. MovesOn
  BY <1>1, <1>2, <1>3, FwdTyped DEF MovesOn, RelInv
<1>5. Relaying'
  <2>1. ASSUME NEW f \in Phones \X Directions, fwd[f].at \in {"begin", "send"} PROVE conn'[f[1]].at = "relay"
    <3>1. f[1] \in Phones /\ f[1] # k
      BY <1>1, <2>1
    <3> QED BY <1>2, <1>3, <2>1, <3>1 DEF Relaying
  <2> QED BY <1>1, <1>2, <2>1 DEF Relaying
<1>6. \A j \in Phones : conn'[j].opened /\ conn'[j].at # "done" => conn[j].opened /\ conn[j].at # "done" /\ conn'[j].epoch = conn[j].epoch
  BY <1>1, <1>3
<1> QED BY <1>1, <1>2, <1>3, <1>4, <1>5, <1>6, QuietStep

\* A chunk is read.
LEMMA ReadsStep ==
    ASSUME RelInv, NEW k \in Phones, NEW d \in Directions, Reads(k, d)
    PROVE  RelInv'
<1> DEFINE f == <<k, d>> r == [at |-> "begin", st |-> gate, n |-> fwd[f].n + 1]
<1>1. /\ conn[k].at = "relay" /\ fwd[f].at = "read" /\ UNCHANGED <<gate, captures, sink, pushes, conn, sources, lost, cut>>
      /\ fwd' = [fwd EXCEPT ![f] = r] /\ f \in Phones \X Directions
  BY DEF Reads, gateVars, pushVars
<1>2. /\ conn \in [Phones -> ConnRecs] /\ fwd \in [Phones \X Directions -> FwdRecs]
      /\ gate \in Nat /\ gate <= Len(captures) /\ Relaying
      /\ \A j \in Phones : conn[j].st <= Len(captures) /\ conn[j].epoch <= Len(captures)
      /\ \A g \in Phones \X Directions : fwd[g].st <= Len(captures) /\ fwd[g].n \in Nat
  BY StateParts
<1>3. r \in FwdRecs /\ r.at = "begin" /\ r.st = gate /\ r.n = fwd[f].n + 1
  BY <1>1, <1>2 DEF FwdRecs
<1>4. f[1] = k
  OBVIOUS
<1> HIDE DEF r, f
<1>5. /\ fwd' \in [Phones \X Directions -> FwdRecs] /\ fwd'[f] = r /\ \A g \in Phones \X Directions : g # f => fwd'[g] = fwd[g]
  BY <1>1, <1>2, <1>3
<1>6. MovesOn
  <2>1. ASSUME NEW g \in Phones \X Directions
        PROVE  fwd[g].n <= fwd'[g].n /\ (fwd'[g].at \in {"begin", "send"} => fwd[g].n < fwd'[g].n \/ fwd[g].at \in {"begin", "send"})
    <3>1. CASE g = f
      BY <1>2, <1>3, <1>5, <3>1
    <3>2. CASE g # f
      BY <1>2, <1>5, <3>2
    <3> QED BY <3>1, <3>2
  <2> QED BY <1>1, <2>1 DEF MovesOn
<1>7. Relaying'
  BY <1>1, <1>2, <1>3, <1>4, <1>5 DEF Relaying
<1>8. \A g \in Phones \X Directions : fwd'[g].st <= Len(captures) /\ (fwd'[g].at = "send" => fwd[g].at = "send" /\ fwd'[g].st = fwd[g].st)
  BY <1>2, <1>3, <1>5
<1>9. \A j \in Phones : conn'[j] = conn[j]
  BY <1>1
<1> QED BY <1>1, <1>2, <1>5, <1>6, <1>7, <1>8, <1>9, QuietStep

\* A direction ends.
LEMMA ForwardEndsStep ==
    ASSUME RelInv, NEW k \in Phones, NEW d \in Directions, ForwardEnds(k, d)
    PROVE  RelInv'
<1> DEFINE f == <<k, d>>
<1>1. /\ UNCHANGED <<gate, captures, sink, pushes, conn, sources, lost, cut>>
      /\ fwd' = [fwd EXCEPT ![f].at = "stopped"] /\ f \in Phones \X Directions
  BY DEF ForwardEnds, gateVars, pushVars
<1> HIDE DEF f
<1>2. /\ conn \in [Phones -> ConnRecs] /\ fwd \in [Phones \X Directions -> FwdRecs] /\ Relaying
      /\ \A j \in Phones : conn[j].st <= Len(captures) /\ conn[j].epoch <= Len(captures)
      /\ \A g \in Phones \X Directions : fwd[g].st <= Len(captures) /\ fwd[g].n \in Nat
  BY StateParts
<1>3. /\ fwd' \in [Phones \X Directions -> FwdRecs] /\ \A g \in Phones \X Directions : g # f => fwd'[g] = fwd[g]
      /\ fwd'[f].at = "stopped" /\ fwd'[f].st = fwd[f].st /\ fwd'[f].n = fwd[f].n
  BY <1>1, <1>2, FwdSet
<1>4. \A g \in Phones \X Directions : fwd'[g].n = fwd[g].n /\ fwd'[g].st = fwd[g].st /\ (fwd'[g].at = fwd[g].at \/ fwd'[g].at = "stopped")
  BY <1>3
<1>5. MovesOn
  BY <1>1, <1>2, <1>4 DEF MovesOn
<1>6. Relaying'
  BY <1>1, <1>2, <1>4 DEF Relaying
<1>7. \A g \in Phones \X Directions : fwd'[g].st <= Len(captures) /\ (fwd'[g].at = "send" => fwd[g].at = "send" /\ fwd'[g].st = fwd[g].st)
  BY <1>2, <1>4
<1>8. \A j \in Phones : conn'[j] = conn[j]
  BY <1>1
<1> QED BY <1>1, <1>2, <1>3, <1>5, <1>6, <1>7, <1>8, QuietStep

\* The connection loads the gate and announces itself.
LEMMA handleConnStep ==
    ASSUME RelInv, NEW k \in Phones, handleConn(k)
    PROVE  RelInv'
<1>1. conn[k].at = "announce" /\ begin(k, conn[k].st, "relay") /\ UNCHANGED <<gate, captures, fwd, sources, lost, cut>>
  BY DEF handleConn, gateVars
<1>2. /\ conn \in [Phones -> ConnRecs] /\ fwd \in [Phones \X Directions -> FwdRecs] /\ Relaying
      /\ \A j \in Phones : conn[j].st <= Len(captures) /\ conn[j].epoch <= Len(captures)
      /\ \A g \in Phones \X Directions : fwd[g].st <= Len(captures) /\ fwd[g].n \in Nat
      /\ conn[k].st \in 0..Len(captures) /\ Len(captures) \in Nat
  BY StateParts, ConnTyped
<1>3. PICK e \in 0..Len(captures) : e = conn[k].st
  BY <1>2
<1>4. /\ pushes' \in Seq(Streams) /\ sink' \in Seq(Sinks) /\ Len(sink') = Len(sink)
      /\ \E m \in Messages : m.ev \in {"open", "eof"} /\ Grown(e, m)
      /\ CapturesKept /\ Clients' /\ Wired'
      /\ conn' \in [Phones -> ConnRecs] /\ \A j \in Phones : j # k => conn'[j] = conn[j]
      /\ conn'[k].at = "relay" /\ conn'[k].st = 0 /\ conn'[k].epoch \in {conn[k].epoch, e}
      /\ \/ conn[k].opened /\ conn'[k].epoch = conn[k].epoch
         \/ \A x : x = conn'[k].epoch /\ Holding(x)' => Announced(k, x)'
         \/ ~conn'[k].opened
  BY <1>1, <1>3, BeginKeeps
<1>5. PICK m \in Messages : m.ev \in {"open", "eof"} /\ Grown(e, m)
  BY <1>4
<1>6. Fits(e, m)
  BY <1>5 DEF Fits
<1>7. MovesOn
  BY <1>1, <1>2, <1>4 DEF MovesOn
<1>8. Relaying'
  BY <1>1, <1>2, <1>4 DEF Relaying
<1>9. \A j \in Phones : conn'[j].st <= Len(captures) /\ conn'[j].epoch <= Len(captures)
  BY <1>2, <1>3, <1>4
<1>10. \A j \in Phones : conn'[j].opened /\ conn'[j].at # "done" =>
         \/ conn[j].opened /\ conn[j].at # "done" /\ conn'[j].epoch = conn[j].epoch
         \/ \A x : x = conn'[j].epoch /\ Holding(x)' => Announced(j, x)'
  BY <1>1, <1>4
<1> QED BY <1>1, <1>2, <1>4, <1>5, <1>6, <1>7, <1>8, <1>9, <1>10, ConnectionStep

\* A forwarder loads the gate and begins an epoch.
LEMMA forwardStep ==
    ASSUME RelInv, NEW k \in Phones, NEW d \in Directions, forward(k, d)
    PROVE  RelInv'
<1> DEFINE f == <<k, d>>
<1>1. /\ fwd[f].at = "begin" /\ begin(k, fwd[f].st, "relay") /\ UNCHANGED <<gate, captures, sources, lost, cut>>
      /\ fwd' = [fwd EXCEPT ![f].at = IF fwd[f].st # 0 /\ allow(k, fwd[f].st) THEN "send" ELSE "read"]
      /\ f \in Phones \X Directions /\ f[1] = k
  BY DEF forward, gateVars
<1> HIDE DEF f
<1>2. /\ conn \in [Phones -> ConnRecs] /\ fwd \in [Phones \X Directions -> FwdRecs] /\ Relaying
      /\ \A j \in Phones : conn[j].st <= Len(captures) /\ conn[j].epoch <= Len(captures)
      /\ \A g \in Phones \X Directions : fwd[g].st <= Len(captures) /\ fwd[g].n \in Nat
      /\ fwd[f].st \in 0..Len(captures) /\ Len(captures) \in Nat
  BY <1>1, StateParts, FwdTyped
<1>3. PICK e \in 0..Len(captures) : e = fwd[f].st
  BY <1>2
<1>4. conn[k].at = "relay"
  BY <1>1, <1>2 DEF Relaying
<1>5. /\ pushes' \in Seq(Streams) /\ sink' \in Seq(Sinks) /\ Len(sink') = Len(sink)
      /\ \E m \in Messages : m.ev \in {"open", "eof"} /\ Grown(e, m)
      /\ CapturesKept /\ Clients' /\ Wired'
      /\ conn' \in [Phones -> ConnRecs] /\ \A j \in Phones : j # k => conn'[j] = conn[j]
      /\ conn'[k].at = "relay" /\ conn'[k].st = 0 /\ conn'[k].epoch \in {conn[k].epoch, e}
      /\ \/ conn[k].opened /\ conn'[k].epoch = conn[k].epoch
         \/ \A x : x = conn'[k].epoch /\ Holding(x)' => Announced(k, x)'
         \/ ~conn'[k].opened
      /\ e # 0 /\ allow(k, e) => \A x : x = e /\ Holding(x)' => Announced(k, x)'
  BY <1>1, <1>3, <1>4, BeginKeeps
<1>6. PICK m \in Messages : m.ev \in {"open", "eof"} /\ Grown(e, m)
  BY <1>5
<1>7. Fits(e, m)
  BY <1>6 DEF Fits
<1>8. PICK a \in {"send", "read"} : fwd' = [fwd EXCEPT ![f].at = a] /\ (a = "send" => e # 0 /\ allow(k, e))
  BY <1>1, <1>3
<1>9. /\ fwd' \in [Phones \X Directions -> FwdRecs] /\ \A g \in Phones \X Directions : g # f => fwd'[g] = fwd[g]
      /\ fwd'[f].at = a /\ fwd'[f].st = fwd[f].st /\ fwd'[f].n = fwd[f].n
  BY <1>1, <1>2, <1>8, FwdSet
<1>10. MovesOn
  <2>1. \A g \in Phones \X Directions :
          fwd[g].n <= fwd'[g].n /\ (fwd'[g].at \in {"begin", "send"} => fwd[g].n < fwd'[g].n \/ fwd[g].at \in {"begin", "send"})
    BY <1>1, <1>2, <1>9
  <2> QED BY <1>4, <1>5, <2>1 DEF MovesOn
<1>11. Relaying'
  <2>1. ASSUME NEW g \in Phones \X Directions, fwd'[g].at \in {"begin", "send"} PROVE conn'[g[1]].at = "relay"
    <3>1. fwd[g].at \in {"begin", "send"} /\ g[1] \in Phones
      BY <1>1, <1>9, <2>1
    <3>2. conn[g[1]].at = "relay"
      BY <1>2, <3>1 DEF Relaying
    <3> QED BY <1>5, <3>1, <3>2
  <2>2. \A g \in Phones \X Directions : fwd'[g].at = "send" => fwd'[g].st # 0
    BY <1>2, <1>3, <1>8, <1>9 DEF Relaying
  <2> QED BY <2>1, <2>2 DEF Relaying
<1>12. \A j \in Phones : conn'[j].st <= Len(captures) /\ conn'[j].epoch <= Len(captures)
  BY <1>2, <1>3, <1>5
<1>13. \A j \in Phones : conn'[j].opened /\ conn'[j].at # "done" =>
         \/ conn[j].opened /\ conn[j].at # "done" /\ conn'[j].epoch = conn[j].epoch
         \/ \A x : x = conn'[j].epoch /\ Holding(x)' => Announced(j, x)'
  BY <1>4, <1>5
<1>14. \A g \in Phones \X Directions : fwd'[g].at = "send" =>
         \/ fwd[g].at = "send" /\ fwd'[g].st = fwd[g].st
         \/ \A x : x = fwd'[g].st /\ Holding(x)' => Announced(g[1], x)'
  BY <1>1, <1>3, <1>5, <1>8, <1>9
<1>15. \A g \in Phones \X Directions : fwd'[g].st <= Len(captures)
  BY <1>2, <1>9
<1> QED BY <1>1, <1>5, <1>6, <1>7, <1>9, <1>10, <1>11, <1>12, <1>13, <1>14, <1>15, ConnectionStep

\* A chunk is sent.
LEMMA ReportsStep ==
    ASSUME RelInv, NEW k \in Phones, NEW d \in Directions, Reports(k, d)
    PROVE  RelInv'
<1> DEFINE f == <<k, d>>
<1>1. /\ fwd[f].at = "send" /\ Send(fwd[f].st, Event("data", k, fwd[f].st, d, fwd[f].n))
      /\ UNCHANGED <<gate, captures, conn, sources, lost, cut>>
      /\ fwd' = [fwd EXCEPT ![f].at = "read"] /\ f \in Phones \X Directions /\ f[1] = k
  BY DEF Reports, gateVars
<1>2. /\ conn \in [Phones -> ConnRecs] /\ fwd \in [Phones \X Directions -> FwdRecs] /\ Relaying
      /\ \A j \in Phones : conn[j].st <= Len(captures) /\ conn[j].epoch <= Len(captures)
      /\ \A g \in Phones \X Directions : fwd[g].st <= Len(captures) /\ fwd[g].n \in Nat
      /\ fwd[f].st \in Nat /\ Len(captures) \in Nat /\ DOMAIN sink = 1..Len(captures)
  BY <1>1, StateParts, FwdTyped
<1>3. fwd[f].st # 0
  BY <1>1, <1>2 DEF Relaying
<1>4. PICK e \in Epochs, n \in Nat : e = fwd[f].st /\ e \in DOMAIN sink /\ n = fwd[f].n
  BY <1>1, <1>2, <1>3 DEF Epochs
<1> DEFINE m == Event("data", k, e, d, n)
<1>5. m \in Messages
  BY MadeMessages
<1>6. m.ev = "data" /\ m.id = <<k, e>> /\ m.id[2] = e /\ m.dir = d /\ m.n = n /\ m.id[1] = k
  BY DEF Event, ConnId
<1>7. Send(e, m)
  BY <1>1, <1>4
<1> HIDE DEF m
<1>8. /\ pushes' \in Seq(Streams) /\ sink' \in Seq(Sinks) /\ Len(sink') = Len(sink)
      /\ Grown(e, m) /\ CapturesKept /\ Clients' /\ Wired'
  BY <1>1, <1>4, <1>5, <1>6, <1>7, SendKeeps
<1>9. <<m.id[1], m.dir>> = f
  BY <1>6
<1> HIDE DEF f
<1>10. /\ fwd' \in [Phones \X Directions -> FwdRecs] /\ \A g \in Phones \X Directions : g # f => fwd'[g] = fwd[g]
       /\ fwd'[f].at = "read" /\ fwd'[f].st = fwd[f].st /\ fwd'[f].n = fwd[f].n
  BY <1>1, <1>2, FwdSet
<1>11. Fits(e, m)
  <2>1. m.id = <<m.id[1], e>>
    BY <1>6
  <2> QED BY <1>1, <1>4, <1>6, <1>9, <1>10, <2>1 DEF Fits
<1>12. \A g \in Phones \X Directions : fwd'[g].n = fwd[g].n /\ fwd'[g].st = fwd[g].st /\ (fwd'[g].at = fwd[g].at \/ fwd'[g].at = "read")
  BY <1>10
<1>13. MovesOn
  BY <1>1, <1>2, <1>12 DEF MovesOn
<1>14. Relaying'
  BY <1>1, <1>2, <1>12 DEF Relaying
<1>15. \A g \in Phones \X Directions : fwd'[g].st <= Len(captures) /\ (fwd'[g].at = "send" => fwd[g].at = "send" /\ fwd'[g].st = fwd[g].st)
  BY <1>2, <1>12
<1>16. \A j \in Phones : conn'[j] = conn[j]
  BY <1>1
<1> QED BY <1>1, <1>2, <1>5, <1>8, <1>10, <1>11, <1>13, <1>14, <1>15, <1>16, ConnectionStep

\* The connection is closed in the epoch it was announced in last.
LEMMA endStep ==
    ASSUME RelInv, NEW k \in Phones, end(k)
    PROVE  RelInv'
<1>1. conn[k].at = "end" /\ conn' = [conn EXCEPT ![k].at = "done"] /\ UNCHANGED <<gate, captures, fwd, sources, lost, cut>>
  BY DEF end, gateVars
<1>10. UNCHANGED pushVars \/ (conn[k].st # 0 /\ Send(conn[k].st, Event("close", k, conn[k].st, "", 0)))
  BY DEF end
<1>2. /\ conn \in [Phones -> ConnRecs] /\ fwd \in [Phones \X Directions -> FwdRecs] /\ Relaying
      /\ \A j \in Phones : conn[j].st <= Len(captures) /\ conn[j].epoch <= Len(captures)
      /\ \A g \in Phones \X Directions : fwd[g].st <= Len(captures) /\ fwd[g].n \in Nat
      /\ conn[k].st \in Nat /\ Len(captures) \in Nat /\ DOMAIN sink = 1..Len(captures)
  BY StateParts, ConnTyped
<1>3. /\ conn' \in [Phones -> ConnRecs] /\ \A j \in Phones : j # k => conn'[j] = conn[j]
      /\ conn'[k].at = "done" /\ conn'[k].st = conn[k].st /\ conn'[k].epoch = conn[k].epoch /\ conn'[k].opened = conn[k].opened
  BY <1>1, <1>2, ConnSet
<1>4. MovesOn
  BY <1>1, <1>2, <1>3 DEF MovesOn
<1>5. Relaying'
  BY <1>1, <1>2, <1>3 DEF Relaying
<1>6. \A j \in Phones : conn'[j].opened /\ conn'[j].at # "done" => conn[j].opened /\ conn[j].at # "done" /\ conn'[j].epoch = conn[j].epoch
  BY <1>1, <1>3
<1>7. \A j \in Phones : conn'[j].st <= Len(captures) /\ conn'[j].epoch <= Len(captures)
  BY <1>2, <1>3
<1>8. CASE UNCHANGED pushVars
  <2>1. \A g \in Phones \X Directions : fwd'[g] = fwd[g]
    BY <1>1
  <2>2. UNCHANGED <<gate, captures, sink, pushes, sources, lost, cut>>
    BY <1>1, <1>8 DEF pushVars
  <2>3. fwd' \in [Phones \X Directions -> FwdRecs] /\ conn' \in [Phones -> ConnRecs]
    BY <1>1, <1>2, <1>3
  <2>4. \A g \in Phones \X Directions : fwd'[g].st <= Len(captures) /\ (fwd'[g].at = "send" => fwd[g].at = "send" /\ fwd'[g].st = fwd[g].st)
    BY <1>2, <2>1
  <2> QED BY <1>4, <1>5, <1>6, <1>7, <2>2, <2>3, <2>4, QuietStep
<1>9. CASE conn[k].st # 0 /\ Send(conn[k].st, Event("close", k, conn[k].st, "", 0))
  <2>8. conn[k].st <= Len(captures) /\ conn[k].st # 0
    BY <1>2, <1>9
  <2>9. conn[k].st \in Epochs /\ conn[k].st \in DOMAIN sink
    BY <1>2, <2>8 DEF Epochs
  <2>1. PICK e \in Epochs : e = conn[k].st /\ e \in DOMAIN sink
    BY <2>9
  <2> DEFINE m == Event("close", k, e, "", 0)
  <2>2. m \in Messages
    BY MadeMessages
  <2>3. m.ev = "close" /\ m.id[2] = e /\ m.id[1] = k
    BY DEF Event, ConnId
  <2>4. Send(e, m)
    BY <1>9, <2>1
  <2> HIDE DEF m
  <2>5. /\ pushes' \in Seq(Streams) /\ sink' \in Seq(Sinks) /\ Len(sink') = Len(sink)
        /\ Grown(e, m) /\ CapturesKept /\ Clients' /\ Wired'
    BY <1>1, <2>1, <2>2, <2>3, <2>4, SendKeeps
  <2>6. Fits(e, m)
    BY <1>3, <2>3 DEF Fits
  <2>7. \A g \in Phones \X Directions : fwd'[g] = fwd[g]
    BY <1>1
  <2> QED BY <1>1, <1>2, <1>3, <1>4, <1>5, <1>6, <1>7, <2>2, <2>5, <2>6, <2>7, ConnectionStep
<1> QED BY <1>10, <1>8, <1>9

\* The keepalive dials.
LEMMA keepaliveStep ==
    ASSUME RelInv, NEW e \in DOMAIN sink, keepalive(e)
    PROVE  RelInv'
<1> DEFINE m == [ev |-> "eof"]
<1>1. m \in Messages /\ Fits(e, m)
  BY DEF Messages, Fits
<1> HIDE DEF m
<1>2. /\ sink[e].stream = 0 /\ CanDial(e) /\ pushes' = Append(pushes, NewStream(e, <<>>))
      /\ sink' = [sink EXCEPT ![e].stream = Len(pushes) + 1]
      /\ UNCHANGED <<gate, captures, conn, fwd, sources, lost, cut>>
  BY DEF keepalive, gateVars
<1>3. /\ pushes' \in Seq(Streams) /\ sink' \in Seq(Sinks) /\ Len(sink') = Len(sink)
      /\ Grown(e, m) /\ CapturesKept /\ Clients' /\ Wired'
  BY <1>1, <1>2, Dialled
<1>4. /\ conn \in [Phones -> ConnRecs] /\ fwd \in [Phones \X Directions -> FwdRecs] /\ Relaying
      /\ \A j \in Phones : conn[j].st <= Len(captures) /\ conn[j].epoch <= Len(captures)
      /\ \A g \in Phones \X Directions : fwd[g].st <= Len(captures) /\ fwd[g].n \in Nat
  BY StateParts
<1>5. MovesOn
  BY <1>2, <1>4 DEF MovesOn
<1>6. Relaying'
  BY <1>2, <1>4 DEF Relaying
<1>7. \A j \in Phones : conn'[j] = conn[j]
  BY <1>2
<1>8. \A g \in Phones \X Directions : fwd'[g] = fwd[g]
  BY <1>2
<1> QED BY <1>1, <1>2, <1>3, <1>4, <1>5, <1>6, <1>7, <1>8, ConnectionStep

-----------------------------------------------------------------------------
(***************************************************************************)
(* Starts and stops of a capture.                                          *)
(***************************************************************************)

EndMark == [ev |-> "eof"]

\* What stop and a new start leave of the former capture: no client is open.
LEMMA Closing ==
    ASSUME RelInv, NEW P, P = ClosedPushes(gate), NEW S, S = ClosedSinks(gate)
    PROVE  /\ P \in Seq(Streams) /\ Len(P) = Len(pushes) /\ DOMAIN P = DOMAIN pushes
           /\ \A i \in DOMAIN pushes :
                 /\ P[i].epoch = pushes[i].epoch /\ P[i].alive = pushes[i].alive /\ P[i].ids = pushes[i].ids
                 /\ P[i].q = pushes[i].q \/ (P[i].q = Append(pushes[i].q, EndMark) /\ pushes[i].epoch = gate)
           /\ S \in Seq(Sinks) /\ Len(S) = Len(sink) /\ DOMAIN S = DOMAIN sink
           /\ \A x \in DOMAIN sink : ~S[x].open /\ S[x].stream \in {sink[x].stream, 0}
<1>1. /\ pushes \in Seq(Streams) /\ sink \in Seq(Sinks) /\ gate \in 0..Len(captures) /\ Len(sink) = Len(captures)
      /\ Clients /\ RelTyped
  BY DEF RelInv, RelTyped
<1>2. gate # 0 => gate \in DOMAIN sink
  BY <1>1
<1>3. /\ S \in Seq(Sinks) /\ Len(S) = Len(sink) /\ DOMAIN S = DOMAIN sink
      /\ \A x \in DOMAIN sink : ~S[x].open /\ S[x].stream \in {sink[x].stream, 0}
  <2>1. CASE gate = 0
    BY <1>1, <2>1 DEF ClosedSinks, Clients
  <2>2. CASE gate # 0
    <3> DEFINE r == [stream |-> 0, open |-> FALSE]
    <3>1. r \in Sinks /\ r.stream = 0 /\ r.open = FALSE
      BY DEF Sinks
    <3>2. S = [sink EXCEPT ![gate] = r]
      BY <2>2 DEF ClosedSinks
    <3> HIDE DEF r
    <3>3. S \in Seq(Sinks) /\ Len(S) = Len(sink) /\ DOMAIN S = DOMAIN sink /\ S[gate] = r /\ \A x \in DOMAIN sink : x # gate => S[x] = sink[x]
      BY <1>1, <1>2, <2>2, <3>1, <3>2
    <3> QED BY <1>1, <3>1, <3>3 DEF Clients
  <2> QED BY <2>1, <2>2
<1>4. /\ P \in Seq(Streams) /\ Len(P) = Len(pushes) /\ DOMAIN P = DOMAIN pushes
      /\ \A i \in DOMAIN pushes :
            /\ P[i].epoch = pushes[i].epoch /\ P[i].alive = pushes[i].alive /\ P[i].ids = pushes[i].ids
            /\ P[i].q = pushes[i].q \/ (P[i].q = Append(pushes[i].q, EndMark) /\ pushes[i].epoch = gate)
  <2>1. CASE gate = 0 \/ sink[gate].stream = 0
    BY <1>1, <2>1 DEF ClosedPushes
  <2>2. CASE ~(gate = 0 \/ sink[gate].stream = 0)
    <3>1. PICK i : i = sink[gate].stream
      OBVIOUS
    <3>2. i \in DOMAIN pushes /\ pushes[i].epoch = gate
      BY <1>1, <1>2, <2>2, <3>1 DEF Clients
    <3> DEFINE q == Append(pushes[i].q, EndMark) r == [pushes[i] EXCEPT !.q = q]
    <3>3. pushes[i] \in Streams /\ pushes[i].q \in Seq(Messages) /\ EndMark \in Messages
      BY <1>1, <3>2, StreamTyped DEF Messages, EndMark
    <3>4. q \in Seq(Messages)
      BY <3>3
    <3>5. P = [pushes EXCEPT ![i] = r]
      BY <2>2, <3>1 DEF ClosedPushes, Ended, EndMark
    <3> HIDE DEF q
    <3>6. r \in Streams /\ r.epoch = pushes[i].epoch /\ r.alive = pushes[i].alive /\ r.ids = pushes[i].ids /\ r.q = q
      BY <3>3, <3>4 DEF Streams
    <3> HIDE DEF r
    <3>7. P \in Seq(Streams) /\ Len(P) = Len(pushes) /\ DOMAIN P = DOMAIN pushes /\ P[i] = r /\ \A j \in DOMAIN pushes : j # i => P[j] = pushes[j]
      BY <1>1, <3>2, <3>5, <3>6
    <3> QED BY <3>2, <3>6, <3>7 DEF q
  <2> QED BY <2>1, <2>2
<1> QED BY <1>3, <1>4

\* A step after which at most the new capture, with at most one stream, has an open client.
LEMMA GateStep ==
    ASSUME RelInv, UNCHANGED <<conn, fwd, sources, lost, cut>>,
           pushes' \in Seq(Streams), sink' \in Seq(Sinks), captures' \in Seq(Captures),
           Len(sink') = Len(captures'), gate' \in 0..Len(captures'), Len(captures) <= Len(captures'),
           \A x \in DOMAIN captures : captures'[x] = captures[x],
           \A x \in DOMAIN sink : ~sink'[x].open /\ sink'[x].stream \in {sink[x].stream, 0},
           \A x \in DOMAIN sink' : x \notin DOMAIN sink =>
                 x = gate' /\ (sink'[x].stream # 0 => sink'[x].stream \in DOMAIN pushes' /\ pushes'[sink'[x].stream].epoch = x),
           \A i \in DOMAIN pushes :
                 /\ i \in DOMAIN pushes'
                 /\ pushes'[i].epoch = pushes[i].epoch /\ pushes'[i].alive = pushes[i].alive /\ pushes'[i].ids = pushes[i].ids
                 /\ pushes'[i].q = pushes[i].q \/ (pushes'[i].q = Append(pushes[i].q, EndMark) /\ pushes[i].epoch = gate),
           \A i \in DOMAIN pushes' : i \notin DOMAIN pushes =>
                 /\ pushes'[i].ids = {} /\ pushes'[i].q = <<>> /\ pushes'[i].alive = TRUE
                 /\ pushes'[i].epoch \in DOMAIN captures' /\ sources[captures'[pushes'[i].epoch].session].up
                 /\ sink'[pushes'[i].epoch].stream = i
    PROVE  RelInv'
<1>1. /\ RelTyped /\ Known /\ Clients /\ Wired /\ Relaying
      /\ captures \in Seq(Captures) /\ sink \in Seq(Sinks) /\ Len(sink) = Len(captures) /\ Len(captures) \in Nat /\ Len(captures') \in Nat
  BY DEF RelInv, RelTyped
<1>2. RelTyped'
  BY <1>1 DEF RelTyped
<1>3. EndMark \in Messages /\ Fits(gate, EndMark) /\ EndMark.ev = "eof"
  BY DEF Messages, EndMark, Fits
<1>4. /\ \A x \in DOMAIN captures : x \in DOMAIN captures' /\ x \in DOMAIN sink
      /\ \A x \in DOMAIN sink : x \in DOMAIN sink' /\ x \in DOMAIN captures
  BY <1>1
<1>5. Grown(gate, EndMark)
  BY <1>3 DEF Grown
<1>6. CapturesKept
  BY <1>4 DEF CapturesKept
<1>7. Clients'
  <2>1. ASSUME NEW x \in DOMAIN sink'
        PROVE  /\ sink'[x].open => x = gate'
               /\ sink'[x].stream # 0 => sink'[x].stream \in DOMAIN pushes' /\ pushes'[sink'[x].stream].epoch = x
    <3>1. CASE x \in DOMAIN sink
      <4>1. ~sink'[x].open /\ (sink'[x].stream # 0 => sink'[x].stream = sink[x].stream)
        BY <3>1
      <4>2. sink[x].stream # 0 => sink[x].stream \in DOMAIN pushes /\ pushes[sink[x].stream].epoch = x
        BY <1>1, <3>1 DEF Clients
      <4> QED BY <4>1, <4>2
    <3>2. CASE x \notin DOMAIN sink
      BY <3>2
    <3> QED BY <3>1, <3>2
  <2> QED BY <2>1 DEF Clients
<1>8. ASSUME NEW i \in DOMAIN pushes' PROVE StreamWired(i)'
  <2>1. CASE i \in DOMAIN pushes
    <3> DEFINE x == pushes[i].epoch
    <3>1. StreamWired(i) /\ pushes'[i].epoch = x /\ pushes'[i].alive = pushes[i].alive /\ pushes'[i].ids = pushes[i].ids
      BY <1>1, <2>1 DEF Wired
    <3>2. x \in DOMAIN captures /\ x \in DOMAIN captures' /\ ~sink'[x].open /\ captures'[x] = captures[x]
      BY <1>4, <3>1 DEF StreamWired
    <3>3. (pushes[i].alive => sources[captures[x].session].up) /\ (~pushes[i].alive => pushes[i].ids = {})
      BY <3>1 DEF StreamWired, Session
    <3>4. ASSUME NEW j \in DOMAIN pushes'[i].q PROVE pushes'[i].q[j].ev # "eof" => pushes'[i].q[j].id[2] = x
      <4>1. CASE pushes'[i].q[j] = EndMark
        BY <1>3, <4>1
      <4>2. CASE j \in DOMAIN pushes[i].q /\ pushes'[i].q[j] = pushes[i].q[j]
        BY <3>1, <4>2 DEF StreamWired
      <4> QED BY <1>1, <1>2, <1>3, <1>5, <2>1, <4>1, <4>2, GrownQueue
    <3> HIDE DEF x
    <3> QED BY <3>1, <3>2, <3>3, <3>4 DEF StreamWired, Session
  <2>2. CASE i \notin DOMAIN pushes
    <3>1. /\ pushes'[i].q = <<>> /\ pushes'[i].alive = TRUE
          /\ pushes'[i].epoch \in DOMAIN captures' /\ sources[captures'[pushes'[i].epoch].session].up
          /\ sink'[pushes'[i].epoch].stream = i
      BY <2>2
    <3> QED BY <3>1 DEF StreamWired, Session
  <2> QED BY <2>1, <2>2
<1>9. Wired'
  BY <1>8 DEF Wired
<1>10. MovesOn
  BY <1>1, FwdTyped DEF MovesOn
<1>11. Relaying'
  BY <1>1 DEF Relaying
<1>12. Known'
  <2>1. \A k \in Phones : conn[k].st \in Nat /\ conn[k].epoch \in Nat
    BY <1>1, ConnTyped
  <2>2. \A f \in Phones \X Directions : fwd[f].st \in Nat
    BY <1>1, FwdTyped
  <2>3. \A id \in lost : id[2] \in Nat
    BY <1>1, IdParts DEF RelTyped, Epochs
  <2>4. \A s \in Sources : (\A p \in sources[s].got : p.id[2] \in Nat) /\ (\A id \in sources[s].late : id[2] \in Nat)
    BY <1>1, SourceTyped, IdParts DEF Epochs
  <2>5. ASSUME NEW n \in Nat, n <= Len(captures) PROVE n <= Len(captures')
    BY <1>1, <2>5
  <2> QED BY <1>1, <2>1, <2>2, <2>3, <2>4, <2>5 DEF Known
<1>13. ConnsAnnounced' /\ ChunksAnnounced'
  <2>1. \A k \in Phones : conn'[k].opened /\ conn'[k].at # "done" => conn[k].opened /\ conn[k].at # "done" /\ conn'[k].epoch = conn[k].epoch
    OBVIOUS
  <2>2. \A f \in Phones \X Directions : fwd'[f].at = "send" => fwd[f].at = "send" /\ fwd'[f].st = fwd[f].st
    OBVIOUS
  <2> QED BY <1>2, <1>3, <1>5, <1>6, <2>1, <2>2, AnnouncedKept
<1> QED BY <1>2, <1>3, <1>5, <1>6, <1>7, <1>9, <1>10, <1>11, <1>12, <1>13, AgentStep

\* The capture stops.
LEMMA StopStep ==
    ASSUME RelInv, Stop
    PROVE  RelInv'
<1>1. gate' = 0 /\ sink' = ClosedSinks(gate) /\ pushes' = ClosedPushes(gate) /\ UNCHANGED <<captures, conn, fwd, sources, lost, cut>>
  BY DEF Stop
<1>2. captures \in Seq(Captures) /\ Len(sink) = Len(captures) /\ Len(captures) \in Nat
  BY DEF RelInv, RelTyped
<1>3. PICK P, S : P = pushes' /\ S = sink'
  OBVIOUS
<1>4. /\ P \in Seq(Streams) /\ Len(P) = Len(pushes) /\ DOMAIN P = DOMAIN pushes
      /\ \A i \in DOMAIN pushes :
            /\ P[i].epoch = pushes[i].epoch /\ P[i].alive = pushes[i].alive /\ P[i].ids = pushes[i].ids
            /\ P[i].q = pushes[i].q \/ (P[i].q = Append(pushes[i].q, EndMark) /\ pushes[i].epoch = gate)
      /\ S \in Seq(Sinks) /\ Len(S) = Len(sink) /\ DOMAIN S = DOMAIN sink
      /\ \A x \in DOMAIN sink : ~S[x].open /\ S[x].stream \in {sink[x].stream, 0}
  BY <1>1, <1>3, Closing
<1>5. /\ UNCHANGED <<conn, fwd, sources, lost, cut>>
      /\ pushes' \in Seq(Streams) /\ sink' \in Seq(Sinks) /\ captures' \in Seq(Captures)
      /\ Len(sink') = Len(captures') /\ gate' \in 0..Len(captures') /\ Len(captures) <= Len(captures')
      /\ \A x \in DOMAIN captures : captures'[x] = captures[x]
  BY <1>1, <1>2, <1>3, <1>4
<1>6. DOMAIN sink' = DOMAIN sink /\ DOMAIN pushes' = DOMAIN pushes
  BY <1>3, <1>4
<1>7. \A x \in DOMAIN sink : ~sink'[x].open /\ sink'[x].stream \in {sink[x].stream, 0}
  BY <1>3, <1>4
<1>8. \A i \in DOMAIN pushes :
         /\ i \in DOMAIN pushes'
         /\ pushes'[i].epoch = pushes[i].epoch /\ pushes'[i].alive = pushes[i].alive /\ pushes'[i].ids = pushes[i].ids
         /\ pushes'[i].q = pushes[i].q \/ (pushes'[i].q = Append(pushes[i].q, EndMark) /\ pushes[i].epoch = gate)
  BY <1>3, <1>4
<1> QED BY <1>5, <1>6, <1>7, <1>8, GateStep

\* A capture starts and replaces the one before.
LEMMA GateStartStep ==
    ASSUME RelInv, NEW s \in Sources, NEW filter \in {Filtered, Phones}, GateStart(s, filter)
    PROVE  RelInv'
<1>1. PICK e : e = Len(captures) + 1
  OBVIOUS
<1>2. PICK P, S : P = ClosedPushes(gate) /\ S = ClosedSinks(gate)
  OBVIOUS
<1>3. /\ captures' = Append(captures, [session |-> s, filter |-> filter]) /\ gate' = e
      /\ UNCHANGED <<conn, fwd, sources, lost, cut>>
      /\ \/ sink' = Append(S, [stream |-> 0, open |-> TRUE]) /\ pushes' = P
         \/ /\ sources[s].up
            /\ sink' = Append(S, [stream |-> Len(pushes) + 1, open |-> TRUE])
            /\ pushes' = Append(P, NewStream(e, <<>>))
  BY <1>1, <1>2 DEF GateStart
<1>4. /\ P \in Seq(Streams) /\ Len(P) = Len(pushes) /\ DOMAIN P = DOMAIN pushes
      /\ \A i \in DOMAIN pushes :
            /\ P[i].epoch = pushes[i].epoch /\ P[i].alive = pushes[i].alive /\ P[i].ids = pushes[i].ids
            /\ P[i].q = pushes[i].q \/ (P[i].q = Append(pushes[i].q, EndMark) /\ pushes[i].epoch = gate)
      /\ S \in Seq(Sinks) /\ Len(S) = Len(sink) /\ DOMAIN S = DOMAIN sink
      /\ \A x \in DOMAIN sink : ~S[x].open /\ S[x].stream \in {sink[x].stream, 0}
  BY <1>2, Closing
<1>5. captures \in Seq(Captures) /\ Len(sink) = Len(captures) /\ Len(captures) \in Nat /\ sink \in Seq(Sinks) /\ pushes \in Seq(Streams)
  BY DEF RelInv, RelTyped
<1> DEFINE c == [session |-> s, filter |-> filter]
<1>6. c \in Captures /\ c.session = s
  BY DEF Captures
<1> HIDE DEF c
<1>7. /\ captures' \in Seq(Captures) /\ Len(captures') = e /\ captures'[e] = c /\ e \in DOMAIN captures' /\ e \in Epochs
      /\ Len(captures) <= Len(captures') /\ gate' \in 0..Len(captures')
      /\ \A x \in DOMAIN captures : captures'[x] = captures[x]
      /\ e \notin DOMAIN sink
  <2>1. captures' = Append(captures, c)
    BY <1>3 DEF c
  <2> QED BY <1>1, <1>3, <1>5, <1>6, <2>1 DEF Epochs
<1>8. CASE sink' = Append(S, [stream |-> 0, open |-> TRUE]) /\ pushes' = P
  <2> DEFINE r == [stream |-> 0, open |-> TRUE]
  <2>1. r \in Sinks /\ r.stream = 0
    BY DEF Sinks
  <2>2. sink' = Append(S, r)
    BY <1>8
  <2> HIDE DEF r
  <2>3. /\ sink' \in Seq(Sinks) /\ Len(sink') = Len(captures') /\ \A x \in DOMAIN sink : sink'[x] = S[x]
        /\ sink'[e] = r /\ \A x \in DOMAIN sink' : x \notin DOMAIN sink => x = e
    BY <1>1, <1>4, <1>5, <1>7, <2>1, <2>2
  <2> QED BY ZenonT(30), <1>3, <1>4, <1>7, <1>8, <2>1, <2>3, GateStep
<1>9. CASE sources[s].up /\ sink' = Append(S, [stream |-> Len(pushes) + 1, open |-> TRUE]) /\ pushes' = Append(P, NewStream(e, <<>>))
  <2>1. PICK n \in Nat : n = Len(pushes) + 1 /\ n # 0
    BY <1>5
  <2> DEFINE r == [stream |-> n, open |-> TRUE] new == NewStream(e, <<>>)
  <2>2. r \in Sinks /\ r.stream = n
    BY DEF Sinks
  <2>3. new \in Streams /\ new.epoch = e /\ new.q = <<>> /\ new.alive = TRUE /\ new.ids = {}
    BY <1>7 DEF Streams, NewStream
  <2>4. sink' = Append(S, r) /\ pushes' = Append(P, new)
    BY <1>9, <2>1
  <2> HIDE DEF r, new
  <2>5. /\ sink' \in Seq(Sinks) /\ Len(sink') = Len(captures') /\ \A x \in DOMAIN sink : sink'[x] = S[x]
        /\ sink'[e] = r /\ \A x \in DOMAIN sink' : x \notin DOMAIN sink => x = e
    BY <1>1, <1>4, <1>5, <1>7, <2>2, <2>4
  <2>6. /\ pushes' \in Seq(Streams) /\ \A i \in DOMAIN pushes : i \in DOMAIN pushes' /\ pushes'[i] = P[i]
        /\ pushes'[n] = new /\ n \in DOMAIN pushes' /\ \A i \in DOMAIN pushes' : i \notin DOMAIN pushes => i = n
    BY <1>4, <1>5, <2>1, <2>3, <2>4
  <2>7. \A x \in DOMAIN sink' : x \notin DOMAIN sink =>
           x = gate' /\ (sink'[x].stream # 0 => sink'[x].stream \in DOMAIN pushes' /\ pushes'[sink'[x].stream].epoch = x)
    BY <1>3, <2>2, <2>3, <2>5, <2>6
  <2>8. \A i \in DOMAIN pushes' : i \notin DOMAIN pushes =>
           /\ pushes'[i].ids = {} /\ pushes'[i].q = <<>> /\ pushes'[i].alive = TRUE
           /\ pushes'[i].epoch \in DOMAIN captures' /\ sources[captures'[pushes'[i].epoch].session].up
           /\ sink'[pushes'[i].epoch].stream = i
    BY <1>6, <1>7, <1>9, <2>2, <2>3, <2>5, <2>6
  <2>9. \A i \in DOMAIN pushes :
           /\ i \in DOMAIN pushes'
           /\ pushes'[i].epoch = pushes[i].epoch /\ pushes'[i].alive = pushes[i].alive /\ pushes'[i].ids = pushes[i].ids
           /\ pushes'[i].q = pushes[i].q \/ (pushes'[i].q = Append(pushes[i].q, EndMark) /\ pushes[i].epoch = gate)
    BY <1>4, <2>6
  <2>10. \A x \in DOMAIN sink : ~sink'[x].open /\ sink'[x].stream \in {sink[x].stream, 0}
    BY <1>4, <2>5
  <2> QED BY <1>3, <1>7, <2>5, <2>6, <2>7, <2>8, <2>9, <2>10, GateStep
<1> QED BY <1>3, <1>8, <1>9

-----------------------------------------------------------------------------
(***************************************************************************)
(* Steps of the source.  The agent's state is left alone.                  *)
(***************************************************************************)

\* Streams C end: they break, or their end is read.
Ends(C) ==
    /\ UNCHANGED <<gate, captures, sink, conn, fwd, lost>>
    /\ DOMAIN pushes' = DOMAIN pushes /\ C \subseteq DOMAIN pushes /\ cut \subseteq cut'
    /\ \A i \in DOMAIN pushes : i \notin C => pushes'[i] = pushes[i]
    /\ \A i \in C :
          /\ pushes'[i].epoch = pushes[i].epoch /\ pushes'[i].alive = FALSE /\ pushes'[i].ids = {}
          /\ pushes'[i].q = <<>> \/ (pushes[i].q # <<>> /\ pushes'[i].q = Tail(pushes[i].q))
          /\ sink[pushes[i].epoch].open => pushes[i].epoch \in cut' /\ pushes'[i].q = <<>>
    /\ \A s \in Sources :
          /\ sources'[s].got = sources[s].got /\ sources'[s].late = sources[s].late
          /\ sources'[s].table \subseteq sources[s].table /\ \A key \in sources'[s].table : key[1] \notin C
          /\ sources'[s].up => sources[s].up /\ \A key \in sources[s].table : key[1] \notin C => key \in sources'[s].table
    /\ \A i \in DOMAIN pushes : pushes[i].alive /\ i \notin C => sources'[Session(pushes[i].epoch)].up

\* What is left of a queue.
LEMMA EndsQueue ==
    ASSUME RelTyped, NEW C, Ends(C), NEW i \in DOMAIN pushes', NEW j \in DOMAIN pushes'[i].q
    PROVE  i \in DOMAIN pushes /\ \E l \in DOMAIN pushes[i].q : pushes'[i].q[j] = pushes[i].q[l]
<1>1. i \in DOMAIN pushes
  BY DEF Ends
<1>2. pushes[i].q \in Seq(Messages)
  BY <1>1, StreamTyped
<1>3. CASE i \notin C
  BY <1>1, <1>3 DEF Ends
<1>4. CASE i \in C /\ pushes'[i].q = <<>>
  BY <1>4
<1>5. CASE i \in C /\ pushes[i].q # <<>> /\ pushes'[i].q = Tail(pushes[i].q)
  <2>1. \A l \in DOMAIN pushes'[i].q : l + 1 \in DOMAIN pushes[i].q /\ pushes'[i].q[l] = pushes[i].q[l + 1]
    BY <1>2, <1>5, Tailed
  <2> QED BY <1>1, <2>1
<1> QED BY <1>1, <1>3, <1>4, <1>5 DEF Ends

\* What still holds has lost nothing.
LEMMA EndsHolding ==
    ASSUME RelInv, NEW C, Ends(C), NEW x, Holding(x)'
    PROVE  /\ Holding(x) /\ Session(x)' = Session(x) /\ Session(x) \in Sources
           /\ \A i \in DOMAIN pushes : pushes[i].epoch = x => i \notin C
           /\ \A key \in sources[Session(x)].table : key[1] \notin C => key \in sources'[Session(x)].table
<1>1. x \in DOMAIN sink /\ sink[x].open /\ x \notin cut' /\ sources'[Session(x)].up
  BY DEF Holding, Ends, Session
<1>2. Session(x)' = Session(x)
  BY DEF Ends, Session
<1>3. x \in DOMAIN captures /\ captures \in Seq(Captures)
  BY <1>1 DEF RelInv, RelTyped
<1>4. captures[x] \in Captures
  BY <1>3
<1>5. Session(x) \in Sources
  BY <1>4 DEF Session, Captures
<1>6. /\ sources[Session(x)].up
      /\ \A key \in sources[Session(x)].table : key[1] \notin C => key \in sources'[Session(x)].table
  BY <1>1, <1>5 DEF Ends
<1>7. Holding(x)
  BY <1>1, <1>6 DEF Holding, Ends
<1>8. \A i \in DOMAIN pushes : pushes[i].epoch = x => i \notin C
  BY <1>1 DEF Ends
<1> QED BY <1>2, <1>5, <1>6, <1>7, <1>8

\* When streams end, what was announced on the others stays so.
LEMMA EndsAnnounced ==
    ASSUME RelInv, NEW C, Ends(C), NEW x, Holding(x)', NEW k, Announced(k, x)
    PROVE  Announced(k, x)'
<1>1. /\ Holding(x) /\ Session(x)' = Session(x) /\ Session(x) \in Sources
      /\ \A i \in DOMAIN pushes : pushes[i].epoch = x => i \notin C
      /\ \A key \in sources[Session(x)].table : key[1] \notin C => key \in sources'[Session(x)].table
  BY EndsHolding
<1> DEFINE i == sink[x].stream
<1>2. i # 0 /\ x \in DOMAIN sink
  BY <1>1 DEF Announced, Holding
<1>3. i \in DOMAIN pushes /\ pushes[i].epoch = x
  BY <1>2 DEF RelInv, Clients
<1>4. i \notin C /\ pushes'[i] = pushes[i] /\ sink' = sink
  BY <1>1, <1>3 DEF Ends
<1>5. <<i, <<k, x>>>> \in sources[Session(x)].table => <<i, <<k, x>>>> \in sources'[Session(x)].table
  BY <1>1, <1>4
<1> QED BY <1>1, <1>2, <1>4, <1>5 DEF Announced

\* What is forgotten with a stream is no longer counted.
LEMMA EndsCounted ==
    ASSUME RelInv, NEW C, Ends(C), \A s \in Sources : sources'[s].active = Cardinality(sources'[s].table)
    PROVE  Counted'
<1>1. ASSUME NEW i \in DOMAIN pushes PROVE IsFiniteSet(pushes'[i].ids)
  BY ZenonT(30), FS_EmptySet DEF RelInv, Counted, Ends
<1>2. ASSUME NEW s \in Sources
      PROVE  /\ IsFiniteSet(sources'[s].table)
             /\ \A key \in sources'[s].table :
                   /\ key[1] \in DOMAIN pushes' /\ pushes'[key[1]].alive
                   /\ captures'[pushes'[key[1]].epoch].session = s /\ key[2] \in pushes'[key[1]].ids
  <2>1. sources'[s].table \subseteq sources[s].table /\ \A key \in sources'[s].table : key[1] \notin C
    BY DEF Ends
  <2>2. IsFiniteSet(sources[s].table)
    BY DEF RelInv, Counted
  <2>3. IsFiniteSet(sources'[s].table)
    BY <2>1, <2>2, FS_Subset
  <2>4. ASSUME NEW key \in sources'[s].table
        PROVE  /\ key[1] \in DOMAIN pushes' /\ pushes'[key[1]].alive
               /\ captures'[pushes'[key[1]].epoch].session = s /\ key[2] \in pushes'[key[1]].ids
    <3>1. /\ key[1] \in DOMAIN pushes /\ pushes[key[1]].alive
          /\ captures[pushes[key[1]].epoch].session = s /\ key[2] \in pushes[key[1]].ids
      BY <2>1, <2>4 DEF RelInv, Counted, Session
    <3>2. pushes'[key[1]] = pushes[key[1]] /\ captures' = captures /\ DOMAIN pushes' = DOMAIN pushes
      BY <2>1, <2>4, <3>1 DEF Ends
    <3> QED BY <3>1, <3>2
  <2> QED BY <2>3, <2>4
<1>3. DOMAIN pushes' = DOMAIN pushes
  BY DEF Ends
<1> QED BY <1>1, <1>2, <1>3 DEF Counted, Session

\* Streams end and nothing else changes.
LEMMA EndsStep ==
    ASSUME RelInv, RelTyped', NEW C, Ends(C), \A s \in Sources : sources'[s].active = Cardinality(sources'[s].table)
    PROVE  RelInv'
<1>1. /\ RelTyped /\ Known /\ Clients /\ Wired /\ Read /\ Ordered /\ GotOwn /\ LateClosed
      /\ Relaying /\ ClosedDone /\ ConnsAnnounced /\ ChunksAnnounced /\ QueuesAnnounced /\ NothingUnannounced
  BY DEF RelInv
<1>2. UNCHANGED <<gate, captures, sink, conn, fwd, lost>> /\ DOMAIN pushes' = DOMAIN pushes /\ cut \subseteq cut'
  BY DEF Ends
<1>3. \A i \in DOMAIN pushes : pushes'[i].epoch = pushes[i].epoch
  BY DEF Ends
<1>4. \A s \in Sources : sources'[s].got = sources[s].got /\ sources'[s].late = sources[s].late
  BY DEF Ends
<1>5. Known'
  BY <1>1, <1>2, <1>4 DEF Known
<1>6. Clients'
  BY <1>1, <1>2, <1>3 DEF Clients
<1>7. ASSUME NEW i \in DOMAIN pushes PROVE StreamWired(i)'
  <2>1. StreamWired(i)
    BY <1>1 DEF Wired
  <2>2. \A j \in DOMAIN pushes'[i].q : IF pushes'[i].q[j].ev = "eof" THEN ~sink[pushes[i].epoch].open ELSE pushes'[i].q[j].id[2] = pushes[i].epoch
    BY <1>1, <1>2, <2>1, EndsQueue DEF StreamWired
  <2>3. CASE i \in C
    <3>1. /\ pushes'[i].alive = FALSE /\ pushes'[i].ids = {}
          /\ sink[pushes[i].epoch].open => pushes[i].epoch \in cut' /\ pushes'[i].q = <<>>
      BY <2>3 DEF Ends
    <3> QED BY <1>2, <1>3, <2>1, <2>2, <3>1 DEF StreamWired
  <2>4. CASE i \notin C
    <3>1. pushes'[i] = pushes[i] /\ (pushes[i].alive => sources'[Session(pushes[i].epoch)].up)
      BY <2>4 DEF Ends
    <3> QED BY <1>2, <2>1, <2>2, <3>1 DEF StreamWired, Session
  <2> QED BY <2>3, <2>4
<1>8. Wired'
  BY <1>2, <1>7 DEF Wired
<1>9. Read'
  <2>1. ASSUME NEW i \in DOMAIN pushes', NEW j \in DOMAIN pushes'[i].q, pushes'[i].q[j].ev = "data"
        PROVE  Numbered(fwd, pushes'[i].q[j])
    BY <1>1, <2>1, EndsQueue DEF Read
  <2> QED BY <1>1, <1>2, <1>4, <2>1 DEF Read
<1>10. ASSUME NEW i \in DOMAIN pushes PROVE pushes'[i].q = pushes[i].q \/ pushes'[i].q = <<>> \/ ~sink[pushes[i].epoch].open
  BY DEF Ends
<1>11. Ordered'
  <2>1. ASSUME NEW i \in DOMAIN pushes, sink[pushes[i].epoch].open
        PROVE  InOrder(pushes'[i].q) /\ AfterGot(pushes'[i].q, sources[Session(pushes[i].epoch)].got)
    <3>1. CASE pushes'[i].q = pushes[i].q
      BY <1>1, <2>1, <3>1 DEF Ordered
    <3>2. CASE pushes'[i].q = <<>>
      BY <3>2 DEF InOrder, AfterGot
    <3> QED BY <1>10, <2>1, <3>1, <3>2
  <2>2. \A i \in DOMAIN pushes : Session(pushes[i].epoch) \in Sources
    <3>1. ASSUME NEW i \in DOMAIN pushes PROVE Session(pushes[i].epoch) \in Sources
      <4>1. pushes[i].epoch \in DOMAIN captures /\ captures \in Seq(Captures)
        BY <1>1 DEF Wired, StreamWired, RelTyped
      <4>2. captures[pushes[i].epoch] \in Captures
        BY <4>1
      <4> QED BY <4>2 DEF Captures, Session
    <3> QED BY <3>1
  <2> QED BY <1>2, <1>3, <1>4, <2>1, <2>2 DEF Ordered, Session
<1>12. GotOwn' /\ LateClosed'
  BY <1>1, <1>2, <1>4 DEF GotOwn, LateClosed, Session
<1>13. Relaying'
  BY <1>1, <1>2 DEF Relaying
<1>14. ClosedDone'
  <2>1. ASSUME NEW i \in DOMAIN pushes PROVE ClosedLast(pushes'[i].q)
    <3>1. ClosedLast(pushes[i].q) /\ pushes[i].q \in Seq(Messages)
      BY <1>1, StreamTyped DEF ClosedDone
    <3>2. CASE pushes'[i].q = <<>>
      BY <3>2 DEF ClosedLast
    <3>3. CASE pushes'[i].q = pushes[i].q
      BY <3>1, <3>3
    <3>4. CASE pushes[i].q # <<>> /\ pushes'[i].q = Tail(pushes[i].q)
      BY <3>1, <3>4, ClosedTail
    <3> QED BY <3>2, <3>3, <3>4 DEF Ends
  <2>2. ASSUME NEW i \in DOMAIN pushes', NEW j \in DOMAIN pushes'[i].q, pushes'[i].q[j].ev = "close"
        PROVE  conn[pushes'[i].q[j].id[1]].at = "done"
    BY <1>1, <2>2, EndsQueue DEF ClosedDone
  <2> QED BY <1>2, <2>1, <2>2 DEF ClosedDone
<1>15. ConnsAnnounced'
  <2>1. ASSUME NEW k \in Phones, NEW x, x = conn[k].epoch, conn[k].opened, conn[k].at # "done", Holding(x)'
        PROVE  Announced(k, x)'
    BY <1>1, <2>1, EndsHolding, EndsAnnounced DEF ConnsAnnounced
  <2> QED BY <1>2, <2>1 DEF ConnsAnnounced, Holding, Announced, Session
<1>16. ChunksAnnounced'
  <2>1. ASSUME NEW f \in Phones \X Directions, NEW x, x = fwd[f].st, fwd[f].at = "send", Holding(x)'
        PROVE  Announced(f[1], x)'
    BY <1>1, <2>1, EndsHolding, EndsAnnounced DEF ChunksAnnounced
  <2> QED BY <1>2, <2>1 DEF ChunksAnnounced, Holding, Announced, Session
<1>17. QueuesAnnounced'
  <2>1. ASSUME NEW i \in DOMAIN pushes, NEW x, x = pushes[i].epoch, Holding(x)'
        PROVE  Preceded(i, pushes'[i].q, sources'[captures[x].session].table)
    <3>1. /\ Holding(x) /\ Session(x) \in Sources /\ i \notin C
          /\ \A key \in sources[Session(x)].table : key[1] \notin C => key \in sources'[Session(x)].table
      BY <2>1, EndsHolding
    <3>2. pushes'[i].q = pushes[i].q
      BY <3>1 DEF Ends
    <3>3. Preceded(i, pushes[i].q, sources[Session(x)].table)
      BY <1>1, <2>1, <3>1 DEF QueuesAnnounced
    <3>4. Preceded(i, pushes[i].q, sources'[Session(x)].table)
      BY <3>1, <3>3 DEF Preceded
    <3> QED BY <3>2, <3>4 DEF Session
  <2> QED BY <1>2, <1>3, <2>1 DEF QueuesAnnounced, Holding, Session
<1>18. NothingUnannounced'
  BY <1>1, <1>2 DEF NothingUnannounced
<1>19. Counted'
  BY EndsCounted
<1> QED BY <1>5, <1>6, <1>8, <1>9, <1>11, <1>12, <1>13, <1>14, <1>15, <1>16, <1>17, <1>18, <1>19 DEF RelInv

\* As many keys go as connections are left.
LEMMA KeysOf ==
    ASSUME NEW i, NEW left, IsFiniteSet(left)
    PROVE  Cardinality({<<i, id>> : id \in left}) = Cardinality(left)
<1> DEFINE T == {<<i, id>> : id \in left} f == [id \in left |-> <<i, id>>]
<1>1. f \in Bijection(left, T)
  <2>1. f \in [left -> T]
    OBVIOUS
  <2>2. \A a, b \in left : f[a] = f[b] => a = b
    OBVIOUS
  <2>3. \A t \in T : \E a \in left : f[a] = t
    OBVIOUS
  <2> HIDE DEF T, f
  <2>4. f \in Injection(left, T)
    BY <2>1, <2>2 DEF Injection, IsInjective
  <2>5. f \in Surjection(left, T)
    BY <2>1, <2>3 DEF Surjection
  <2> QED BY <2>4, <2>5 DEF Bijection
<1>2. ExistsBijection(left, T)
  BY <1>1 DEF ExistsBijection
<1> HIDE DEF T, f
<1>3. Cardinality(T) = Cardinality(left)
  BY <1>2, FS_Bijection
<1> QED BY <1>3 DEF T

\* dropStream forgets exactly the connections of the stream.
LEMMA Dropped ==
    ASSUME RelInv, NEW i \in DOMAIN pushes, NEW s \in Sources, dropStream(s, i)
    PROVE  /\ sources' \in [Sources -> SourceRecs]
           /\ \A t \in Sources : /\ t # s => sources'[t] = sources[t]
                                 /\ sources'[t].up = sources[t].up /\ sources'[t].got = sources[t].got /\ sources'[t].late = sources[t].late
           /\ sources'[s].table = {key \in sources[s].table : key[1] # i}
           /\ sources'[s].active = Cardinality(sources'[s].table)
<1> DEFINE left == {id \in pushes[i].ids : <<i, id>> \in sources[s].table}
           keys == {<<i, id>> : id \in left}
           tab == sources[s].table \ keys
           act == sources[s].active - Cardinality(left)
           r == [sources[s] EXCEPT !.table = tab, !.active = act]
<1>1. /\ sources \in [Sources -> SourceRecs] /\ sources[s] \in SourceRecs /\ sources[s].table \subseteq Nat \X Ids
      /\ sources[s].active \in Int
  <2>1. sources \in [Sources -> SourceRecs]
    BY DEF RelInv, RelTyped
  <2> QED BY <2>1 DEF SourceRecs
<1>2. /\ IsFiniteSet(pushes[i].ids) /\ IsFiniteSet(sources[s].table) /\ sources[s].active = Cardinality(sources[s].table)
      /\ \A key \in sources[s].table : key[2] \in pushes[key[1]].ids
  BY DEF RelInv, Counted
<1>3. IsFiniteSet(left)
  <2>1. left \in SUBSET pushes[i].ids
    OBVIOUS
  <2> HIDE DEF left
  <2> QED BY <1>2, <2>1, FS_Subset
<1>4. Cardinality(keys) = Cardinality(left) /\ Cardinality(left) \in Int
  <2> HIDE DEF left
  <2>1. Cardinality(keys) = Cardinality(left)
    BY <1>3, KeysOf
  <2>2. Cardinality(left) \in Nat
    BY <1>3, FS_CardinalityType
  <2> QED BY <2>1, <2>2
<1>5. sources[s].table \cap keys = keys
  OBVIOUS
<1>6. tab = {key \in sources[s].table : key[1] # i}
  <2>1. ASSUME NEW key \in sources[s].table, key[1] = i PROVE key \in keys
    <3>1. key = <<key[1], key[2]>>
      BY <1>1
    <3>2. key = <<i, key[2]>> /\ key[2] \in pushes[i].ids
      BY <1>2, <2>1, <3>1
    <3>3. key[2] \in left
      BY <2>1, <3>2
    <3> HIDE DEF left
    <3> QED BY <3>2, <3>3
  <2>2. ASSUME NEW key \in keys PROVE key[1] = i
    <3> HIDE DEF left
    <3> QED BY <2>2
  <2> HIDE DEF keys, left
  <2> QED BY <2>1, <2>2
<1>7. Cardinality(tab) = act
  <2> HIDE DEF keys, left
  <2>1. Cardinality(tab) = Cardinality(sources[s].table) - Cardinality(sources[s].table \cap keys)
    BY <1>2, FS_Difference
  <2> QED BY <1>2, <1>4, <1>5, <2>1
<1>8. sources' = [sources EXCEPT ![s] = r]
  BY DEF dropStream, connKey
<1>9. tab \subseteq sources[s].table /\ act \in Int
  <2> HIDE DEF keys, left
  <2> QED BY <1>1, <1>4
<1> HIDE DEF tab, act
<1>10. r \in SourceRecs /\ r.table = tab /\ r.active = act /\ r.up = sources[s].up /\ r.got = sources[s].got /\ r.late = sources[s].late
  BY <1>1, <1>9 DEF SourceRecs
<1> HIDE DEF r
<1>11. sources' \in [Sources -> SourceRecs] /\ sources'[s] = r /\ \A t \in Sources : t # s => sources'[t] = sources[t]
  BY <1>1, <1>8, <1>10
<1> QED BY <1>6, <1>7, <1>10, <1>11

\* The session of a stream.
LEMMA StreamSession ==
    ASSUME RelInv, NEW i \in DOMAIN pushes
    PROVE  /\ Session(pushes[i].epoch) \in Sources /\ pushes[i].epoch \in DOMAIN sink /\ pushes[i].epoch \in DOMAIN captures
           /\ pushes[i].alive => sources[Session(pushes[i].epoch)].up
<1>1. pushes[i].epoch \in DOMAIN captures /\ captures \in Seq(Captures) /\ Len(sink) = Len(captures) /\ sink \in Seq(Sinks)
      /\ (pushes[i].alive => sources[Session(pushes[i].epoch)].up)
  BY DEF RelInv, Wired, StreamWired, RelTyped
<1>2. captures[pushes[i].epoch] \in Captures
  BY <1>1
<1> QED BY <1>1, <1>2 DEF Captures, Session

\* What a stream is that has ended, and a source whose server has stopped.
LEMMA StreamOver ==
    ASSUME NEW p \in Streams, NEW q \in Seq(Messages)
    PROVE  LET r == [p EXCEPT !.q = q, !.alive = FALSE, !.ids = {}] IN
           r \in Streams /\ r.epoch = p.epoch /\ r.q = q /\ r.alive = FALSE /\ r.ids = {}
  BY DEF Streams

\* A stream that was cut.
LEMMA StreamClosed ==
    ASSUME NEW p \in Streams
    PROVE  LET r == [p EXCEPT !.alive = FALSE, !.q = <<>>, !.ids = {}] IN
           r \in Streams /\ r.epoch = p.epoch /\ r.q = <<>> /\ r.alive = FALSE /\ r.ids = {}
<1>0. <<>> \in Seq(Messages)
  OBVIOUS
<1>1. PICK q \in Seq(Messages) : q = <<>>
  BY <1>0, Zenon
<1> DEFINE w == [p EXCEPT !.alive = FALSE, !.q = q, !.ids = {}]
<1>2. w \in Streams /\ w.epoch = p.epoch /\ w.q = q /\ w.alive = FALSE /\ w.ids = {}
  BY DEF Streams
<1>3. [p EXCEPT !.alive = FALSE, !.q = <<>>, !.ids = {}] = w
  BY <1>1
<1> HIDE DEF w
<1> QED BY <1>1, <1>2, <1>3

\* A source that is closed.
LEMMA SourceOver ==
    ASSUME NEW p \in SourceRecs
    PROVE  LET r == [p EXCEPT !.up = FALSE, !.table = {}, !.active = 0] IN
           r \in SourceRecs /\ r.up = FALSE /\ r.table = {} /\ r.active = 0 /\ r.got = p.got /\ r.late = p.late
<1>1. PICK tab \in SUBSET (Nat \X Ids) : tab = {}
  OBVIOUS
<1>2. PICK act \in Int : act = 0
  OBVIOUS
<1> DEFINE w == [p EXCEPT !.up = FALSE, !.table = tab, !.active = act]
<1>3. w \in SourceRecs /\ w.up = FALSE /\ w.table = tab /\ w.active = act /\ w.got = p.got /\ w.late = p.late
  BY DEF SourceRecs
<1> QED BY <1>1, <1>2, <1>3

\* A stream that ends: its connections are forgotten.
LEMMA StreamEnds ==
    ASSUME RelInv, NEW i \in DOMAIN pushes, NEW q \in Seq(Messages), pushes[i].alive,
           q = <<>> \/ (pushes[i].q # <<>> /\ q = Tail(pushes[i].q)),
           pushes' = [pushes EXCEPT ![i].q = q, ![i].alive = FALSE, ![i].ids = {}],
           dropStream(Session(pushes[i].epoch), i), cut \subseteq cut',
           sink[pushes[i].epoch].open => pushes[i].epoch \in cut' /\ q = <<>>,
           UNCHANGED <<gate, captures, sink, conn, fwd, lost>>
    PROVE  RelInv'
<1>1. PICK s \in Sources : s = Session(pushes[i].epoch)
  BY StreamSession
<1>2. /\ sources' \in [Sources -> SourceRecs]
      /\ \A t \in Sources : /\ t # s => sources'[t] = sources[t]
                            /\ sources'[t].up = sources[t].up /\ sources'[t].got = sources[t].got /\ sources'[t].late = sources[t].late
      /\ sources'[s].table = {key \in sources[s].table : key[1] # i}
      /\ sources'[s].active = Cardinality(sources'[s].table)
  BY <1>1, Dropped
<1>3. /\ pushes' \in Seq(Streams) /\ DOMAIN pushes' = DOMAIN pushes /\ \A j \in DOMAIN pushes : j # i => pushes'[j] = pushes[j]
      /\ pushes'[i].epoch = pushes[i].epoch /\ pushes'[i].q = q /\ pushes'[i].alive = FALSE /\ pushes'[i].ids = {}
  <2> DEFINE w == [pushes[i] EXCEPT !.q = q, !.alive = FALSE, !.ids = {}]
  <2>1. pushes \in Seq(Streams) /\ pushes[i] \in Streams
    BY DEF RelInv, RelTyped
  <2>2. w \in Streams /\ w.epoch = pushes[i].epoch /\ w.q = q /\ w.alive = FALSE /\ w.ids = {}
    BY <2>1, StreamOver
  <2>3. pushes' = [pushes EXCEPT ![i] = w]
    OBVIOUS
  <2> HIDE DEF w
  <2> QED BY <2>1, <2>2, <2>3
<1>4. RelTyped'
  BY <1>2, <1>3 DEF RelInv, RelTyped
<1>5. \A t \in Sources : sources'[t].active = Cardinality(sources'[t].table)
  BY <1>2 DEF RelInv, Counted
<1>6. ASSUME NEW t \in Sources
      PROVE  /\ sources'[t].table \subseteq sources[t].table /\ \A key \in sources'[t].table : key[1] # i
             /\ \A key \in sources[t].table : key[1] # i => key \in sources'[t].table
  <2>1. CASE t = s
    BY <1>2, <2>1
  <2>2. CASE t # s
    <3>1. ASSUME NEW key \in sources[t].table, key[1] = i PROVE FALSE
      BY <1>1, <2>2, <3>1 DEF RelInv, Counted
    <3> QED BY <1>2, <2>2, <3>1
  <2> QED BY <2>1, <2>2
<1>7. Ends({i})
  <2>1. \A j \in DOMAIN pushes : pushes[j].alive => sources'[Session(pushes[j].epoch)].up
    BY <1>2, StreamSession
  <2> QED BY <1>2, <1>3, <1>6, <2>1 DEF Ends
<1> QED BY <1>4, <1>5, <1>7, EndsStep

\* A stream breaks.
LEMMA StreamBreaksStep ==
    ASSUME RelInv, NEW i \in DOMAIN pushes, StreamBreaks(i)
    PROVE  RelInv'
<1>1. /\ pushes[i].alive /\ cut' = cut \cup {pushes[i].epoch}
      /\ dropStream(Session(pushes[i].epoch), i) /\ UNCHANGED <<gate, captures, sink, conn, fwd, lost>>
      /\ pushes' = [pushes EXCEPT ![i].alive = FALSE, ![i].q = <<>>, ![i].ids = {}]
  BY DEF StreamBreaks, gateVars
<1>2. pushes' = [pushes EXCEPT ![i].q = <<>>, ![i].alive = FALSE, ![i].ids = {}]
  <2>1. pushes[i] \in Streams
    BY StreamTyped DEF RelInv
  <2>2. [pushes[i] EXCEPT !.alive = FALSE, !.q = <<>>, !.ids = {}] = [pushes[i] EXCEPT !.q = <<>>, !.alive = FALSE, !.ids = {}]
    BY <2>1 DEF Streams
  <2> QED BY <1>1, <2>2
<1>3. cut \subseteq cut' /\ pushes[i].epoch \in cut' /\ <<>> \in Seq(Messages)
  BY <1>1
<1> QED BY <1>1, <1>2, <1>3, StreamEnds

\* A session ends, and its streams with it.
LEMMA SourceClosesStep ==
    ASSUME RelInv, NEW s \in Sources, SourceCloses(s)
    PROVE  RelInv'
<1> DEFINE own == {i \in DOMAIN pushes : pushes[i].alive /\ Session(pushes[i].epoch) = s}
           r == [sources[s] EXCEPT !.up = FALSE, !.table = {}, !.active = 0]
           Over(i) == [pushes[i] EXCEPT !.alive = FALSE, !.q = <<>>, !.ids = {}]
<1>1. /\ sources' = [sources EXCEPT ![s] = r]
      /\ pushes' = [i \in DOMAIN pushes |-> IF i \in own THEN Over(i) ELSE pushes[i]]
      /\ cut' = cut \cup {pushes[i].epoch : i \in own}
      /\ UNCHANGED <<gate, captures, sink, conn, fwd, lost>>
  BY DEF SourceCloses, gateVars
<1>2. sources \in [Sources -> SourceRecs] /\ pushes \in Seq(Streams) /\ sources[s] \in SourceRecs
  BY DEF RelInv, RelTyped
<1>3. r \in SourceRecs /\ r.up = FALSE /\ r.table = {} /\ r.active = 0 /\ r.got = sources[s].got /\ r.late = sources[s].late
  BY <1>2, SourceOver
<1>4. \A i \in DOMAIN pushes :
        Over(i) \in Streams /\ Over(i).epoch = pushes[i].epoch /\ Over(i).alive = FALSE /\ Over(i).q = <<>> /\ Over(i).ids = {}
  <2>1. ASSUME NEW i \in DOMAIN pushes
        PROVE  Over(i) \in Streams /\ Over(i).epoch = pushes[i].epoch /\ Over(i).alive = FALSE /\ Over(i).q = <<>> /\ Over(i).ids = {}
    <3>1. pushes[i] \in Streams
      BY <1>2
    <3> QED BY <3>1, StreamClosed
  <2> QED BY <2>1
<1> HIDE DEF r, Over
<1>5. sources' \in [Sources -> SourceRecs] /\ sources'[s] = r /\ \A t \in Sources : t # s => sources'[t] = sources[t]
  BY <1>1, <1>2, <1>3
<1>6. own \subseteq DOMAIN pushes
  OBVIOUS
<1>7. DOMAIN pushes' = DOMAIN pushes /\ \A i \in DOMAIN pushes : pushes'[i] = IF i \in own THEN Over(i) ELSE pushes[i]
  BY <1>1
<1>8. pushes' \in Seq(Streams)
  <2>1. PICK n \in Nat : DOMAIN pushes = 1..n
    BY <1>2
  <2>2. \A i \in DOMAIN pushes : pushes'[i] \in Streams
    BY <1>2, <1>4, <1>7
  <2>3. pushes' \in [1..n -> Streams]
    <3> HIDE DEF own
    <3> QED BY <1>1, <1>7, <2>1, <2>2
  <2> QED BY <2>3
<1>9. RelTyped'
  BY <1>1, <1>5, <1>8 DEF RelInv, RelTyped
<1>10. \A t \in Sources : sources'[t].active = Cardinality(sources'[t].table)
  BY <1>3, <1>5, FS_EmptySet DEF RelInv, Counted
<1>11. ASSUME NEW t \in Sources
      PROVE  /\ sources'[t].table \subseteq sources[t].table /\ \A key \in sources'[t].table : key[1] \notin own
             /\ sources'[t].up => t # s /\ sources[t].up /\ sources'[t].table = sources[t].table
             /\ sources'[t].got = sources[t].got /\ sources'[t].late = sources[t].late
  <2>1. CASE t = s
    BY <1>3, <1>5, <2>1
  <2>2. CASE t # s
    <3>1. ASSUME NEW key \in sources[t].table, key[1] \in own PROVE FALSE
      BY <2>2, <3>1 DEF RelInv, Counted
    <3> QED BY <1>5, <2>2, <3>1
  <2> QED BY <2>1, <2>2
<1>12. ASSUME NEW i \in DOMAIN pushes, pushes[i].alive, i \notin own PROVE sources'[Session(pushes[i].epoch)].up
  <2>1. Session(pushes[i].epoch) # s
    BY <1>12
  <2>2. Session(pushes[i].epoch) \in Sources /\ sources[Session(pushes[i].epoch)].up
    BY <1>12, StreamSession
  <2> QED BY <1>5, <2>1, <2>2
<1>13. ASSUME NEW i \in own PROVE pushes[i].epoch \in cut'
  BY <1>1
<1> HIDE DEF own
<1>14. Ends(own)
  BY <1>1, <1>4, <1>6, <1>7, <1>11, <1>12, <1>13 DEF Ends
<1> QED BY <1>9, <1>10, <1>14, EndsStep

-----------------------------------------------------------------------------
(***************************************************************************)
(* A message is received.                                                  *)
(***************************************************************************)

\* The first message m of stream i reaches the source of session s.
Received(i, m, s) ==
    /\ UNCHANGED <<gate, captures, sink, conn, fwd, cut>>
    /\ pushes[i].alive /\ pushes[i].q # <<>> /\ m = pushes[i].q[1] /\ m.ev # "eof" /\ s = Session(pushes[i].epoch)
    /\ DOMAIN pushes' = DOMAIN pushes /\ \A j \in DOMAIN pushes : j # i => pushes'[j] = pushes[j]
    /\ pushes'[i].epoch = pushes[i].epoch /\ pushes'[i].alive /\ pushes'[i].q = Tail(pushes[i].q)
    /\ \A t \in Sources : sources'[t].up = sources[t].up /\ (t # s => sources'[t] = sources[t])
    /\ \A o \in sources'[s].got : o \in sources[s].got \/ (m.ev = "data" /\ SameWay(m, o) /\ o.n = m.n)
    /\ \A id \in sources'[s].late : id \in sources[s].late
          \/ (m.ev = "data" /\ id = m.id /\ \E o \in sources[s].got : SameWay(m, o) /\ o.n >= m.n)
    /\ m.ev = "open" => <<i, m.id>> \in sources'[s].table
    /\ \A key \in sources[s].table : key \in sources'[s].table \/ (m.ev = "close" /\ key = <<i, m.id>>)
    /\ \A id \in lost' : id \in lost \/ (m.ev = "data" /\ id = m.id /\ <<i, m.id>> \notin sources[s].table)

\* What is known of the message.
LEMMA FirstMessage ==
    ASSUME RelInv, NEW i \in DOMAIN pushes, pushes[i].q # <<>>, NEW m, m = pushes[i].q[1]
    PROVE  /\ m \in Messages /\ 1 \in DOMAIN pushes[i].q /\ pushes[i].q \in Seq(Messages)
           /\ Session(pushes[i].epoch) \in Sources /\ pushes[i].epoch \in DOMAIN sink /\ pushes[i].epoch \in DOMAIN captures
           /\ m.ev \in {"open", "close", "data", "eof"}
           /\ IF m.ev = "eof" THEN ~sink[pushes[i].epoch].open ELSE m.id \in Ids /\ m.id[2] = pushes[i].epoch
           /\ m.ev = "data" => m.dir \in Directions /\ m.n \in Nat
<1>1. pushes[i].q \in Seq(Messages)
  BY StreamTyped DEF RelInv
<1>2. 1 \in DOMAIN pushes[i].q /\ m \in Messages
  BY <1>1, Tailed
<1>3. IF m.ev = "eof" THEN ~sink[pushes[i].epoch].open ELSE m.id[2] = pushes[i].epoch
  BY <1>2 DEF RelInv, Wired, StreamWired
<1> QED BY <1>1, <1>2, <1>3, MessageParts, StreamSession

\* While its capture goes on, no other stream of it has a message.
LEMMA OnlyStream ==
    ASSUME RelInv, NEW i \in DOMAIN pushes, NEW j \in DOMAIN pushes, pushes[i].alive,
           pushes[j].epoch = pushes[i].epoch, sink[pushes[i].epoch].open, i # j
    PROVE  pushes[j].q = <<>>
  BY DEF RelInv, Wired, StreamWired

\* A message is received: it was read before and belongs to the session.
LEMMA ReceivedRead ==
    ASSUME RelInv, RelTyped', NEW i \in DOMAIN pushes, NEW m, NEW s \in Sources, Received(i, m, s)
    PROVE  Read' /\ GotOwn' /\ Known'
<1>1. RelTyped /\ Read /\ GotOwn /\ Known
  BY DEF RelInv
<1>2. UNCHANGED <<gate, captures, sink, conn, fwd, cut>> /\ DOMAIN pushes' = DOMAIN pushes
  BY DEF Received
<1>3. /\ m \in Messages /\ 1 \in DOMAIN pushes[i].q /\ pushes[i].q \in Seq(Messages)
      /\ pushes[i].epoch \in DOMAIN captures /\ m.id \in Ids /\ m.id[2] = pushes[i].epoch
      /\ m = pushes[i].q[1] /\ pushes[i].q # <<>>
  BY FirstMessage DEF Received
<1>4. captures[m.id[2]].session = s /\ m.id[2] <= Len(captures)
  <2>1. captures \in Seq(Captures)
    BY <1>1 DEF RelTyped
  <2>2. m.id[2] <= Len(captures)
    BY <1>3, <2>1
  <2> QED BY <1>3, <2>2 DEF Received, Session
<1>5. ASSUME NEW j \in DOMAIN pushes, NEW l \in DOMAIN pushes'[j].q, pushes'[j].q[l].ev = "data"
      PROVE  Numbered(fwd, pushes'[j].q[l])
  <2>1. CASE j = i
    <3>2. pushes'[i].q = Tail(pushes[i].q) /\ l \in DOMAIN pushes'[i].q
      BY <1>5, <2>1 DEF Received
    <3>1. l + 1 \in DOMAIN pushes[i].q /\ pushes'[i].q[l] = pushes[i].q[l + 1]
      BY <1>3, <3>2, Tailed
    <3> QED BY <1>1, <1>5, <2>1, <3>1 DEF Read
  <2>2. CASE j # i
    BY <1>1, <1>5, <2>2 DEF Received, Read
  <2> QED BY <2>1, <2>2
<1>6. ASSUME NEW t \in Sources, NEW o \in sources'[t].got
      PROVE  Numbered(fwd, o) /\ captures[o.id[2]].session = t /\ o.id[2] <= Len(captures)
  <2>1. CASE o \in sources[t].got
    BY <1>1, <1>6, <2>1 DEF Read, GotOwn, Session, Known
  <2>2. CASE t = s /\ m.ev = "data" /\ SameWay(m, o) /\ o.n = m.n
    <3>1. Numbered(fwd, m)
      BY <1>1, <1>3, <2>2 DEF Read
    <3>2. o.id = m.id /\ o.dir = m.dir /\ o.n = m.n
      BY <2>2 DEF SameWay
    <3> QED BY <1>4, <2>2, <3>1, <3>2 DEF Numbered
  <2> QED BY <1>6, <2>1, <2>2 DEF Received
<1>7. ASSUME NEW t \in Sources, NEW id \in sources'[t].late PROVE id[2] <= Len(captures)
  <2>1. id \in sources[t].late \/ id = m.id
    BY <1>7 DEF Received
  <2> QED BY <1>1, <1>4, <1>7, <2>1 DEF Known
<1>8. ASSUME NEW id \in lost' PROVE id[2] <= Len(captures)
  <2>1. id \in lost \/ id = m.id
    BY <1>8 DEF Received
  <2> QED BY <1>1, <1>4, <2>1 DEF Known
<1>9. Read'
  BY <1>2, <1>5, <1>6 DEF Read
<1>10. GotOwn'
  BY <1>2, <1>6 DEF GotOwn, Session
<1>11. Known'
  BY <1>1, <1>2, <1>6, <1>7, <1>8 DEF Known
<1> QED BY <1>9, <1>10, <1>11

\* ... it comes in order.
LEMMA ReceivedOrdered ==
    ASSUME RelInv, RelTyped', NEW i \in DOMAIN pushes, NEW m, NEW s \in Sources, Received(i, m, s)
    PROVE  Ordered' /\ LateClosed'
<1>1. RelTyped /\ Ordered /\ LateClosed /\ Wired
  BY DEF RelInv
<1>2. UNCHANGED <<gate, captures, sink, conn, fwd, cut>> /\ DOMAIN pushes' = DOMAIN pushes
  BY DEF Received
<1>3. /\ m \in Messages /\ 1 \in DOMAIN pushes[i].q /\ pushes[i].q \in Seq(Messages)
      /\ pushes[i].epoch \in DOMAIN captures /\ m.id \in Ids /\ m.id[2] = pushes[i].epoch
      /\ m = pushes[i].q[1] /\ pushes[i].q # <<>> /\ s = Session(pushes[i].epoch) /\ pushes[i].alive
      /\ pushes'[i].q = Tail(pushes[i].q) /\ (m.ev = "data" => m.n \in Nat)
  BY FirstMessage DEF Received
<1>4. \A o \in sources'[s].got : o \in sources[s].got \/ (m.ev = "data" /\ SameWay(m, o) /\ o.n = m.n)
  BY DEF Received
<1>5. ASSUME NEW j \in DOMAIN pushes, sink[pushes[j].epoch].open
      PROVE  InOrder(pushes'[j].q) /\ \A t \in Sources : t = Session(pushes[j].epoch) => AfterGot(pushes'[j].q, sources'[t].got)
  <2>1. InOrder(pushes[j].q) /\ AfterGot(pushes[j].q, sources[Session(pushes[j].epoch)].got)
    BY <1>1, <1>5 DEF Ordered
  <2>2. CASE j = i
    <3> DEFINE q == pushes[i].q got == sources[s].got new == sources'[s].got
    <3>1. q \in Seq(Messages) /\ q # <<>> /\ InOrder(q) /\ AfterGot(q, got)
      BY <1>3, <2>1, <2>2
    <3>2. \A o \in new : o \in got \/ (q[1].ev = "data" /\ SameWay(q[1], o) /\ o.n = q[1].n)
      BY <1>3, <1>4
    <3> HIDE DEF q, got, new
    <3>3. InOrder(Tail(q)) /\ AfterGot(Tail(q), new)
      BY <3>1, <3>2, OrderTail, GotTail
    <3> QED BY <1>3, <2>2, <3>3 DEF q, new
  <2>3. CASE j # i
    <3>1. pushes'[j] = pushes[j]
      BY <2>3 DEF Received
    <3>2. ASSUME NEW t \in Sources, t = Session(pushes[j].epoch), NEW l \in DOMAIN pushes[j].q, NEW o \in sources'[t].got,
                 pushes[j].q[l].ev = "data", SameWay(pushes[j].q[l], o)
          PROVE  o.n < pushes[j].q[l].n
      <4>1. CASE o \in sources[t].got
        BY <2>1, <3>2, <4>1 DEF AfterGot
      <4>2. CASE t = s /\ SameWay(m, o)
        <5>1. pushes[j].q[l].id = m.id
          BY <3>2, <4>2 DEF SameWay
        <5>2. pushes[j].q[l].id[2] = pushes[j].epoch
          BY <1>1, <3>2 DEF Wired, StreamWired
        <5>3. pushes[j].epoch = pushes[i].epoch
          BY <1>3, <5>1, <5>2
        <5>4. pushes[j].q = <<>>
          BY <1>3, <1>5, <2>3, <5>3, OnlyStream
        <5> QED BY <3>2, <5>4
      <4> QED BY <1>4, <3>2, <4>1, <4>2 DEF Received
    <3>3. \A t \in Sources : t = Session(pushes[j].epoch) => AfterGot(pushes[j].q, sources'[t].got)
      BY <3>2 DEF AfterGot
    <3> QED BY <2>1, <3>1, <3>3
  <2> QED BY <2>2, <2>3
<1>6. \A j \in DOMAIN pushes : Session(pushes[j].epoch) \in Sources /\ pushes'[j].epoch = pushes[j].epoch
  BY StreamSession DEF Received
<1>7. Ordered'
  BY <1>2, <1>5, <1>6 DEF Ordered, Session
<1>8. ASSUME NEW t \in Sources, NEW id \in sources'[t].late PROVE ~sink[id[2]].open
  <2>1. CASE id \in sources[t].late
    BY <1>1, <1>8, <2>1 DEF LateClosed
  <2>2. ASSUME t = s, m.ev = "data", id = m.id, NEW o \in sources[s].got, SameWay(m, o), o.n >= m.n PROVE ~sink[id[2]].open
    <3> SUFFICES ASSUME sink[pushes[i].epoch].open PROVE FALSE
      BY <1>3, <2>2
    <3>1. AfterGot(pushes[i].q, sources[s].got)
      BY <1>1, <1>3 DEF Ordered
    <3>2. o.n < m.n
      BY <1>3, <2>2, <3>1 DEF AfterGot
    <3>3. o.n \in Nat
      BY <1>1, SourceTyped
    <3> QED BY <1>3, <2>2, <3>2, <3>3
  <2> QED BY <1>8, <2>1, <2>2 DEF Received
<1>9. LateClosed'
  BY <1>2, <1>8 DEF LateClosed
<1> QED BY <1>7, <1>9

\* Who was announced still is: only the close of a connection that is done takes it out.
LEMMA ReceivedKeeps ==
    ASSUME RelInv, NEW i \in DOMAIN pushes, NEW m, NEW s \in Sources, Received(i, m, s),
           NEW k \in Phones, conn[k].at # "done", NEW x, Holding(x), Announced(k, x)
    PROVE  Announced(k, x)'
<1>1. RelTyped /\ Clients /\ ClosedDone
  BY DEF RelInv
<1>2. /\ m \in Messages /\ 1 \in DOMAIN pushes[i].q /\ pushes[i].q \in Seq(Messages)
      /\ m = pushes[i].q[1] /\ pushes[i].q # <<>> /\ s = Session(pushes[i].epoch)
      /\ pushes'[i].q = Tail(pushes[i].q)
  BY FirstMessage DEF Received
<1> DEFINE st == sink[x].stream id == <<k, x>>
<1>3. st # 0 /\ x \in DOMAIN sink /\ (<<st, id>> \in sources[Session(x)].table \/ Opens(pushes[st].q, id))
  BY DEF Announced, Holding
<1>4. st \in DOMAIN pushes /\ pushes[st].epoch = x
  BY <1>1, <1>3 DEF Clients
<1>5. Session(x) \in Sources /\ Session(x)' = Session(x) /\ sink' = sink
  BY <1>4, StreamSession DEF Received, Session
<1>6. ~(m.ev = "close" /\ m.id = id)
  BY <1>1, <1>2 DEF ClosedDone
<1>7. CASE <<st, id>> \in sources[Session(x)].table
  <2>1. <<st, id>> \in sources'[Session(x)].table
    <3>1. CASE Session(x) = s
      <4>1. ~(m.ev = "close" /\ <<st, id>> = <<i, m.id>>)
        BY <1>6
      <4> QED BY <1>7, <3>1, <4>1 DEF Received
    <3>2. CASE Session(x) # s
      BY <1>5, <1>7, <3>2 DEF Received
    <3> QED BY <3>1, <3>2
  <2> QED BY <1>3, <1>5, <2>1 DEF Announced
<1>8. CASE Opens(pushes[st].q, id)
  <2>1. CASE st # i
    <3>1. pushes'[st] = pushes[st]
      BY <1>4, <2>1 DEF Received
    <3> QED BY <1>3, <1>5, <1>8, <3>1 DEF Announced
  <2>2. CASE st = i
    <3>1. PICK l \in DOMAIN pushes[i].q : pushes[i].q[l].ev = "open" /\ pushes[i].q[l].id = id
      BY <1>8, <2>2 DEF Opens
    <3>2. CASE l = 1
      <4>1. <<st, id>> \in sources'[Session(x)].table
        BY <1>2, <1>4, <2>2, <3>1, <3>2 DEF Received
      <4> QED BY <1>3, <1>5, <4>1 DEF Announced
    <3>3. CASE l # 1
      <4>1. l - 1 \in DOMAIN pushes'[i].q /\ pushes'[i].q[l - 1] = pushes[i].q[l]
        BY <1>2, <3>1, <3>3, Tailed
      <4>2. Opens(pushes'[st].q, id)
        BY <2>2, <3>1, <4>1 DEF Opens
      <4> QED BY <1>3, <1>5, <4>2 DEF Announced
    <3> QED BY <3>2, <3>3
  <2> QED BY <2>1, <2>2
<1> QED BY <1>3, <1>7, <1>8

\* ... its connection is known.
LEMMA ReceivedQueues ==
    ASSUME RelInv, RelTyped', NEW i \in DOMAIN pushes, NEW m, NEW s \in Sources, Received(i, m, s)
    PROVE  QueuesAnnounced' /\ NothingUnannounced'
<1>1. RelTyped /\ QueuesAnnounced /\ NothingUnannounced /\ ClosedDone /\ Wired
  BY DEF RelInv
<1>2. UNCHANGED <<gate, captures, sink, conn, fwd, cut>> /\ DOMAIN pushes' = DOMAIN pushes
  BY DEF Received
<1>3. /\ m \in Messages /\ 1 \in DOMAIN pushes[i].q /\ pushes[i].q \in Seq(Messages)
      /\ m.id \in Ids /\ m.id[2] = pushes[i].epoch /\ pushes[i].epoch \in DOMAIN sink
      /\ m = pushes[i].q[1] /\ pushes[i].q # <<>> /\ s = Session(pushes[i].epoch) /\ pushes[i].alive
      /\ pushes'[i].q = Tail(pushes[i].q)
  BY FirstMessage DEF Received
<1>4. /\ m.ev = "open" => <<i, m.id>> \in sources'[s].table
      /\ \A key \in sources[s].table : key \in sources'[s].table \/ (m.ev = "close" /\ key = <<i, m.id>>)
  BY DEF Received
<1>5. \A j \in DOMAIN pushes : /\ Session(pushes[j].epoch) \in Sources /\ pushes'[j].epoch = pushes[j].epoch
                               /\ sources'[Session(pushes[j].epoch)].up = sources[Session(pushes[j].epoch)].up
  BY StreamSession DEF Received
<1>6. ASSUME NEW j \in DOMAIN pushes, Holding(pushes[j].epoch)
      PROVE  Preceded(j, pushes'[j].q, sources'[Session(pushes[j].epoch)].table)
  <2>1. Preceded(j, pushes[j].q, sources[Session(pushes[j].epoch)].table)
    BY <1>1, <1>6 DEF QueuesAnnounced
  <2>2. CASE j = i
    <3> DEFINE q == pushes[i].q table == sources[s].table new == sources'[s].table
    <3>1. q \in Seq(Messages) /\ q # <<>> /\ Preceded(i, q, table) /\ ClosedLast(q)
      BY <1>1, <1>3, <2>1, <2>2 DEF ClosedDone
    <3>2. /\ q[1].ev = "open" => <<i, q[1].id>> \in new
          /\ \A key \in table : key \in new \/ (q[1].ev = "close" /\ key = <<i, q[1].id>>)
      BY <1>3, <1>4
    <3> HIDE DEF q, table, new
    <3>3. Preceded(i, Tail(q), new)
      BY <3>1, <3>2, PrecededTail
    <3> QED BY <1>3, <2>2, <3>3 DEF q, new
  <2>3. CASE j # i
    <3>1. pushes'[j] = pushes[j]
      BY <2>3 DEF Received
    <3>2. \A t \in Sources : \A id : <<j, id>> \in sources[t].table => <<j, id>> \in sources'[t].table
      <4>1. ASSUME NEW t \in Sources, NEW id, <<j, id>> \in sources[t].table PROVE <<j, id>> \in sources'[t].table
        <5>1. CASE t = s
          BY <1>4, <2>3, <4>1, <5>1
        <5>2. CASE t # s
          BY <4>1, <5>2 DEF Received
        <5> QED BY <5>1, <5>2
      <4> QED BY <4>1
    <3>3. Session(pushes[j].epoch) \in Sources
      BY StreamSession
    <3> QED BY <2>1, <3>1, <3>2, <3>3 DEF Preceded
  <2> QED BY <2>2, <2>3
<1>7. QueuesAnnounced'
  BY <1>2, <1>5, <1>6 DEF QueuesAnnounced, Holding, Session
<1>8. ASSUME NEW id \in lost' PROVE id[2] \in cut \/ ~sink[id[2]].open
  <2>1. CASE id \in lost
    BY <1>1, <2>1 DEF NothingUnannounced
  <2>2. CASE m.ev = "data" /\ id = m.id /\ <<i, m.id>> \notin sources[s].table
    <3> SUFFICES ASSUME pushes[i].epoch \notin cut, sink[pushes[i].epoch].open PROVE FALSE
      BY <1>3, <2>2
    <3>1. sources[s].up
      BY <1>3, StreamSession
    <3>2. Holding(pushes[i].epoch)
      BY <1>3, <3>1 DEF Holding
    <3>3. Preceded(i, pushes[i].q, sources[s].table)
      BY <1>1, <1>3, <3>2 DEF QueuesAnnounced
    <3>4. PICK l \in DOMAIN pushes[i].q : l < 1
      BY <1>3, <2>2, <3>3 DEF Preceded
    <3>5. l \in 1..Len(pushes[i].q)
      BY <1>3
    <3> QED BY <3>4, <3>5
  <2> QED BY <1>8, <2>1, <2>2 DEF Received
<1>9. NothingUnannounced'
  BY <1>2, <1>8 DEF NothingUnannounced
<1> QED BY <1>7, <1>9

\* A message that is not the end of its stream is received.
LEMMA ReceivedStep ==
    ASSUME RelInv, RelTyped', Counted', NEW i \in DOMAIN pushes, NEW m, NEW s \in Sources, Received(i, m, s)
    PROVE  RelInv'
<1>1. /\ RelTyped /\ Clients /\ Wired /\ Relaying /\ ClosedDone /\ ConnsAnnounced /\ ChunksAnnounced
  BY DEF RelInv
<1>2. UNCHANGED <<gate, captures, sink, conn, fwd, cut>> /\ DOMAIN pushes' = DOMAIN pushes
  BY DEF Received
<1>3. /\ pushes[i].q \in Seq(Messages) /\ pushes[i].q # <<>> /\ pushes[i].alive
      /\ pushes'[i].q = Tail(pushes[i].q) /\ pushes'[i].epoch = pushes[i].epoch /\ pushes'[i].alive
  BY FirstMessage DEF Received
<1>4. \A j \in DOMAIN pushes : /\ pushes'[j].epoch = pushes[j].epoch
                               /\ sources'[Session(pushes[j].epoch)].up = sources[Session(pushes[j].epoch)].up
  BY StreamSession DEF Received
<1>5. \A l \in DOMAIN pushes'[i].q : l + 1 \in DOMAIN pushes[i].q /\ pushes'[i].q[l] = pushes[i].q[l + 1]
  BY <1>3, Tailed
<1>6. Clients'
  BY <1>1, <1>2, <1>4 DEF Clients
<1>7. ASSUME NEW j \in DOMAIN pushes PROVE StreamWired(j)'
  <2>1. StreamWired(j)
    BY <1>1 DEF Wired
  <2>2. CASE j = i
    <3>1. \A l \in DOMAIN pushes'[i].q : IF pushes'[i].q[l].ev = "eof" THEN ~sink[pushes[i].epoch].open ELSE pushes'[i].q[l].id[2] = pushes[i].epoch
      BY <1>5, <2>1, <2>2 DEF StreamWired
    <3> QED BY <1>2, <1>3, <1>4, <2>1, <2>2, <3>1 DEF StreamWired, Session
  <2>3. CASE j # i
    <3>1. pushes'[j] = pushes[j]
      BY <2>3 DEF Received
    <3> QED BY <1>2, <1>4, <2>1, <3>1 DEF StreamWired, Session
  <2> QED BY <2>2, <2>3
<1>8. Wired'
  BY <1>2, <1>7 DEF Wired
<1>9. Relaying'
  BY <1>1, <1>2 DEF Relaying
<1>10. ClosedDone'
  <2>1. ASSUME NEW j \in DOMAIN pushes
        PROVE  /\ ClosedLast(pushes'[j].q)
               /\ \A l \in DOMAIN pushes'[j].q : pushes'[j].q[l].ev = "close" => conn[pushes'[j].q[l].id[1]].at = "done"
    <3>1. CASE j = i
      <4>1. ClosedLast(pushes[i].q)
        BY <1>1 DEF ClosedDone
      <4>2. ClosedLast(pushes'[i].q)
        BY <1>3, <4>1, ClosedTail
      <4> QED BY <1>1, <1>5, <3>1, <4>2 DEF ClosedDone
    <3>2. CASE j # i
      BY <1>1, <3>2 DEF ClosedDone, Received
    <3> QED BY <3>1, <3>2
  <2> QED BY <1>2, <2>1 DEF ClosedDone
<1>11. ASSUME NEW x, Holding(x)' PROVE Holding(x)
  <2>1. x \in DOMAIN sink /\ sink[x].open /\ x \notin cut /\ sources'[Session(x)].up
    BY <1>2, <1>11 DEF Holding, Session
  <2>2. x \in DOMAIN captures /\ captures \in Seq(Captures)
    BY <1>1, <2>1 DEF RelTyped
  <2>3. captures[x] \in Captures
    BY <2>2
  <2>4. sources[Session(x)].up
    BY <2>1, <2>3 DEF Received, Session, Captures
  <2> QED BY <2>1, <2>4 DEF Holding
<1>12. ConnsAnnounced'
  <2>1. ASSUME NEW k \in Phones, NEW x, x = conn[k].epoch, conn[k].opened, conn[k].at # "done", Holding(x)'
        PROVE  Announced(k, x)'
    BY <1>1, <1>11, <2>1, ReceivedKeeps DEF ConnsAnnounced
  <2> QED BY <1>2, <2>1 DEF ConnsAnnounced, Holding, Announced, Session
<1>13. ChunksAnnounced'
  <2>1. ASSUME NEW f \in Phones \X Directions, NEW x, x = fwd[f].st, fwd[f].at = "send", Holding(x)'
        PROVE  Announced(f[1], x)'
    <3>1. f[1] \in Phones /\ conn[f[1]].at # "done"
      BY <1>1, <2>1 DEF Relaying
    <3> QED BY <1>1, <1>11, <2>1, <3>1, ReceivedKeeps DEF ChunksAnnounced
  <2> QED BY <1>2, <2>1 DEF ChunksAnnounced, Holding, Announced, Session
<1>14. Read' /\ GotOwn' /\ Known'
  BY ReceivedRead
<1>15. Ordered' /\ LateClosed'
  BY ReceivedOrdered
<1>16. QueuesAnnounced' /\ NothingUnannounced'
  BY ReceivedQueues
<1> QED BY <1>6, <1>8, <1>9, <1>10, <1>12, <1>13, <1>14, <1>15, <1>16 DEF RelInv

\* A source is set to a new record.
LEMMA TableSet ==
    ASSUME RelInv, NEW s \in Sources, NEW tab \in SUBSET (Nat \X Ids), NEW act \in Int,
           sources' = [sources EXCEPT ![s].table = tab, ![s].active = act]
    PROVE  /\ sources' \in [Sources -> SourceRecs] /\ \A t \in Sources : t # s => sources'[t] = sources[t]
           /\ sources'[s].table = tab /\ sources'[s].active = act
           /\ sources'[s].up = sources[s].up /\ sources'[s].got = sources[s].got /\ sources'[s].late = sources[s].late
<1> DEFINE r == [sources[s] EXCEPT !.table = tab, !.active = act]
<1>1. sources \in [Sources -> SourceRecs] /\ sources[s] \in SourceRecs
  BY DEF RelInv, RelTyped
<1>2. r \in SourceRecs /\ r.table = tab /\ r.active = act /\ r.up = sources[s].up /\ r.got = sources[s].got /\ r.late = sources[s].late
  BY <1>1 DEF SourceRecs
<1>3. sources' = [sources EXCEPT ![s] = r]
  OBVIOUS
<1> HIDE DEF r
<1> QED BY <1>1, <1>2, <1>3

\* What a source has received changes.
LEMMA GotSet ==
    ASSUME RelInv, NEW s \in Sources, NEW got \in SUBSET Packets, NEW late \in SUBSET Ids,
           sources' = [sources EXCEPT ![s].got = got, ![s].late = late]
    PROVE  /\ sources' \in [Sources -> SourceRecs] /\ \A t \in Sources : t # s => sources'[t] = sources[t]
           /\ sources'[s].got = got /\ sources'[s].late = late
           /\ sources'[s].up = sources[s].up /\ sources'[s].table = sources[s].table /\ sources'[s].active = sources[s].active
<1> DEFINE r == [sources[s] EXCEPT !.got = got, !.late = late]
<1>1. sources \in [Sources -> SourceRecs] /\ sources[s] \in SourceRecs
  BY DEF RelInv, RelTyped
<1>2. r \in SourceRecs /\ r.got = got /\ r.late = late /\ r.up = sources[s].up /\ r.table = sources[s].table /\ r.active = sources[s].active
  BY <1>1 DEF SourceRecs
<1>3. sources' = [sources EXCEPT ![s] = r]
  OBVIOUS
<1> HIDE DEF r
<1> QED BY <1>1, <1>2, <1>3

\* The connections stay counted when one of stream i comes or goes.
LEMMA MessageCounted ==
    ASSUME RelInv, NEW i \in DOMAIN pushes, NEW s \in Sources, s = Session(pushes[i].epoch), captures' = captures,
           DOMAIN pushes' = DOMAIN pushes, \A j \in DOMAIN pushes : j # i => pushes'[j] = pushes[j],
           pushes'[i].epoch = pushes[i].epoch, pushes'[i].alive, IsFiniteSet(pushes'[i].ids),
           \A t \in Sources : t # s => sources'[t] = sources[t],
           IsFiniteSet(sources'[s].table), sources'[s].active = Cardinality(sources'[s].table),
           \A key \in sources'[s].table : key \in sources[s].table \/ key[1] = i,
           \A key \in sources'[s].table : key[1] = i => key[2] \in pushes'[i].ids
    PROVE  Counted'
<1>1. Counted
  BY DEF RelInv
<1>2. ASSUME NEW j \in DOMAIN pushes PROVE IsFiniteSet(pushes'[j].ids)
  BY <1>1 DEF Counted
<1>3. ASSUME NEW t \in Sources, NEW key \in sources'[t].table
      PROVE  /\ key[1] \in DOMAIN pushes /\ pushes'[key[1]].alive
             /\ captures[pushes'[key[1]].epoch].session = t /\ key[2] \in pushes'[key[1]].ids
  <2>1. CASE t # s
    <3>1. key \in sources[t].table
      BY <1>3, <2>1
    <3>2. /\ key[1] \in DOMAIN pushes /\ pushes[key[1]].alive
          /\ captures[pushes[key[1]].epoch].session = t /\ key[2] \in pushes[key[1]].ids
      BY <1>1, <3>1 DEF Counted, Session
    <3>3. key[1] # i
      BY <2>1, <3>2 DEF Session
    <3> QED BY <3>2, <3>3
  <2>2. CASE t = s /\ key[1] = i
    BY <1>3, <2>2 DEF Session
  <2>3. CASE t = s /\ key[1] # i
    <3>1. /\ key[1] \in DOMAIN pushes /\ pushes[key[1]].alive
          /\ captures[pushes[key[1]].epoch].session = t /\ key[2] \in pushes[key[1]].ids
      BY <1>1, <1>3, <2>3 DEF Counted, Session
    <3> QED BY <2>3, <3>1
  <2> QED BY <2>1, <2>2, <2>3
<1>4. ASSUME NEW t \in Sources PROVE IsFiniteSet(sources'[t].table) /\ sources'[t].active = Cardinality(sources'[t].table)
  BY <1>1 DEF Counted
<1> QED BY <1>2, <1>3, <1>4 DEF Counted, Session

\* The first message of a stream is taken, and ids are then open on it.
Moved(i, ids) == \E a \in BOOLEAN : a /\ pushes' = [pushes EXCEPT ![i].q = Tail(pushes[i].q), ![i].alive = a, ![i].ids = ids]

\* What Push does, by the message.
LEMMA PushParts ==
    ASSUME RelInv, NEW i \in DOMAIN pushes, Push(i), NEW m, m = pushes[i].q[1], NEW s, s = Session(pushes[i].epoch)
    PROVE  /\ pushes[i].alive /\ pushes[i].q # <<>> /\ UNCHANGED <<gate, captures, sink, conn, fwd, cut>>
           /\ m.ev = "open" => /\ handleOpen(s, i, m) /\ UNCHANGED lost
                               /\ Moved(i, pushes[i].ids \cup {m.id})
           /\ m.ev = "data" => /\ handleData(s, i, m)
                               /\ Moved(i, pushes[i].ids)
           /\ m.ev = "close" => /\ handleClose(s, i, m) /\ UNCHANGED lost
                                /\ Moved(i, pushes[i].ids \ {m.id})
           /\ m.ev = "eof" => /\ dropStream(s, i) /\ UNCHANGED lost
                              /\ pushes' = [pushes EXCEPT ![i].q = Tail(pushes[i].q), ![i].alive = FALSE, ![i].ids = {}]
<1>1. pushes[i].alive /\ pushes[i].q # <<>> /\ UNCHANGED <<gate, captures, sink, conn, fwd, cut>>
  BY DEF Push, gateVars
<1>2. pushes[i].q \in Seq(Messages)
  BY StreamTyped DEF RelInv
<1>3. Head(pushes[i].q) = m
  BY <1>1, <1>2
<1> DEFINE ids == CASE m.ev = "open" -> pushes[i].ids \cup {m.id} [] m.ev = "data" -> pushes[i].ids
                    [] m.ev = "close" -> pushes[i].ids \ {m.id} [] m.ev = "eof" -> {}
<1>4. pushes' = [pushes EXCEPT ![i].q = Tail(pushes[i].q), ![i].alive = m.ev # "eof", ![i].ids = ids]
  BY <1>3 DEF Push
<1>5. (CASE m.ev = "open" -> handleOpen(s, i, m) /\ UNCHANGED lost
         [] m.ev = "data" -> handleData(s, i, m)
         [] m.ev = "close" -> handleClose(s, i, m) /\ UNCHANGED lost
         [] OTHER -> dropStream(s, i) /\ UNCHANGED lost)
  BY <1>3 DEF Push
<1>6. CASE m.ev = "open"
  <2>1. ids = pushes[i].ids \cup {m.id}
    BY <1>6
  <2>2. PICK a \in BOOLEAN : a = (m.ev # "eof")
    OBVIOUS
  <2>3. pushes' = [pushes EXCEPT ![i].q = Tail(pushes[i].q), ![i].alive = a, ![i].ids = pushes[i].ids \cup {m.id}]
    BY <1>4, <2>1, <2>2
  <2>4. a
    BY <1>6, <2>2
  <2>5. Moved(i, pushes[i].ids \cup {m.id})
    BY <2>3, <2>4 DEF Moved
  <2> QED BY <1>1, <1>5, <1>6, <2>5
<1>7. CASE m.ev = "data"
  <2>1. ids = pushes[i].ids
    BY <1>7
  <2>2. PICK a \in BOOLEAN : a = (m.ev # "eof")
    OBVIOUS
  <2>3. pushes' = [pushes EXCEPT ![i].q = Tail(pushes[i].q), ![i].alive = a, ![i].ids = pushes[i].ids]
    BY <1>4, <2>1, <2>2
  <2>4. a
    BY <1>7, <2>2
  <2>5. Moved(i, pushes[i].ids)
    BY <2>3, <2>4 DEF Moved
  <2> QED BY <1>1, <1>5, <1>7, <2>5
<1>8. CASE m.ev = "close"
  <2>1. ids = pushes[i].ids \ {m.id}
    BY <1>8
  <2>2. PICK a \in BOOLEAN : a = (m.ev # "eof")
    OBVIOUS
  <2>3. pushes' = [pushes EXCEPT ![i].q = Tail(pushes[i].q), ![i].alive = a, ![i].ids = pushes[i].ids \ {m.id}]
    BY <1>4, <2>1, <2>2
  <2>4. a
    BY <1>8, <2>2
  <2>5. Moved(i, pushes[i].ids \ {m.id})
    BY <2>3, <2>4 DEF Moved
  <2> QED BY <1>1, <1>5, <1>8, <2>5
<1>9. CASE m.ev = "eof"
  <2>1. ids = {} /\ (m.ev # "eof") = FALSE
    BY <1>9
  <2>2. pushes' = [pushes EXCEPT ![i].q = Tail(pushes[i].q), ![i].alive = FALSE, ![i].ids = {}]
    BY <1>4, <2>1
  <2> QED BY <1>1, <1>5, <1>9, <2>2
<1> QED BY <1>1, <1>6, <1>7, <1>8, <1>9

\* The stream after a message that is not its end.
LEMMA PushRest ==
    ASSUME RelInv, NEW i \in DOMAIN pushes, pushes[i].q # <<>>, NEW ids \in SUBSET Ids, Moved(i, ids)
    PROVE  /\ pushes' \in Seq(Streams) /\ DOMAIN pushes' = DOMAIN pushes /\ \A j \in DOMAIN pushes : j # i => pushes'[j] = pushes[j]
           /\ pushes'[i].epoch = pushes[i].epoch /\ pushes'[i].q = Tail(pushes[i].q) /\ pushes'[i].alive /\ pushes'[i].ids = ids
<1>1. pushes \in Seq(Streams) /\ pushes[i] \in Streams /\ pushes[i].q \in Seq(Messages)
  BY StreamTyped DEF RelInv, RelTyped
<1>2. PICK q \in Seq(Messages) : q = Tail(pushes[i].q)
  <2>1. Tail(pushes[i].q) \in Seq(Messages)
    BY <1>1, Tailed
  <2> QED BY <2>1, Zenon
<1>3. PICK a \in BOOLEAN : a /\ pushes' = [pushes EXCEPT ![i].q = q, ![i].alive = a, ![i].ids = ids]
  BY <1>2 DEF Moved
<1> DEFINE r == [pushes[i] EXCEPT !.q = q, !.alive = a, !.ids = ids]
<1>4. r \in Streams /\ r.epoch = pushes[i].epoch /\ r.q = q /\ r.alive = a /\ r.ids = ids
  BY <1>1 DEF Streams
<1>5. pushes' = [pushes EXCEPT ![i] = r]
  BY <1>3
<1> HIDE DEF r
<1>6. pushes' \in Seq(Streams) /\ DOMAIN pushes' = DOMAIN pushes /\ pushes'[i] = r /\ \A j \in DOMAIN pushes : j # i => pushes'[j] = pushes[j]
  BY <1>1, <1>4, <1>5
<1>7. pushes'[i].alive = a
  BY <1>4, <1>6
<1> QED BY <1>2, <1>3, <1>4, <1>6, <1>7

\* The source reads a ConnOpen.
LEMMA OpenStep ==
    ASSUME RelInv, NEW i \in DOMAIN pushes, Push(i), NEW m, m = pushes[i].q[1], m.ev = "open"
    PROVE  RelInv'
<1>1. PICK s \in Sources : s = Session(pushes[i].epoch)
  BY StreamSession
<1>2. /\ pushes[i].alive /\ pushes[i].q # <<>> /\ UNCHANGED <<gate, captures, sink, conn, fwd, cut, lost>>
      /\ handleOpen(s, i, m)
      /\ Moved(i, pushes[i].ids \cup {m.id})
  BY <1>1, PushParts
<1>3. m \in Messages /\ m.id \in Ids
  BY <1>2, FirstMessage
<1>4. PICK ids \in SUBSET Ids : ids = pushes[i].ids \cup {m.id}
  BY <1>3, StreamTyped DEF RelInv
<1>5. /\ pushes' \in Seq(Streams) /\ DOMAIN pushes' = DOMAIN pushes /\ \A j \in DOMAIN pushes : j # i => pushes'[j] = pushes[j]
      /\ pushes'[i].epoch = pushes[i].epoch /\ pushes'[i].q = Tail(pushes[i].q) /\ pushes'[i].alive /\ pushes'[i].ids = ids
  BY <1>2, <1>4, PushRest
<1>6. PICK key \in Nat \X Ids : key = <<i, m.id>>
  <2>1. i \in Nat
    BY DEF RelInv, RelTyped
  <2> QED BY <1>3, <2>1
<1>7. /\ IsFiniteSet(sources[s].table) /\ sources[s].active = Cardinality(sources[s].table) /\ IsFiniteSet(pushes[i].ids)
      /\ \A k \in sources[s].table : k[1] = i => k[2] \in pushes[i].ids
  BY DEF RelInv, Counted
<1>8. sources[s].table \subseteq Nat \X Ids /\ sources[s].active \in Int
  BY SourceTyped DEF RelInv, SourceRecs
<1>9. PICK tab \in SUBSET (Nat \X Ids) : tab = sources[s].table \cup {key}
  BY <1>8
<1>10. PICK act \in Int : act = IF key \notin sources[s].table THEN sources[s].active + 1 ELSE sources[s].active
  BY <1>8
<1>11. sources' = [sources EXCEPT ![s].table = tab, ![s].active = act]
  BY <1>2, <1>6, <1>9, <1>10 DEF handleOpen, connKey
<1>12. /\ sources' \in [Sources -> SourceRecs] /\ \A t \in Sources : t # s => sources'[t] = sources[t]
       /\ sources'[s].table = tab /\ sources'[s].active = act
       /\ sources'[s].up = sources[s].up /\ sources'[s].got = sources[s].got /\ sources'[s].late = sources[s].late
  BY <1>11, TableSet
<1>13. IsFiniteSet(tab) /\ Cardinality(tab) = act
  <2>1. IsFiniteSet(tab)
    BY <1>7, <1>9, FS_AddElement
  <2>2. CASE key \in sources[s].table
    BY <1>7, <1>9, <1>10, <2>2, FS_AddElement
  <2>3. CASE key \notin sources[s].table
    BY <1>7, <1>9, <1>10, <2>3, FS_AddElement
  <2> QED BY <2>1, <2>2, <2>3
<1>14. IsFiniteSet(ids)
  BY ZenonT(30), <1>4, <1>7, FS_AddElement
<1>15. Counted'
  <2>1. \A k \in tab : k \in sources[s].table \/ k[1] = i
    BY <1>6, <1>9
  <2>2. \A k \in tab : k[1] = i => k[2] \in ids
    BY <1>4, <1>6, <1>7, <1>9
  <2>3. IsFiniteSet(sources'[s].table) /\ sources'[s].active = Cardinality(sources'[s].table) /\ IsFiniteSet(pushes'[i].ids)
    BY <1>5, <1>12, <1>13, <1>14
  <2>4. /\ \A k \in sources'[s].table : k \in sources[s].table \/ k[1] = i
        /\ \A k \in sources'[s].table : k[1] = i => k[2] \in pushes'[i].ids
    BY <1>5, <1>12, <2>1, <2>2
  <2> QED BY <1>1, <1>2, <1>5, <1>12, <2>3, <2>4, MessageCounted
<1>16. RelTyped'
  BY <1>2, <1>5, <1>12 DEF RelInv, RelTyped
<1>17. Received(i, m, s)
  BY <1>1, <1>2, <1>5, <1>6, <1>9, <1>12 DEF Received
<1> QED BY <1>15, <1>16, <1>17, ReceivedStep

\* The source reads a ConnClose.
LEMMA CloseStep ==
    ASSUME RelInv, NEW i \in DOMAIN pushes, Push(i), NEW m, m = pushes[i].q[1], m.ev = "close"
    PROVE  RelInv'
<1>1. PICK s \in Sources : s = Session(pushes[i].epoch)
  BY StreamSession
<1>2. /\ pushes[i].alive /\ pushes[i].q # <<>> /\ UNCHANGED <<gate, captures, sink, conn, fwd, cut, lost>>
      /\ handleClose(s, i, m)
      /\ Moved(i, pushes[i].ids \ {m.id})
  BY <1>1, PushParts
<1>3. m \in Messages /\ m.id \in Ids
  BY <1>2, FirstMessage
<1>4. PICK ids \in SUBSET Ids : ids = pushes[i].ids \ {m.id}
  BY <1>3, StreamTyped DEF RelInv
<1>5. /\ pushes' \in Seq(Streams) /\ DOMAIN pushes' = DOMAIN pushes /\ \A j \in DOMAIN pushes : j # i => pushes'[j] = pushes[j]
      /\ pushes'[i].epoch = pushes[i].epoch /\ pushes'[i].q = Tail(pushes[i].q) /\ pushes'[i].alive /\ pushes'[i].ids = ids
  BY <1>2, <1>4, PushRest
<1>6. PICK key \in Nat \X Ids : key = <<i, m.id>>
  <2>1. i \in Nat
    BY DEF RelInv, RelTyped
  <2> QED BY <1>3, <2>1
<1>7. /\ IsFiniteSet(sources[s].table) /\ sources[s].active = Cardinality(sources[s].table) /\ IsFiniteSet(pushes[i].ids)
      /\ \A k \in sources[s].table : k[1] = i => k[2] \in pushes[i].ids
  BY DEF RelInv, Counted
<1>8. sources[s].table \subseteq Nat \X Ids /\ sources[s].active \in Int
  BY SourceTyped DEF RelInv, SourceRecs
<1>9. PICK tab \in SUBSET (Nat \X Ids) : tab = sources[s].table \ {key}
  BY <1>8
<1>10. PICK act \in Int : act = IF key \in sources[s].table THEN sources[s].active - 1 ELSE sources[s].active
  BY <1>8
<1>11. sources' = [sources EXCEPT ![s].table = tab, ![s].active = act]
  BY <1>2, <1>6, <1>9, <1>10 DEF handleClose, connKey, KnownConn
<1>12. /\ sources' \in [Sources -> SourceRecs] /\ \A t \in Sources : t # s => sources'[t] = sources[t]
       /\ sources'[s].table = tab /\ sources'[s].active = act
       /\ sources'[s].up = sources[s].up /\ sources'[s].got = sources[s].got /\ sources'[s].late = sources[s].late
  BY <1>11, TableSet
<1>13. IsFiniteSet(tab) /\ Cardinality(tab) = act
  <2>1. IsFiniteSet(tab)
    BY <1>7, <1>9, FS_RemoveElement
  <2>2. CASE key \in sources[s].table
    <3>1. Cardinality(sources[s].table \ {key}) = Cardinality(sources[s].table) - 1
      BY <1>7, <2>2, FS_RemoveElement
    <3>2. act = sources[s].active - 1
      BY <1>10, <2>2
    <3>3. Cardinality(tab) = Cardinality(sources[s].table) - 1
      BY <1>9, <3>1
    <3>4. Cardinality(tab) = act
      BY <1>7, <3>2, <3>3, Zenon
    <3> QED BY <2>1, <3>4
  <2>3. CASE key \notin sources[s].table
    BY <1>7, <1>9, <1>10, <2>3, FS_RemoveElement
  <2> QED BY <2>1, <2>2, <2>3
<1>14. IsFiniteSet(ids)
  BY ZenonT(30), <1>4, <1>7, FS_RemoveElement
<1>15. Counted'
  <2>1. \A k \in tab : k \in sources[s].table
    BY <1>9
  <2>2. \A k \in tab : k[1] = i => k[2] \in ids
    <3>1. ASSUME NEW k \in tab, k[1] = i PROVE k[2] \in ids
      <4>1. k \in sources[s].table /\ k # key /\ k \in Nat \X Ids
        BY <1>9, <3>1
      <4>2. k = <<k[1], k[2]>>
        BY <4>1
      <4>3. k[2] # m.id
        BY <1>6, <3>1, <4>1, <4>2
      <4> QED BY <1>4, <1>7, <3>1, <4>1, <4>3
    <3> QED BY <3>1
  <2>3. IsFiniteSet(sources'[s].table) /\ sources'[s].active = Cardinality(sources'[s].table) /\ IsFiniteSet(pushes'[i].ids)
    BY <1>5, <1>12, <1>13, <1>14
  <2>4. /\ \A k \in sources'[s].table : k \in sources[s].table \/ k[1] = i
        /\ \A k \in sources'[s].table : k[1] = i => k[2] \in pushes'[i].ids
    BY <1>5, <1>12, <2>1, <2>2
  <2> QED BY <1>1, <1>2, <1>5, <1>12, <2>3, <2>4, MessageCounted
<1>16. RelTyped'
  BY <1>2, <1>5, <1>12 DEF RelInv, RelTyped
<1>17. Received(i, m, s)
  BY <1>1, <1>2, <1>5, <1>6, <1>9, <1>12 DEF Received
<1> QED BY <1>15, <1>16, <1>17, ReceivedStep

\* The source reads a chunk.
LEMMA DataStep ==
    ASSUME RelInv, NEW i \in DOMAIN pushes, Push(i), NEW m, m = pushes[i].q[1], m.ev = "data"
    PROVE  RelInv'
<1>1. PICK s \in Sources : s = Session(pushes[i].epoch)
  BY StreamSession
<1>2. /\ pushes[i].alive /\ pushes[i].q # <<>> /\ UNCHANGED <<gate, captures, sink, conn, fwd, cut>>
      /\ handleData(s, i, m)
      /\ Moved(i, pushes[i].ids)
  BY <1>1, PushParts
<1>3. m \in Messages /\ m.id \in Ids /\ m.dir \in Directions /\ m.n \in Nat
  BY <1>2, FirstMessage
<1>4. PICK ids \in SUBSET Ids : ids = pushes[i].ids
  BY StreamTyped DEF RelInv
<1>5. /\ pushes' \in Seq(Streams) /\ DOMAIN pushes' = DOMAIN pushes /\ \A j \in DOMAIN pushes : j # i => pushes'[j] = pushes[j]
      /\ pushes'[i].epoch = pushes[i].epoch /\ pushes'[i].q = Tail(pushes[i].q) /\ pushes'[i].alive /\ pushes'[i].ids = ids
  BY <1>2, <1>4, PushRest
<1>6. /\ IsFiniteSet(sources[s].table) /\ sources[s].active = Cardinality(sources[s].table) /\ IsFiniteSet(ids)
      /\ \A k \in sources[s].table : k[1] = i => k[2] \in ids
  BY <1>4 DEF RelInv, Counted
<1>7. RelTyped
  BY DEF RelInv
<1>8. CASE <<i, m.id>> \in sources[s].table
  <2>1. lost' = lost /\ emit(s, buildPacket(m))
    BY <1>2, <1>8 DEF handleData, connKey
  <2>2. PICK p \in Packets : p = buildPacket(m)
    BY <1>3 DEF Packets, buildPacket
  <2>3. p.id = m.id /\ p.dir = m.dir /\ p.n = m.n
    BY <2>2 DEF buildPacket
  <2> DEFINE behind == {q \in sources[s].got : q.id = p.id /\ q.dir = p.dir /\ q.n >= p.n}
  <2>4. sources[s].got \subseteq Packets /\ sources[s].late \subseteq Ids
    BY <1>7, SourceTyped
  <2>5. PICK got \in SUBSET Packets : got = sources[s].got \cup {p}
    BY <2>4
  <2>6. {o.id : o \in behind} \subseteq {m.id}
    BY <2>3
  <2>7. PICK late \in SUBSET Ids : late = sources[s].late \cup {o.id : o \in behind}
    BY <1>3, <2>4, <2>6
  <2>8. sources' = [sources EXCEPT ![s].got = got, ![s].late = late]
    BY <2>1, <2>2, <2>5, <2>7 DEF emit
  <2>9. /\ sources' \in [Sources -> SourceRecs] /\ \A t \in Sources : t # s => sources'[t] = sources[t]
        /\ sources'[s].got = got /\ sources'[s].late = late
        /\ sources'[s].up = sources[s].up /\ sources'[s].table = sources[s].table /\ sources'[s].active = sources[s].active
    BY <2>8, GotSet
  <2>10. \A o \in got : o \in sources[s].got \/ (SameWay(m, o) /\ o.n = m.n)
    BY <2>3, <2>5 DEF SameWay
  <2>11. \A id \in late : id \in sources[s].late \/ (id = m.id /\ \E o \in sources[s].got : SameWay(m, o) /\ o.n >= m.n)
    <3>1. ASSUME NEW o \in behind PROVE o.id = m.id /\ o \in sources[s].got /\ SameWay(m, o) /\ o.n >= m.n
      BY <2>3 DEF SameWay
    <3> HIDE DEF behind
    <3> QED BY <2>7, <3>1
  <2>12. Counted'
    <3>1. IsFiniteSet(sources'[s].table) /\ sources'[s].active = Cardinality(sources'[s].table) /\ IsFiniteSet(pushes'[i].ids)
      BY <1>5, <1>6, <2>9
    <3>2. /\ \A k \in sources'[s].table : k \in sources[s].table \/ k[1] = i
          /\ \A k \in sources'[s].table : k[1] = i => k[2] \in pushes'[i].ids
      BY <1>5, <1>6, <2>9
    <3> QED BY <1>1, <1>2, <1>5, <2>9, <3>1, <3>2, MessageCounted
  <2>13. RelTyped'
    BY <1>2, <1>5, <1>7, <2>1, <2>9 DEF RelTyped
  <2> HIDE DEF behind
  <2>14. Received(i, m, s)
    BY <1>1, <1>2, <1>5, <2>1, <2>9, <2>10, <2>11 DEF Received
  <2> QED BY <2>12, <2>13, <2>14, ReceivedStep
<1>9. CASE <<i, m.id>> \notin sources[s].table
  <2>1. lost' = lost \cup {m.id} /\ sources' = sources
    BY <1>2, <1>9 DEF handleData, connKey
  <2>2. Counted'
    BY <1>1, <1>2, <1>5, <1>6, <2>1, MessageCounted
  <2>3. RelTyped'
    BY <1>2, <1>3, <1>5, <1>7, <2>1 DEF RelTyped
  <2>4. Received(i, m, s)
    BY <1>1, <1>2, <1>5, <1>9, <2>1 DEF Received
  <2> QED BY <2>2, <2>3, <2>4, ReceivedStep
<1> QED BY <1>8, <1>9

\* The end of a stream that was closed.
LEMMA EofStep ==
    ASSUME RelInv, NEW i \in DOMAIN pushes, Push(i), NEW m, m = pushes[i].q[1], m.ev = "eof"
    PROVE  RelInv'
<1>1. /\ pushes[i].alive /\ pushes[i].q # <<>> /\ UNCHANGED <<gate, captures, sink, conn, fwd, cut, lost>>
      /\ dropStream(Session(pushes[i].epoch), i)
      /\ pushes' = [pushes EXCEPT ![i].q = Tail(pushes[i].q), ![i].alive = FALSE, ![i].ids = {}]
  BY PushParts
<1>2. ~sink[pushes[i].epoch].open /\ pushes[i].q \in Seq(Messages)
  BY <1>1, FirstMessage
<1>3. PICK q \in Seq(Messages) : q = Tail(pushes[i].q)
  <2>1. Tail(pushes[i].q) \in Seq(Messages)
    BY <1>1, <1>2, Tailed
  <2> QED BY <2>1, Zenon
<1> QED BY <1>1, <1>2, <1>3, StreamEnds

\* The source reads the next message.
LEMMA PushStep ==
    ASSUME RelInv, NEW i \in DOMAIN pushes, Push(i)
    PROVE  RelInv'
<1>1. PICK m : m = pushes[i].q[1]
  OBVIOUS
<1>2. pushes[i].q # <<>>
  BY DEF Push
<1>3. m.ev \in {"open", "close", "data", "eof"}
  BY <1>1, <1>2, FirstMessage
<1> QED BY <1>1, <1>3, OpenStep, CloseStep, DataStep, EofStep

-----------------------------------------------------------------------------
(***************************************************************************)
(* The theorems.                                                           *)
(***************************************************************************)

\* In the beginning there is nothing to be said of streams.
LEMMA RelInvInit ==
    ASSUME RelInit
    PROVE  RelInv
<1>1. gate = 0 /\ captures = <<>> /\ sink = <<>> /\ pushes = <<>> /\ lost = {} /\ cut = {}
  BY DEF RelInit
<1>2. ASSUME NEW k \in Phones PROVE conn[k] \in ConnRecs /\ conn[k].at = "new" /\ conn[k].st = 0 /\ conn[k].epoch = 0 /\ conn[k].opened = FALSE
  <2>1. conn[k] = [at |-> "new", st |-> 0, epoch |-> 0, opened |-> FALSE]
    BY DEF RelInit
  <2> QED BY <2>1 DEF ConnRecs
<1>3. ASSUME NEW f \in Phones \X Directions PROVE fwd[f] \in FwdRecs /\ fwd[f].at = "read" /\ fwd[f].st = 0 /\ fwd[f].n = 0
  <2>1. fwd[f] = [at |-> "read", st |-> 0, n |-> 0]
    BY DEF RelInit
  <2> QED BY <2>1 DEF FwdRecs
<1>4. ASSUME NEW s \in Sources
      PROVE  sources[s] \in SourceRecs /\ sources[s].table = {} /\ sources[s].active = 0 /\ sources[s].got = {} /\ sources[s].late = {}
  <2>1. sources[s] = [up |-> TRUE, table |-> {}, active |-> 0, got |-> {}, late |-> {}]
    BY DEF RelInit
  <2> QED BY <2>1 DEF SourceRecs
<1>5. conn \in [Phones -> ConnRecs]
  <2>1. conn = [k \in Phones |-> conn[k]]
    BY DEF RelInit
  <2> QED BY <1>2, <2>1
<1>6. fwd \in [Phones \X Directions -> FwdRecs]
  <2>1. fwd = [f \in Phones \X Directions |-> fwd[f]]
    BY DEF RelInit
  <2> QED BY <1>3, <2>1
<1>7. sources \in [Sources -> SourceRecs]
  <2>1. sources = [s \in Sources |-> sources[s]]
    BY DEF RelInit
  <2> QED BY <1>4, <2>1
<1>8. RelTyped
  BY <1>1, <1>5, <1>6, <1>7 DEF RelTyped
<1>9. Known
  <2>1. Len(captures) = 0
    BY <1>1
  <2>2. \A k \in Phones : conn[k].st <= Len(captures) /\ conn[k].epoch <= Len(captures)
    <3>1. \A k \in Phones : conn[k].st = 0 /\ conn[k].epoch = 0
      BY <1>2, Zenon
    <3> QED BY <2>1, <3>1
  <2>3. \A f \in Phones \X Directions : fwd[f].st <= Len(captures)
    BY <1>3, <2>1
  <2> QED BY <1>1, <1>4, <2>2, <2>3 DEF Known
<1>10. Clients /\ Wired /\ Ordered /\ ClosedDone /\ QueuesAnnounced /\ NothingUnannounced
  BY <1>1 DEF Clients, Wired, Ordered, ClosedDone, QueuesAnnounced, NothingUnannounced
<1>11. Counted
  <2>1. ASSUME NEW s \in Sources PROVE IsFiniteSet(sources[s].table) /\ sources[s].active = Cardinality(sources[s].table)
    BY <1>4, FS_EmptySet
  <2> QED BY <1>1, <1>4, <2>1 DEF Counted
<1>12. Read /\ GotOwn /\ LateClosed
  BY <1>1, <1>4 DEF Read, GotOwn, LateClosed
<1>13. Relaying
  BY <1>3 DEF Relaying
<1>14. ConnsAnnounced /\ ChunksAnnounced
  BY <1>2, <1>3 DEF ConnsAnnounced, ChunksAnnounced
<1> QED BY <1>8, <1>9, <1>10, <1>11, <1>12, <1>13, <1>14 DEF RelInv

\* Every step keeps the invariant.
LEMMA RelInvStep ==
    ASSUME RelInv, [RelNext]_relVars
    PROVE  RelInv'
<1>1. CASE handleStart
  BY <1>1, GateStartStep DEF handleStart
<1>2. CASE handleStop
  BY <1>2, StopStep DEF handleStop
<1>3. ASSUME NEW s \in Sources, SourceCloses(s) PROVE RelInv'
  BY <1>3, SourceClosesStep
<1>4. ASSUME NEW e \in DOMAIN sink, keepalive(e) PROVE RelInv'
  BY <1>4, keepaliveStep
<1>5. ASSUME NEW k \in Phones, Accepts(k) \/ handleConn(k) \/ BothStopped(k) \/ end(k) PROVE RelInv'
  BY <1>5, AcceptsStep, handleConnStep, BothStoppedStep, endStep
<1>6. ASSUME NEW k \in Phones, NEW d \in Directions, Reads(k, d) \/ forward(k, d) \/ Reports(k, d) \/ ForwardEnds(k, d) PROVE RelInv'
  BY <1>6, ReadsStep, forwardStep, ReportsStep, ForwardEndsStep
<1>7. ASSUME NEW i \in DOMAIN pushes, Push(i) \/ StreamBreaks(i) PROVE RelInv'
  BY <1>7, PushStep, StreamBreaksStep
<1>8. CASE UNCHANGED relVars
  <2>1. UNCHANGED <<gate, captures, sink, pushes, conn, fwd, sources, lost, cut>>
    BY <1>8 DEF relVars
  <2>2. RelTyped' /\ Known' /\ Clients' /\ Relaying' /\ ClosedDone'
    BY <2>1 DEF RelInv, RelTyped, Known, Clients, Relaying, ClosedDone
  <2>3. Wired' /\ Counted'
    BY <2>1 DEF RelInv, Wired, StreamWired, Counted, Session
  <2>4. Read' /\ Ordered' /\ GotOwn' /\ LateClosed' /\ NothingUnannounced'
    BY <2>1 DEF RelInv, Read, Ordered, GotOwn, LateClosed, NothingUnannounced, Session
  <2>5. ConnsAnnounced' /\ ChunksAnnounced' /\ QueuesAnnounced'
    BY <2>1 DEF RelInv, ConnsAnnounced, ChunksAnnounced, QueuesAnnounced, Holding, Announced, Session
  <2> QED BY <2>2, <2>3, <2>4, <2>5 DEF RelInv
<1> QED BY <1>1, <1>2, <1>3, <1>4, <1>5, <1>6, <1>7, <1>8 DEF RelNext

\* The invariant holds always.
LEMMA RelInvAlways == RelSpec => []RelInv
<1>1. RelInit => RelInv
  BY RelInvInit
<1>2. RelInv /\ [RelNext]_relVars => RelInv'
  BY RelInvStep
<1> QED BY <1>1, <1>2, PTL DEF RelSpec

\* Whatever starts and stops of captures, breaks of streams and ends of sessions come
\* between a forwarding goroutine's look at the gate and what it sends: a session gets
\* only what was read while a capture for it was on; while that capture goes on, each
\* direction of a connection arrives in order and once; and the source's count of
\* active connections is the number of those that it knows.
THEOREM RelayedSafe == RelSpec => []RelayedApart
<1>1. RelInv => RelayedApart
  BY DEF RelInv, GotOwn, LateClosed, Counted, RelayedApart
<1> QED BY <1>1, RelInvAlways, PTL

\* While a capture goes on and its stream holds, the source never drops data for want
\* of the connection's ConnOpen: begin announces a connection in each epoch before any
\* of its data is sent on the stream of that epoch.
THEOREM AnnouncedSafe == RelSpec => []NothingUnannounced
<1>1. RelInv => NothingUnannounced
  BY DEF RelInv
<1> QED BY <1>1, RelInvAlways, PTL
=============================================================================
