----------------------------- MODULE HubProofs ------------------------------
(***************************************************************************)
(* Theorems about the ingest hub, for any finite numbers of streams and    *)
(* sources and any sessions, owners, probes and sizes; and, below them,    *)
(* about the capture task behind it, for any capacities of its queues and  *)
(* buffers and any numbers of packets, dispatchers and faults.             *)
(***************************************************************************)
EXTENDS IngestHub, CaptureTask, FiniteSetTheorems, SequenceTheorems, TLAPS

Packet == Streams \X (1..MaxPackets)
SourceRec == [st : {"created", "running", "waiting", "closed"}, session : Sessions \cup {NoSession}]
StreamRec == [st : {"none", "open", "accepted", "sending", "waiting", "ended"},
              as : Principals \cup {Nobody}, bound : Sessions \cup {NoSession},
              session : Sessions \cup {NoSession},
              pkts : Seq(Packet), order : Seq(Sources), at : Nat]

HubTypes ==
    /\ subs \in [Sessions -> SUBSET Sources] /\ inflight \in [Sources -> Nat]
    /\ source \in [Sources -> SourceRec] /\ stream \in [Streams -> StreamRec]
    /\ ch \in [Sources -> Seq(Packet)] /\ got \in [Sources -> Seq(Packet)]
    /\ live \in [Sessions -> Nat] /\ touched \subseteq Sessions
    /\ assigned \in [Sessions -> Probes \cup {NoProbe}] /\ pushed \in 0..MaxPackets
    /\ offered \in Nat /\ delivered \in Nat /\ droppedBusy \in Nat /\ droppedNoSub \in Nat /\ assigns \in Nat
    /\ \A s \in Sources : Len(ch[s]) <= ChannelSize

\* A subscriber runs, for the session under which it is entered.
SubsRunning ==
    \A se \in Sessions : \A s \in subs[se] : source[s].st = "running" /\ source[s].session = se

\* What a Deliver is about while it runs, and that nothing is left of it afterwards.
Delivers(r) ==
    /\ r.st \notin {"sending", "waiting"} => r.order = <<>> /\ r.at = 1
    /\ r.st \in {"accepted", "sending", "waiting"} =>
          r.session \in Existing /\ SessionOwner[r.session] = r.as.owner
    /\ r.st \in {"sending", "waiting"} => r.at \in 1..Len(r.order)
    /\ r.st = "waiting" => r.pkts # <<>>
    /\ \A i, j \in DOMAIN r.order : r.order[i] = r.order[j] => i = j
DeliversShaped == \A p \in Streams : Delivers(stream[p])

\* The snapshot a Deliver holds: sources of its session, none of them closed.
HeldOpen ==
    \A p \in Streams : \A i \in DOMAIN stream[p].order :
        /\ source[stream[p].order[i]].session = stream[p].session
        /\ source[stream[p].order[i]].st \in {"running", "waiting"}

\* inflight counts the Delivers that hold the source.
Holds(r, s) == \E i \in DOMAIN r.order : r.order[i] = s
Holders(s) == {p \in Streams : Holds(stream[p], s)}
Counted == \A s \in Sources : inflight[s] = Cardinality(Holders(s))

HubInv == HubTypes /\ SubsRunning /\ DeliversShaped /\ HeldOpen /\ Counted

(***************************************************************************)
(* Sets of streams, and the orders of a snapshot.                          *)
(***************************************************************************)

\* A set of streams is finite and no larger than their number.
LEMMA StreamSets ==
    ASSUME NEW S \in SUBSET Streams
    PROVE  IsFiniteSet(S) /\ Cardinality(S) \in 0..Cardinality(Streams)
<1>1. IsFiniteSet(Streams)
  BY HubAssumption
<1>2. IsFiniteSet(S) /\ Cardinality(S) <= Cardinality(Streams)
  BY <1>1, FS_Subset
<1>3. Cardinality(S) \in Nat /\ Cardinality(Streams) \in Nat
  BY <1>1, <1>2, FS_CardinalityType
<1>4. QED
  BY <1>2, <1>3

\* An order of a snapshot names exactly its members, each once.
LEMMA OrdersNameAll ==
    ASSUME NEW S \in SUBSET Sources, NEW q \in Orders(S)
    PROVE  /\ q \in Seq(Sources) /\ Len(q) = Cardinality(S)
           /\ \A i \in DOMAIN q : q[i] \in S
           /\ \A i, j \in DOMAIN q : q[i] = q[j] => i = j
           /\ \A s \in S : \E i \in DOMAIN q : q[i] = s
<1> DEFINE n == Cardinality(S)
<1>1. IsFiniteSet(S) /\ n \in Nat
  BY HubAssumption, FS_Subset, FS_CardinalityType
<1>2. q \in [1..n -> S] /\ \A i, j \in DOMAIN q : q[i] = q[j] => i = j
  BY DEF Orders
<1>3. q \in Injection(1..n, S)
  BY <1>2 DEF Injection, IsInjective
<1>4. IsFiniteSet(1..n) /\ Cardinality(1..n) = n
  BY <1>1, FS_Interval
<1>5. q \in Surjection(1..n, S)
  BY <1>1, <1>3, <1>4, FS_Injection
<1>6. \A s \in S : \E i \in 1..n : q[i] = s
  BY <1>5 DEF Surjection
<1>7. q \in Seq(Sources) /\ Len(q) = n /\ DOMAIN q = 1..n
  BY <1>1, <1>2
<1>8. QED
  BY <1>2, <1>6, <1>7
(***************************************************************************)
(* What one step does to a stream's record.                                *)
(***************************************************************************)

\* A stream's record before it is used.
LEMMA NoStreamShape == NoStream \in StreamRec /\ NoStream.order = <<>> /\ NoStream.pkts = <<>> /\ NoStream.at = 1
<1>1. <<>> \in Seq(Packet) /\ <<>> \in Seq(Sources)
  OBVIOUS
<1>2. QED
  BY <1>1 DEF NoStream, StreamRec

\* The record of a stream that is open again is typed and holds nothing.
LEMMA ReopenedShape ==
    ASSUME NEW r \in StreamRec
    PROVE  /\ Reopened(r) \in StreamRec /\ Reopened(r).order = <<>> /\ Reopened(r).st = "open"
           /\ Reopened(r).bound = r.bound /\ Reopened(r).as = r.as /\ Reopened(r).pkts = <<>>
           /\ Reopened(r).at = 1
BY NoStreamShape DEF Reopened, StreamRec

\* Records that differ from a typed one in typed fields.
LEMMA RecSending ==
    ASSUME NEW r \in StreamRec, NEW t \in Seq(Packet)
    PROVE  [r EXCEPT !.st = "sending", !.at = 1, !.pkts = t] \in StreamRec
BY DEF StreamRec

\* A snapshot taken.
LEMMA RecHolding ==
    ASSUME NEW r \in StreamRec, NEW q \in Seq(Sources)
    PROVE  [r EXCEPT !.st = "sending", !.order = q] \in StreamRec
BY DEF StreamRec

\* A batch accepted.
LEMMA RecAccepted ==
    ASSUME NEW r \in StreamRec, NEW t \in Seq(Packet), NEW b \in Sessions \cup {NoSession}, NEW se \in Sessions \cup {NoSession}
    PROVE  [r EXCEPT !.st = "accepted", !.session = se, !.pkts = t, !.bound = b] \in StreamRec
BY DEF StreamRec

\* A stream opened.
LEMMA RecOpen ==
    ASSUME NEW r \in StreamRec, NEW b \in Sessions \cup {NoSession}, NEW as \in Principals \cup {Nobody}
    PROVE  [r EXCEPT !.st = "open", !.as = as, !.bound = b] \in StreamRec
BY DEF StreamRec

\* The next turn: the same batch, snapshot, session and sender.
LEMMA AdvancedShape ==
    ASSUME NEW r \in StreamRec, Delivers(r), r.st \in {"sending", "waiting"}, r.pkts # <<>>
    PROVE  /\ Advanced(r) \in StreamRec /\ Delivers(Advanced(r)) /\ Advanced(r).st = "sending"
           /\ Advanced(r).order = r.order /\ Advanced(r).session = r.session
           /\ Advanced(r).bound = r.bound /\ Advanced(r).as = r.as
<1>1. r.at \in 1..Len(r.order) /\ Len(r.order) \in Nat /\ Tail(r.pkts) \in Seq(Packet)
  BY DEF Delivers, StreamRec
<1>2. PICK t \in Seq(Packet) : t = Tail(r.pkts)
  BY <1>1
<1>3. CASE r.at < Len(r.order)
  <2>1. Advanced(r) = [r EXCEPT !.st = "sending", !.at = r.at + 1]
    BY <1>3 DEF Advanced
  <2>2. r.at + 1 \in 1..Len(r.order) /\ r.at + 1 \in Nat
    BY <1>1, <1>3
  <2>3. Advanced(r) \in StreamRec
    BY <2>1, <2>2 DEF StreamRec
  <2>4. /\ Advanced(r).st = "sending" /\ Advanced(r).order = r.order /\ Advanced(r).session = r.session
        /\ Advanced(r).bound = r.bound /\ Advanced(r).as = r.as /\ Advanced(r).at = r.at + 1
    BY <2>1 DEF StreamRec
  <2>5. QED
    BY <2>2, <2>3, <2>4 DEF Delivers
<1>4. CASE ~(r.at < Len(r.order))
  <2>1. Advanced(r) = [r EXCEPT !.st = "sending", !.at = 1, !.pkts = t]
    BY <1>2, <1>4 DEF Advanced
  <2>2. Advanced(r) \in StreamRec
    BY ZenonT(30), <2>1, RecSending
  <2>3. /\ Advanced(r).st = "sending" /\ Advanced(r).order = r.order /\ Advanced(r).session = r.session
        /\ Advanced(r).bound = r.bound /\ Advanced(r).as = r.as /\ Advanced(r).at = 1
    BY <2>1 DEF StreamRec
  <2>4. QED
    BY <1>1, <2>2, <2>3 DEF Delivers
<1>5. QED
  BY <1>3, <1>4

\* The packets of a batch are numbered on from the last one pushed.
LEMMA BatchTyped ==
    ASSUME NEW p \in Streams, NEW k \in Nat, NEW n \in Nat, k + n <= MaxPackets
    PROVE  [i \in 1..n |-> <<p, k + i>>] \in Seq(Packet)
<1>1. \A i \in 1..n : <<p, k + i>> \in Packet
  BY HubAssumption DEF Packet
<1>2. QED
  BY ONLY <1>1, n \in Nat

\* A step keeps the types.
LEMMA TypesStep == HubInv /\ Next => HubTypes'
<1> SUFFICES ASSUME HubTypes, DeliversShaped, Counted, Next
             PROVE  HubTypes'
  BY DEF HubInv
<1>a. stream \in [Streams -> StreamRec]
  BY DEF HubTypes
<1>b. pushed \in Nat /\ pushed <= MaxPackets /\ MaxPackets \in Nat /\ MaxBatch \in Nat
  BY HubAssumption DEF HubTypes
<1>c. subs \in [Sessions -> SUBSET Sources] /\ inflight \in [Sources -> Nat]
  BY DEF HubTypes
<1>d. ch \in [Sources -> Seq(Packet)] /\ \A s \in Sources : Len(ch[s]) <= ChannelSize /\ ChannelSize \in Nat
  BY HubAssumption DEF HubTypes
<1>e. live \in [Sessions -> Nat] /\ NoSession \notin Sessions /\ Existing \subseteq Sessions
  BY HubAssumption DEF HubTypes
<1>f. offered \in Nat /\ droppedNoSub \in Nat /\ delivered \in Nat /\ droppedBusy \in Nat
  BY DEF HubTypes
<1>g. <<>> \in Seq(Packet) /\ <<>> \in Seq(Sources) /\ NoSession \in Sessions \cup {NoSession} /\ Nobody \in Principals \cup {Nobody}
  OBVIOUS
<1>1. ASSUME NEW p \in Streams, NEW as \in Principals, NEW se \in Sessions \cup {NoSession}, PushOpens(p, as, se)
      PROVE  HubTypes'
  <2> DEFINE r == [stream[p] EXCEPT !.st = "open", !.as = as, !.bound = se]
  <2>1. r \in StreamRec
    BY <1>a, <1>g, RecOpen
  <2>2. stream' = [stream EXCEPT ![p] = r]
    BY <1>1, <1>a DEF PushOpens
  <2>3. stream' \in [Streams -> StreamRec]
    BY <1>a, <2>1, <2>2
  <2>4. live' \in [Sessions -> Nat]
    BY <1>1, <1>e DEF PushOpens, Opened
  <2>5. QED
    BY <1>1, <2>3, <2>4 DEF HubTypes, PushOpens, hub
<1>2. ASSUME NEW p \in Streams, NEW se \in Sessions, PushRejects(p, se)
      PROVE  HubTypes'
  BY <1>2 DEF HubTypes, PushRejects, vars, hub
<1>3. ASSUME NEW p \in Streams, NEW se \in Sessions, NEW n \in 0..MaxBatch, PushAccepts(p, se, n)
      PROVE  HubTypes'
  <2>0. pushed + n <= MaxPackets /\ pushed' = pushed + n
    BY <1>3, Zenon DEF PushAccepts
  <2>1. n \in Nat /\ pushed \in Nat /\ pushed + n <= MaxPackets
    BY <2>0, <1>b
  <2>2. PICK q \in Seq(Packet) : q = [i \in 1..n |-> <<p, pushed + i>>]
    BY <2>1, BatchTyped
  <2>3. PICK b \in Sessions \cup {NoSession} : b = IF stream[p].bound = NoSession THEN se ELSE stream[p].bound
    BY <1>a DEF StreamRec
  <2> DEFINE r == [stream[p] EXCEPT !.st = "accepted", !.session = se, !.pkts = q, !.bound = b]
  <2>4. r \in StreamRec
    BY <1>a, RecAccepted
  <2>5. stream' = [stream EXCEPT ![p] = r]
    BY <1>3, <1>a, <2>2, <2>3 DEF PushAccepts
  <2>6. stream' \in [Streams -> StreamRec]
    BY <1>a, <2>4, <2>5
  <2>7. live' = IF stream[p].bound = NoSession THEN [live EXCEPT ![se] = live[se] + 1] ELSE live
    BY <1>3, <1>e DEF PushAccepts, Opened
  <2>8. live' \in [Sessions -> Nat]
    BY <1>e, <2>7
  <2>11. pushed' \in 0..MaxPackets
    BY <2>0, <2>1, <1>b
  <2>12. touched' \subseteq Sessions
    BY <1>3 DEF PushAccepts, HubTypes
  <2>9. QED
    BY <1>3, <2>6, <2>8, <2>11, <2>12 DEF HubTypes, PushAccepts, hub
<1>4. ASSUME NEW p \in Streams, Deliver(p)
      PROVE  HubTypes'
  <2>1. stream[p] \in StreamRec /\ stream[p].session \in Sessions /\ Len(stream[p].pkts) \in Nat
    BY <1>4, <1>a, <1>e DEF Deliver, DeliversShaped, Delivers, StreamRec
  <2>2. subs[stream[p].session] \in SUBSET Sources
    BY <2>1, <1>c
  <2>3. Cardinality(subs[stream[p].session]) \in Nat
    BY <2>2, HubAssumption, FS_Subset, FS_CardinalityType
  <2>4. Reopened(stream[p]) \in StreamRec
    BY <2>1, ReopenedShape
  <2>5. stream' \in [Streams -> StreamRec]
    <3>1. CASE subs[stream[p].session] = {}
      BY <1>4, <2>4, <3>1 DEF HubTypes, Deliver
    <3>2. CASE subs[stream[p].session] # {}
      <4>1. PICK q \in Orders(subs[stream[p].session]) : stream' = [stream EXCEPT ![p].st = "sending", ![p].order = q]
        BY <1>4, <3>2 DEF Deliver
      <4>2. q \in Seq(Sources)
        BY <2>2, OrdersNameAll
      <4> DEFINE r == [stream[p] EXCEPT !.st = "sending", !.order = q]
      <4>3. r \in StreamRec
        BY <2>1, <4>2, RecHolding
      <4>4. stream' = [stream EXCEPT ![p] = r]
        BY <4>1, <1>a
      <4>5. QED
        BY <1>a, <4>3, <4>4
    <3>3. QED
      BY <3>1, <3>2
  <2>6. inflight' \in [Sources -> Nat]
    <3>1. CASE subs[stream[p].session] = {}
      BY <1>4, <1>c, <3>1 DEF Deliver
    <3>2. CASE subs[stream[p].session] # {}
      <4>1. \A s \in Sources : inflight[s] + 1 \in Nat
        BY <1>c
      <4>2. inflight' = [s \in Sources |-> IF s \in subs[stream[p].session] THEN inflight[s] + 1 ELSE inflight[s]]
        BY <1>4, <3>2 DEF Deliver
      <4>3. QED
        BY <1>c, <4>1, <4>2
    <3>3. QED
      BY <3>1, <3>2
  <2>7. Len(stream[p].pkts) * Cardinality(subs[stream[p].session]) \in Nat
    BY <2>1, <2>3
  <2>8. offered' \in Nat /\ droppedNoSub' \in Nat
    <3>1. PICK k \in Nat : k = Len(stream[p].pkts)
      BY <2>1
    <3>2. PICK m \in Nat : m = Len(stream[p].pkts) * Cardinality(subs[stream[p].session])
      BY <2>7
    <3>3. \/ offered' = offered + Len(stream[p].pkts) /\ droppedNoSub' = droppedNoSub + Len(stream[p].pkts)
          \/ /\ offered' = offered + Len(stream[p].pkts) * Cardinality(subs[stream[p].session])
             /\ droppedNoSub' = droppedNoSub
      BY ONLY <1>4, Zenon DEF Deliver
    <3>4. QED
      BY ONLY <1>f, <3>1, <3>2, <3>3
  <2>9. QED
    BY <1>4, <2>5, <2>6, <2>8 DEF HubTypes, Deliver, hub
<1>5. ASSUME NEW p \in Streams, Sends(p)
      PROVE  HubTypes'
  <2>1. stream[p] \in StreamRec /\ stream[p].st \in {"sending", "waiting"} /\ stream[p].pkts # <<>>
    BY <1>5 DEF HubTypes, Sends
  <2>2. Target(p) \in Sources
    BY <2>1 DEF DeliversShaped, Delivers, StreamRec, Target
  <2>3. Advanced(stream[p]) \in StreamRec
    BY <2>1, AdvancedShape DEF DeliversShaped
  <2>4. stream' \in [Streams -> StreamRec]
    BY <1>5, <2>3 DEF Sends, HubTypes
  <2>5. PICK x \in Packet : x = Head(stream[p].pkts)
    BY <2>1 DEF StreamRec
  <2>6. PICK s \in Sources : s = Target(p)
    BY <2>2
  <2>7. ch' = [ch EXCEPT ![s] = Append(ch[s], x)] /\ Len(ch[s]) < ChannelSize /\ ch[s] \in Seq(Packet)
    BY <1>5, <2>5, <2>6 DEF Sends, HubTypes
  <2>11. ch[s] \in Seq(Packet) /\ x \in Packet
    BY <2>7
  <2>12. Append(ch[s], x) \in Seq(Packet) /\ Len(Append(ch[s], x)) = Len(ch[s]) + 1
    BY <2>11
  <2>8. Append(ch[s], x) \in Seq(Packet) /\ Len(Append(ch[s], x)) <= ChannelSize
    BY <2>7, <2>11, <2>12, <1>d
  <2>9. ch' \in [Sources -> Seq(Packet)] /\ \A t \in Sources : Len(ch'[t]) <= ChannelSize
    BY <2>7, <2>8 DEF HubTypes
  <2>10. QED
    BY <1>5, <2>4, <2>9 DEF Sends, HubTypes
<1>6. ASSUME NEW p \in Streams, SendWaits(p) \/ PushReturns(p)
      PROVE  HubTypes'
  <2>1. PICK v \in {"waiting", "ended"} : stream' = [stream EXCEPT ![p].st = v]
    BY <1>6 DEF SendWaits, PushReturns
  <2> DEFINE r == [stream[p] EXCEPT !.st = v]
  <2>2. r \in StreamRec
    BY ZenonT(30) DEF HubTypes, StreamRec
  <2>3. stream' = [stream EXCEPT ![p] = r]
    BY <2>1 DEF HubTypes
  <2>4. stream' \in [Streams -> StreamRec]
    BY <2>2, <2>3 DEF HubTypes
  <2>5. live' \in [Sessions -> Nat]
    BY <1>6 DEF SendWaits, PushReturns, Closed, HubTypes, StreamRec
  <2>6. QED
    BY <1>6, <2>4, <2>5 DEF SendWaits, PushReturns, HubTypes, hub
<1>7. ASSUME NEW p \in Streams, SendTimesOut(p)
      PROVE  HubTypes'
  <2>1. stream[p] \in StreamRec /\ stream[p].pkts # <<>> /\ stream[p].st = "waiting" /\ Delivers(stream[p])
    BY <1>7 DEF HubTypes, SendTimesOut, DeliversShaped, Delivers
  <2>2. Advanced(stream[p]) \in StreamRec
    BY <2>1, AdvancedShape
  <2>3. QED
    BY <1>7, <2>2 DEF SendTimesOut, HubTypes
<1>8. ASSUME NEW p \in Streams, DeliverReturns(p)
      PROVE  HubTypes'
  <2>1. Reopened(stream[p]) \in StreamRec
    BY ReopenedShape DEF HubTypes
  <2>2. inflight' \in [Sources -> Nat]
    <3> SUFFICES ASSUME NEW s \in Sources, Holds(stream[p], s)
                 PROVE  inflight[s] - 1 \in Nat
      BY <1>8, <1>c DEF DeliverReturns, Holds
    <3>1. p \in Holders(s) /\ Holders(s) \in SUBSET Streams
      BY DEF Holders
    <3>2. IsFiniteSet(Holders(s)) /\ inflight[s] = Cardinality(Holders(s)) /\ inflight[s] \in Nat
      BY <1>c, <3>1, StreamSets DEF Counted
    <3>3. inflight[s] # 0
      BY <3>1, <3>2, FS_EmptySet
    <3>4. QED
      BY <3>2, <3>3
  <2>3. QED
    BY <1>8, <2>1, <2>2 DEF DeliverReturns, HubTypes
<1>9. ASSUME NEW se \in Sessions, NEW probe \in Probes \cup {NoProbe}, Assign(se, probe)
      PROVE  HubTypes'
  BY <1>9 DEF HubTypes, Assign, hub
<1>10. ASSUME NEW s \in Sources, NEW se \in Existing, Start(s, se)
       PROVE  HubTypes'
  <2>1. [st |-> "running", session |-> se] \in SourceRec
    BY <1>e DEF SourceRec
  <2>2. source' \in [Sources -> SourceRec] /\ subs' \in [Sessions -> SUBSET Sources]
    BY <1>10, <2>1 DEF Start, HubTypes
  <2>3. QED
    BY <1>10, <2>2 DEF HubTypes, Start, SourceUnchanged
<1>11. ASSUME NEW s \in Sources, Unsubscribes(s) \/ ClosesChannel(s)
       PROVE  HubTypes'
  <2>1. PICK v \in {"waiting", "closed"} : source' = [source EXCEPT ![s].st = v]
    BY <1>11 DEF Unsubscribes, ClosesChannel
  <2>2. source' \in [Sources -> SourceRec]
    BY <2>1 DEF HubTypes, SourceRec
  <2>3. subs' \in [Sessions -> SUBSET Sources]
    <3>1. CASE ClosesChannel(s)
      BY <1>c, <3>1 DEF ClosesChannel
    <3>2. CASE Unsubscribes(s)
      <4>1. subs' = [subs EXCEPT ![source[s].session] = subs[source[s].session] \ {s}]
        BY <3>2 DEF Unsubscribes
      <4>2. QED
        BY <1>c, <4>1
    <3>3. QED
      BY <1>11, <3>1, <3>2
  <2>4. QED
    BY <1>11, <2>2, <2>3 DEF HubTypes, Unsubscribes, ClosesChannel, SourceUnchanged
<1>12. ASSUME NEW s \in Sources, Reads(s)
       PROVE  HubTypes'
  <2>1. PICK x \in Packet, t \in Seq(Packet) : x = Head(ch[s]) /\ t = Tail(ch[s]) /\ Len(t) <= ChannelSize
    <3>1. ch[s] \in Seq(Packet) /\ ch[s] # <<>> /\ Len(ch[s]) <= ChannelSize
      BY <1>12, <1>d DEF Reads
    <3>2. Head(ch[s]) \in Packet /\ Tail(ch[s]) \in Seq(Packet) /\ Len(Tail(ch[s])) = Len(ch[s]) - 1
      BY <3>1
    <3>3. Len(ch[s]) \in Nat /\ ChannelSize \in Nat
      BY <3>1, <1>d
    <3>4. Len(Tail(ch[s])) <= ChannelSize
      BY <3>1, <3>2, <3>3
    <3>5. QED
      BY <3>2, <3>4
  <2>2. got' \in [Sources -> Seq(Packet)] /\ ch' \in [Sources -> Seq(Packet)]
    BY <1>12, <2>1 DEF Reads, HubTypes
  <2>3. \A u \in Sources : Len(ch'[u]) <= ChannelSize
    BY <1>12, <2>1 DEF Reads, HubTypes
  <2>4. QED
    BY <1>12, <2>2, <2>3 DEF HubTypes, Reads, SourceUnchanged
<1>13. QED
  BY <1>1, <1>2, <1>3, <1>4, <1>5, <1>6, <1>7, <1>8, <1>9, <1>10, <1>11, <1>12 DEF Next, Delivering

(***************************************************************************)
(* A step of a stream, by what it does to the snapshots.                   *)
(***************************************************************************)
Move(p, r) ==
    /\ stream' = [stream EXCEPT ![p] = r] /\ Delivers(r) /\ source' = source /\ subs' = subs
    /\ \/ /\ r.order = stream[p].order /\ (r.order = <<>> \/ r.session = stream[p].session)
          /\ inflight' = inflight
       \/ /\ stream[p].order = <<>> /\ r.session = stream[p].session /\ r.session \in Sessions
          /\ r.order \in Orders(subs[r.session])
          /\ inflight' = [s \in Sources |-> IF s \in subs[r.session] THEN inflight[s] + 1 ELSE inflight[s]]
       \/ /\ r.order = <<>>
          /\ inflight' = [s \in Sources |-> IF Holds(stream[p], s) THEN inflight[s] - 1 ELSE inflight[s]]

\* Streams move, sources move, or neither does.
LEMMA PacketMoves ==
    ASSUME HubInv, Next
    PROVE  \/ UNCHANGED <<stream, source, subs, inflight>>
           \/ \E p \in Streams, r \in StreamRec : Move(p, r)
           \/ /\ UNCHANGED <<stream, inflight>>
              /\ \E s \in Sources : (\E se \in Existing : Start(s, se)) \/ Unsubscribes(s) \/ ClosesChannel(s)
<1> DEFINE Goal == \/ UNCHANGED <<stream, source, subs, inflight>>
                   \/ \E p \in Streams, r \in StreamRec : Move(p, r)
                   \/ /\ UNCHANGED <<stream, inflight>>
                      /\ \E s \in Sources : (\E se \in Existing : Start(s, se)) \/ Unsubscribes(s) \/ ClosesChannel(s)
<1>a. stream \in [Streams -> StreamRec] /\ \A p \in Streams : Delivers(stream[p])
  BY DEF HubInv, HubTypes, DeliversShaped
<1>b. stream' \in [Streams -> StreamRec]
  BY TypesStep DEF HubTypes
<1>1. ASSUME NEW p \in Streams, NEW as \in Principals, NEW se \in Sessions \cup {NoSession}, PushOpens(p, as, se)
      PROVE  Goal
  <2> DEFINE r == [stream[p] EXCEPT !.st = "open", !.as = as, !.bound = se]
  <2>1. stream[p] \in StreamRec /\ stream[p].st = "none" /\ stream[p].order = <<>> /\ stream[p].at = 1
    BY <1>1, <1>a DEF PushOpens, Delivers
  <2>2. r \in StreamRec /\ r.st = "open" /\ r.order = <<>> /\ r.at = 1
    BY <2>1, RecOpen DEF StreamRec
  <2>3. stream' = [stream EXCEPT ![p] = r]
    BY <1>1, <1>a DEF PushOpens
  <2>4. Move(p, r)
    <3>1. Delivers(r)
      BY <2>2 DEF Delivers
    <3>2. UNCHANGED <<source, subs, inflight>>
      BY <1>1 DEF PushOpens, hub
    <3>3. QED
      BY <2>1, <2>2, <2>3, <3>1, <3>2 DEF Move
  <2>5. QED
    BY <2>2, <2>4
<1>2. ASSUME NEW p \in Streams, NEW se \in Sessions, PushRejects(p, se)
      PROVE  Goal
  BY <1>2 DEF PushRejects, vars, hub
<1>3. ASSUME NEW p \in Streams, NEW se \in Sessions, NEW n \in 0..MaxBatch, PushAccepts(p, se, n)
      PROVE  Goal
  <2>1. stream[p] \in StreamRec /\ stream[p].st = "open" /\ stream[p].order = <<>> /\ stream[p].at = 1
    BY <1>3, <1>a DEF PushAccepts, Delivers
  <2>2. PICK r \in StreamRec : r = stream'[p]
    BY <1>b
  <2>3. stream' = [stream EXCEPT ![p] = r]
    BY <1>3, <1>a, <2>2 DEF PushAccepts
  <2>4. r.st = "accepted" /\ r.session = se /\ r.order = <<>> /\ r.as = stream[p].as /\ r.at = 1
    BY <1>3, <1>a, <2>1, <2>2 DEF PushAccepts, StreamRec
  <2>5. se \in Existing /\ SessionOwner[se] = stream[p].as.owner
    BY <1>3 DEF PushAccepts, authorize
  <2>6. Move(p, r)
    <3>1. Delivers(r)
      BY <2>4, <2>5 DEF Delivers
    <3>2. UNCHANGED <<source, subs, inflight>>
      BY <1>3 DEF PushAccepts, hub
    <3>3. QED
      BY <2>1, <2>3, <2>4, <3>1, <3>2 DEF Move
  <2>7. QED
    BY <2>6
<1>4. ASSUME NEW p \in Streams, Deliver(p)
      PROVE  Goal
  <2>1. stream[p] \in StreamRec /\ stream[p].st = "accepted" /\ stream[p].order = <<>> /\ stream[p].at = 1
        /\ stream[p].session \in Existing /\ SessionOwner[stream[p].session] = stream[p].as.owner
    BY <1>4, <1>a DEF Deliver, Delivers
  <2>2. CASE subs[stream[p].session] = {}
    <3>1. Reopened(stream[p]) \in StreamRec /\ Delivers(Reopened(stream[p])) /\ Reopened(stream[p]).order = <<>>
      BY <2>1, ReopenedShape DEF Delivers
    <3>2. Move(p, Reopened(stream[p]))
      BY <1>4, <2>1, <2>2, <3>1 DEF Deliver, Move
    <3>3. QED
      BY <3>1, <3>2
  <2>3. CASE subs[stream[p].session] # {}
    <3>1. PICK q \in Orders(subs[stream[p].session]) : stream' = [stream EXCEPT ![p].st = "sending", ![p].order = q]
      BY <1>4, <2>3 DEF Deliver
    <3>2. PICK r \in StreamRec : r = stream'[p]
      BY <1>b
    <3>3. stream' = [stream EXCEPT ![p] = r]
      BY <1>a, <3>1, <3>2
    <3>4. r.st = "sending" /\ r.order = q /\ r.session = stream[p].session /\ r.as = stream[p].as /\ r.at = stream[p].at
      BY <1>a, <2>1, <3>1, <3>2 DEF StreamRec
    <3>5. subs[stream[p].session] \in SUBSET Sources /\ stream[p].session \in Sessions
      BY <2>1, HubAssumption DEF HubInv, HubTypes
    <3>6. /\ q \in Seq(Sources) /\ \A i, j \in DOMAIN q : q[i] = q[j] => i = j
          /\ \A s \in subs[stream[p].session] : \E i \in DOMAIN q : q[i] = s
      BY <3>5, OrdersNameAll
    <3>11. PICK s \in subs[stream[p].session] : \E i \in DOMAIN q : q[i] = s
      BY <2>3, <3>6
    <3>7. r.at \in 1..Len(r.order)
      BY <2>1, <3>4, <3>6, <3>11
    <3>8. Delivers(r)
      BY <2>1, <3>4, <3>6, <3>7 DEF Delivers
    <3>9. Move(p, r)
      BY <1>4, <2>1, <2>3, <3>3, <3>4, <3>5, <3>8 DEF Deliver, Move
    <3>10. QED
      BY <3>9
  <2>4. QED
    BY <2>2, <2>3
<1>5. ASSUME NEW p \in Streams, Sends(p) \/ SendTimesOut(p)
      PROVE  Goal
  <2>1. stream[p] \in StreamRec /\ stream[p].st \in {"sending", "waiting"} /\ stream[p].pkts # <<>> /\ Delivers(stream[p])
    BY <1>5, <1>a DEF Sends, SendTimesOut, Delivers
  <2>2. PICK r \in StreamRec : /\ r = Advanced(stream[p]) /\ Delivers(r)
                               /\ r.order = stream[p].order /\ r.session = stream[p].session
    BY <2>1, AdvancedShape
  <2>3. Move(p, r)
    BY <1>5, <2>2 DEF Sends, SendTimesOut, Move
  <2>4. QED
    BY <2>3
<1>6. ASSUME NEW p \in Streams, SendWaits(p) \/ PushReturns(p)
      PROVE  Goal
  <2>1. PICK r \in StreamRec : r = stream'[p]
    BY <1>b
  <2>2. stream' = [stream EXCEPT ![p] = r]
    BY <1>6, <1>a, <2>1 DEF SendWaits, PushReturns
  <2>3. /\ r.order = stream[p].order /\ r.session = stream[p].session /\ r.as = stream[p].as
        /\ r.at = stream[p].at /\ r.pkts = stream[p].pkts
        /\ \/ r.st = "waiting" /\ stream[p].st = "sending" /\ r.pkts # <<>>
           \/ r.st = "ended" /\ stream[p].st = "open"
    BY <1>6, <1>a, <2>1 DEF SendWaits, PushReturns, StreamRec
  <2>4. Delivers(r)
    BY <1>a, <2>3 DEF Delivers
  <2>5. Move(p, r)
    BY <1>6, <2>2, <2>3, <2>4 DEF SendWaits, PushReturns, hub, Move
  <2>6. QED
    BY <2>5
<1>7. ASSUME NEW p \in Streams, DeliverReturns(p)
      PROVE  Goal
  <2>1. PICK r \in StreamRec : r = Reopened(stream[p]) /\ r.order = <<>> /\ r.st = "open" /\ r.at = 1
    BY <1>a, ReopenedShape
  <2>2. Move(p, r)
    BY <1>7, <2>1 DEF DeliverReturns, Move, Delivers, Holds
  <2>3. QED
    BY <2>2
<1>8. ASSUME NEW se \in Sessions, NEW probe \in Probes \cup {NoProbe}, Assign(se, probe)
      PROVE  Goal
  BY <1>8 DEF Assign, hub
<1>9. ASSUME NEW s \in Sources, (\E se \in Existing : Start(s, se)) \/ Unsubscribes(s) \/ ClosesChannel(s)
      PROVE  Goal
  BY <1>9 DEF Start, Unsubscribes, ClosesChannel, SourceUnchanged
<1>10. ASSUME NEW s \in Sources, Reads(s)
       PROVE  Goal
  BY <1>10 DEF Reads, SourceUnchanged
<1>11. QED
  BY <1>1, <1>2, <1>3, <1>4, <1>5, <1>6, <1>7, <1>8, <1>9, <1>10 DEF Next, Delivering

(***************************************************************************)
(* Each part of the invariant is kept.                                     *)
(***************************************************************************)

\* Subscribers run.
LEMMA SubsStep == HubInv /\ Next => SubsRunning'
<1> SUFFICES ASSUME HubInv, Next
             PROVE  SubsRunning'
  OBVIOUS
<1>a. source \in [Sources -> SourceRec] /\ subs \in [Sessions -> SUBSET Sources] /\ SubsRunning /\ Existing \subseteq Sessions
  BY HubAssumption DEF HubInv, HubTypes
<1>1. CASE UNCHANGED <<source, subs>>
  BY <1>a, <1>1 DEF SubsRunning
<1>2. ASSUME NEW s \in Sources, NEW se \in Existing, Start(s, se)
      PROVE  SubsRunning'
  BY <1>a, <1>2 DEF Start, SubsRunning
<1>3. ASSUME NEW s \in Sources, Unsubscribes(s)
      PROVE  SubsRunning'
  BY <1>a, <1>3 DEF Unsubscribes, SubsRunning, SourceRec
<1>4. ASSUME NEW s \in Sources, ClosesChannel(s)
      PROVE  SubsRunning'
  BY <1>a, <1>4 DEF ClosesChannel, SubsRunning, SourceRec
<1>5. QED
  BY <1>1, <1>2, <1>3, <1>4, PacketMoves DEF Move

\* A Deliver keeps its shape.
LEMMA DeliversStep == HubInv /\ Next => DeliversShaped'
<1> SUFFICES ASSUME HubInv, Next
             PROVE  DeliversShaped'
  OBVIOUS
<1>a. stream \in [Streams -> StreamRec] /\ \A p \in Streams : Delivers(stream[p])
  BY DEF HubInv, HubTypes, DeliversShaped
<1>1. CASE UNCHANGED stream
  BY <1>a, <1>1 DEF DeliversShaped
<1>2. ASSUME NEW p \in Streams, NEW r \in StreamRec, Move(p, r)
      PROVE  DeliversShaped'
  BY <1>a, <1>2 DEF Move, DeliversShaped
<1>3. QED
  BY <1>1, <1>2, PacketMoves

\* A snapshot's sources are of its session and not closed: they were subscribed
\* when it was taken, and none closes while it is counted.
LEMMA HeldStep == HubInv /\ Next => HeldOpen'
<1> SUFFICES ASSUME HubInv, Next, NEW p \in Streams, NEW i \in DOMAIN stream'[p].order
             PROVE  /\ source'[stream'[p].order[i]].session = stream'[p].session
                    /\ source'[stream'[p].order[i]].st \in {"running", "waiting"}
  BY DEF HeldOpen
<1>a. stream \in [Streams -> StreamRec] /\ source \in [Sources -> SourceRec] /\ inflight \in [Sources -> Nat]
  BY DEF HubInv, HubTypes
<1>b. subs \in [Sessions -> SUBSET Sources]
  BY DEF HubInv, HubTypes
<1>c. \A q \in Streams : \A j \in DOMAIN stream[q].order :
         /\ source[stream[q].order[j]].session = stream[q].session
         /\ source[stream[q].order[j]].st \in {"running", "waiting"}
         /\ stream[q].order[j] \in Sources
  BY <1>a DEF HubInv, HeldOpen, StreamRec
<1>1. CASE UNCHANGED <<stream, source>>
  BY <1>1, <1>c
<1>2. ASSUME NEW u \in Streams, NEW r \in StreamRec, Move(u, r)
      PROVE  /\ source'[stream'[p].order[i]].session = stream'[p].session
             /\ source'[stream'[p].order[i]].st \in {"running", "waiting"}
  <2>1. source' = source /\ stream' = [stream EXCEPT ![u] = r]
    BY <1>2 DEF Move
  <2>2. CASE p # u
    BY <1>a, <1>c, <2>1, <2>2
  <2>3. CASE p = u /\ r.order = stream[p].order /\ (r.order = <<>> \/ r.session = stream[p].session)
    BY <1>a, <1>c, <2>1, <2>3
  <2>4. CASE /\ p = u /\ r.session = stream[p].session /\ r.session \in Sessions
             /\ r.order \in Orders(subs[r.session])
    <3>1. r.order[i] \in subs[r.session]
      BY <1>a, <1>b, <2>1, <2>4, OrdersNameAll
    <3>2. QED
      BY <1>a, <2>1, <2>4, <3>1 DEF HubInv, SubsRunning
  <2>5. CASE p = u /\ r.order = <<>>
    BY <1>a, <2>1, <2>5
  <2>6. QED
    BY <1>2, <2>2, <2>3, <2>4, <2>5 DEF Move
<1>3. ASSUME UNCHANGED <<stream, inflight>>, NEW s \in Sources,
             (\E se \in Existing : Start(s, se)) \/ Unsubscribes(s) \/ ClosesChannel(s)
      PROVE  /\ source'[stream'[p].order[i]].session = stream'[p].session
             /\ source'[stream'[p].order[i]].st \in {"running", "waiting"}
  <2> DEFINE t == stream[p].order[i]
  <2>1. /\ stream' = stream /\ t \in Sources /\ source[t].session = stream[p].session
        /\ source[t].st \in {"running", "waiting"}
    BY <1>3, <1>c
  <2>2. CASE \E se \in Existing : Start(s, se)
    BY <1>a, <2>1, <2>2 DEF Start
  <2>3. CASE Unsubscribes(s)
    BY <1>a, <2>1, <2>3 DEF Unsubscribes, SourceRec
  <2>4. CASE ClosesChannel(s)
    <3>1. inflight[s] = 0 /\ source' = [source EXCEPT ![s].st = "closed"]
      BY <2>4 DEF ClosesChannel, MayClose
    <3>2. IsFiniteSet(Holders(s)) /\ Cardinality(Holders(s)) = 0
      BY <3>1, StreamSets DEF HubInv, Counted, Holders
    <3>3. Holders(s) = {}
      BY <3>2, FS_EmptySet
    <3>4. t # s
      BY <1>3, <3>3 DEF Holders, Holds
    <3>5. QED
      BY <1>a, <2>1, <3>1, <3>4
  <2>5. QED
    BY <1>3, <2>2, <2>3, <2>4
<1>4. QED
  BY <1>1, <1>2, <1>3, PacketMoves

\* inflight goes with the snapshots.
LEMMA CountedStep == HubInv /\ Next => Counted'
<1> SUFFICES ASSUME HubInv, Next, NEW s \in Sources
             PROVE  inflight'[s] = Cardinality(Holders(s)')
  BY DEF Counted
<1>a. stream \in [Streams -> StreamRec] /\ inflight \in [Sources -> Nat] /\ subs \in [Sessions -> SUBSET Sources]
  BY DEF HubInv, HubTypes
<1>b. IsFiniteSet(Holders(s)) /\ inflight[s] = Cardinality(Holders(s)) /\ inflight[s] \in Nat
  BY <1>a, StreamSets DEF Holders, HubInv, Counted
<1>1. CASE UNCHANGED <<stream, inflight>>
  BY <1>1, <1>b DEF Holders
<1>2. ASSUME NEW p \in Streams, NEW r \in StreamRec, Move(p, r)
      PROVE  inflight'[s] = Cardinality(Holders(s)')
  <2>1. stream' = [stream EXCEPT ![p] = r]
    BY <1>2 DEF Move
  <2>2. Holders(s)' = IF Holds(r, s) THEN Holders(s) \cup {p} ELSE Holders(s) \ {p}
    BY <1>a, <2>1 DEF Holders
  <2>3. p \in Holders(s) <=> Holds(stream[p], s)
    BY DEF Holders
  <2>4. CASE r.order = stream[p].order /\ inflight' = inflight
    <3>1. Holders(s)' = Holders(s)
      BY <2>2, <2>3, <2>4 DEF Holds
    <3>2. QED
      BY <1>b, <2>4, <3>1
  <2>5. CASE /\ stream[p].order = <<>> /\ r.session \in Sessions
             /\ r.order \in Orders(subs[r.session])
             /\ inflight' = [x \in Sources |-> IF x \in subs[r.session] THEN inflight[x] + 1 ELSE inflight[x]]
    <3>1. Holds(r, s) <=> s \in subs[r.session]
      BY <1>a, <2>5, OrdersNameAll DEF Holds
    <3>2. p \notin Holders(s)
      BY <2>3, <2>5 DEF Holds
    <3>3. CASE s \in subs[r.session]
      <4>1. Cardinality(Holders(s) \cup {p}) = Cardinality(Holders(s)) + 1
        BY <1>b, <3>2, FS_AddElement
      <4>2. Holders(s)' = Holders(s) \cup {p} /\ inflight'[s] = inflight[s] + 1
        BY <2>2, <2>5, <3>1, <3>3
      <4>3. QED
        BY <1>b, <4>1, <4>2
    <3>4. CASE s \notin subs[r.session]
      BY <1>b, <2>2, <2>5, <3>1, <3>2, <3>4
    <3>5. QED
      BY <3>3, <3>4
  <2>6. CASE /\ r.order = <<>>
             /\ inflight' = [x \in Sources |-> IF Holds(stream[p], x) THEN inflight[x] - 1 ELSE inflight[x]]
    <3>1. Holders(s)' = Holders(s) \ {p}
      BY <2>2, <2>6 DEF Holds
    <3>2. QED
      <4>1. Cardinality(Holders(s) \ {p}) = IF p \in Holders(s) THEN Cardinality(Holders(s)) - 1 ELSE Cardinality(Holders(s))
        BY <1>b, FS_RemoveElement
      <4>2. inflight'[s] = IF p \in Holders(s) THEN inflight[s] - 1 ELSE inflight[s]
        BY <2>3, <2>6
      <4>3. QED
        BY <1>b, <3>1, <4>1, <4>2
  <2>7. QED
    BY <1>2, <2>4, <2>5, <2>6 DEF Move
<1>3. QED
  BY <1>1, <1>2, PacketMoves

\* The invariant holds in every reachable state.
LEMMA HubInvariant == Spec => []HubInv
<1>1. Init => HubInv
  <2> SUFFICES ASSUME Init
               PROVE  HubInv
    OBVIOUS
  <2>1. stream = [p \in Streams |-> NoStream] /\ \A p \in Streams : stream[p].order = <<>>
    BY NoStreamShape DEF Init
  <2>2. HubTypes
    <3>1. [st |-> "created", session |-> NoSession] \in SourceRec
      BY DEF SourceRec
    <3>2. <<>> \in Seq(Packet) /\ Len(<<>>) = 0 /\ ChannelSize \in Nat /\ MaxPackets \in Nat
      BY HubAssumption
    <3>3. source \in [Sources -> SourceRec] /\ stream \in [Streams -> StreamRec]
      BY <3>1, NoStreamShape DEF Init
    <3>4. ch \in [Sources -> Seq(Packet)] /\ got \in [Sources -> Seq(Packet)] /\ \A s \in Sources : Len(ch[s]) <= ChannelSize
      BY <3>2 DEF Init
    <3>5. QED
      BY <3>2, <3>3, <3>4 DEF Init, HubTypes
  <2>3. SubsRunning
    BY DEF Init, SubsRunning
  <2>4. DeliversShaped
    BY <2>1, NoStreamShape DEF DeliversShaped, Delivers, NoStream
  <2>5. HeldOpen
    <3>1. \A p \in Streams : DOMAIN stream[p].order = {}
      BY <2>1
    <3>2. QED
      BY <3>1 DEF HeldOpen
  <2>6. \A s \in Sources : Holders(s) = {}
    BY <2>1 DEF Holders, Holds
  <2>7. Counted
    BY <2>6, FS_EmptySet DEF Init, Counted
  <2>8. QED
    BY <2>2, <2>3, <2>4, <2>5, <2>7 DEF HubInv
<1>2. HubInv /\ [Next]_vars => HubInv'
  <2>1. CASE Next
    BY <2>1, TypesStep, SubsStep, DeliversStep, HeldStep, CountedStep DEF HubInv
  <2>2. CASE UNCHANGED vars
    BY <2>2 DEF vars, hub, HubInv, HubTypes, SubsRunning, DeliversShaped, HeldOpen, Counted, Holders
  <2>3. QED
    BY <2>1, <2>2
<1>3. QED
  BY <1>1, <1>2, PTL DEF Spec

\* No Deliver holds a source whose channel is closed, however Delivers, timeouts,
\* unsubscriptions and closings interleave (Hub.Deliver, Subscription.cancel).
THEOREM NoSendOnClosedSafe == Spec => []NoSendOnClosed
<1>1. HubInv => NoSendOnClosed
  BY DEF HubInv, HeldOpen, NoSendOnClosed
<1>2. QED
  BY <1>1, HubInvariant, PTL

(***************************************************************************)
(* The sessions shown as connected.                                        *)
(***************************************************************************)
BoundTo(se) == {p \in Streams : stream[p].st \notin {"none", "ended"} /\ stream[p].bound = se}

\* A record that is bound where it was, and as open as it was, counts as before.
LEMMA SameBinding ==
    ASSUME stream \in [Streams -> StreamRec], NEW p \in Streams, NEW r \in StreamRec,
           stream' = [stream EXCEPT ![p] = r], r.bound = stream[p].bound,
           r.st \in {"none", "ended"} <=> stream[p].st \in {"none", "ended"},
           live' = live, ConnectedIsTrue
    PROVE  ConnectedIsTrue'
<1>1. \A se \in Sessions : BoundTo(se)' = BoundTo(se)
  BY DEF BoundTo
<1>2. QED
  BY <1>1 DEF ConnectedIsTrue, BoundTo

\* A stream that becomes bound, or open, is counted in once.
LEMMA NewBinding ==
    ASSUME stream \in [Streams -> StreamRec], live \in [Sessions -> Nat], NEW p \in Streams, NEW r \in StreamRec,
           NEW se \in Sessions \cup {NoSession},
           stream' = [stream EXCEPT ![p] = r], r.bound = se, r.st \notin {"none", "ended"},
           stream[p].st = "none" \/ stream[p].bound = NoSession,
           live' = Opened(live, se), ConnectedIsTrue
    PROVE  ConnectedIsTrue'
<1> SUFFICES ASSUME NEW x \in Sessions
             PROVE  live'[x] = Cardinality(BoundTo(x)')
  BY DEF ConnectedIsTrue, BoundTo
<1>1. IsFiniteSet(BoundTo(x)) /\ live[x] = Cardinality(BoundTo(x)) /\ live[x] \in Nat
  BY StreamSets DEF BoundTo, ConnectedIsTrue
<1>2. p \notin BoundTo(x) /\ x # NoSession
  BY HubAssumption DEF BoundTo
<1>3. CASE x = se
  <2>1. BoundTo(x)' = BoundTo(x) \cup {p}
    BY <1>3 DEF BoundTo
  <2>2. Cardinality(BoundTo(x) \cup {p}) = Cardinality(BoundTo(x)) + 1
    BY <1>1, <1>2, FS_AddElement
  <2>3. live'[x] = live[x] + 1
    BY <1>2, <1>3 DEF Opened
  <2>4. QED
    BY <1>1, <2>1, <2>2, <2>3
<1>4. CASE x # se
  <2>1. BoundTo(x)' = BoundTo(x)
    BY <1>2, <1>4 DEF BoundTo
  <2>2. live'[x] = live[x]
    BY <1>4 DEF Opened
  <2>3. QED
    BY <1>1, <2>1, <2>2
<1>5. QED
  BY <1>3, <1>4

\* live counts the open streams of each session.
LEMMA ConnectedStep == HubInv /\ ConnectedIsTrue /\ Next => ConnectedIsTrue'
<1> SUFFICES ASSUME HubInv, ConnectedIsTrue, Next
             PROVE  ConnectedIsTrue'
  OBVIOUS
<1>a. stream \in [Streams -> StreamRec] /\ live \in [Sessions -> Nat] /\ \A p \in Streams : Delivers(stream[p])
  BY DEF HubInv, HubTypes, DeliversShaped
<1>b. stream' \in [Streams -> StreamRec]
  BY TypesStep DEF HubTypes
<1>1. ASSUME NEW p \in Streams, NEW as \in Principals, NEW se \in Sessions \cup {NoSession}, PushOpens(p, as, se)
      PROVE  ConnectedIsTrue'
  <2> DEFINE r == [stream[p] EXCEPT !.st = "open", !.as = as, !.bound = se]
  <2>0. stream[p] \in StreamRec /\ as \in Principals \cup {Nobody}
    BY <1>a
  <2>1. r \in StreamRec /\ r.st = "open" /\ r.bound = se
    BY <2>0, RecOpen DEF StreamRec
  <2>2. stream' = [stream EXCEPT ![p] = r] /\ stream[p].st = "none" /\ live' = Opened(live, se)
    BY <1>1, <1>a DEF PushOpens
  <2>3. QED
    BY <1>a, <2>1, <2>2, NewBinding
<1>2. ASSUME NEW p \in Streams, NEW se \in Sessions, PushRejects(p, se)
      PROVE  ConnectedIsTrue'
  BY <1>2 DEF PushRejects, vars, ConnectedIsTrue
<1>3. ASSUME NEW p \in Streams, NEW se \in Sessions, NEW n \in 0..MaxBatch, PushAccepts(p, se, n)
      PROVE  ConnectedIsTrue'
  <2>1. PICK r \in StreamRec : r = stream'[p]
    BY <1>b
  <2>2. stream' = [stream EXCEPT ![p] = r] /\ stream[p].st = "open"
    BY <1>3, <1>a, <2>1 DEF PushAccepts
  <2>3. r.st = "accepted" /\ r.bound = IF stream[p].bound = NoSession THEN se ELSE stream[p].bound
    BY <1>3, <1>a, <2>1 DEF PushAccepts, StreamRec
  <2>4. CASE stream[p].bound = NoSession
    <3>1. live' = Opened(live, se)
      BY <1>3, <2>4 DEF PushAccepts
    <3>2. QED
      BY <1>a, <2>2, <2>3, <2>4, <3>1, NewBinding
  <2>5. CASE stream[p].bound # NoSession
    <3>1. live' = live
      BY <1>3, <2>5 DEF PushAccepts
    <3>2. QED
      BY <1>a, <2>2, <2>3, <2>5, <3>1, SameBinding
  <2>6. QED
    BY <2>4, <2>5
<1>4. ASSUME NEW p \in Streams, Deliver(p)
      PROVE  ConnectedIsTrue'
  <2>1. PICK r \in StreamRec : r = stream'[p]
    BY <1>b
  <2>2. stream[p].st = "accepted" /\ live' = live
    BY <1>4 DEF Deliver
  <2>3. stream' = [stream EXCEPT ![p] = r] /\ r.bound = stream[p].bound /\ r.st \in {"open", "sending"}
    <3>1. CASE subs[stream[p].session] = {}
      BY <1>4, <1>a, <2>1, <3>1, ReopenedShape DEF Deliver
    <3>2. CASE subs[stream[p].session] # {}
      <4>1. PICK q \in Orders(subs[stream[p].session]) : stream' = [stream EXCEPT ![p].st = "sending", ![p].order = q]
        BY <1>4, <3>2 DEF Deliver
      <4>2. QED
        BY <1>a, <2>1, <4>1 DEF StreamRec
    <3>3. QED
      BY <3>1, <3>2
  <2>4. QED
    BY <1>a, <2>2, <2>3, SameBinding
<1>5. ASSUME NEW p \in Streams, Sends(p) \/ SendTimesOut(p)
      PROVE  ConnectedIsTrue'
  <2>1. stream[p] \in StreamRec /\ stream[p].st \in {"sending", "waiting"} /\ stream[p].pkts # <<>> /\ Delivers(stream[p])
    BY <1>5, <1>a DEF Sends, SendTimesOut, Delivers
  <2>2. PICK r \in StreamRec : r = Advanced(stream[p]) /\ r.bound = stream[p].bound /\ r.st = "sending"
    BY <2>1, AdvancedShape
  <2>3. stream' = [stream EXCEPT ![p] = r] /\ live' = live
    BY <1>5, <2>2 DEF Sends, SendTimesOut
  <2>4. QED
    BY <1>a, <2>1, <2>2, <2>3, SameBinding
<1>6. ASSUME NEW p \in Streams, SendWaits(p)
      PROVE  ConnectedIsTrue'
  <2>1. PICK r \in StreamRec : r = stream'[p]
    BY <1>b
  <2>2. stream' = [stream EXCEPT ![p] = r] /\ live' = live
    BY <1>6, <1>a, <2>1 DEF SendWaits
  <2>3. r.bound = stream[p].bound /\ r.st = "waiting" /\ stream[p].st = "sending"
    BY <1>6, <1>a, <2>1 DEF SendWaits, StreamRec
  <2>4. QED
    BY <1>a, <2>2, <2>3, SameBinding
<1>7. ASSUME NEW p \in Streams, DeliverReturns(p)
      PROVE  ConnectedIsTrue'
  <2>1. PICK r \in StreamRec : r = Reopened(stream[p]) /\ r.bound = stream[p].bound /\ r.st = "open"
    BY <1>a, ReopenedShape
  <2>2. stream' = [stream EXCEPT ![p] = r] /\ live' = live /\ stream[p].st = "sending"
    BY <1>7, <2>1 DEF DeliverReturns
  <2>3. QED
    BY <1>a, <2>1, <2>2, SameBinding
<1>8. ASSUME NEW p \in Streams, PushReturns(p)
      PROVE  ConnectedIsTrue'
  <2> SUFFICES ASSUME NEW x \in Sessions
               PROVE  live'[x] = Cardinality(BoundTo(x)')
    BY DEF ConnectedIsTrue, BoundTo
  <2>1. stream' = [stream EXCEPT ![p].st = "ended"] /\ live' = Closed(live, stream[p].bound) /\ stream[p].st = "open"
    BY <1>8 DEF PushReturns
  <2>2. IsFiniteSet(BoundTo(x)) /\ live[x] = Cardinality(BoundTo(x)) /\ live[x] \in Nat
    BY <1>a, StreamSets DEF BoundTo, ConnectedIsTrue
  <2>3. BoundTo(x)' = BoundTo(x) \ {p}
    BY <1>a, <2>1 DEF BoundTo, StreamRec
  <2>4. Cardinality(BoundTo(x) \ {p}) = IF p \in BoundTo(x) THEN Cardinality(BoundTo(x)) - 1 ELSE Cardinality(BoundTo(x))
    BY <2>2, FS_RemoveElement
  <2>5. CASE stream[p].bound = x
    <3>1. p \in BoundTo(x) /\ x # NoSession
      BY <2>1, <2>5, HubAssumption DEF BoundTo
    <3>2. live[x] # 0
      BY <2>2, <3>1, FS_EmptySet
    <3>3. live'[x] = live[x] - 1
      BY <1>a, <2>1, <2>5, <3>1, <3>2 DEF Closed
    <3>4. QED
      BY <2>2, <2>3, <2>4, <3>1, <3>3
  <2>6. CASE stream[p].bound # x
    <3>1. p \notin BoundTo(x) /\ live'[x] = live[x]
      BY <1>a, <2>1, <2>6 DEF BoundTo, Closed
    <3>2. QED
      BY <2>2, <2>3, <2>4, <3>1
  <2>7. QED
    BY <2>5, <2>6
<1>9. CASE \/ \E se \in Sessions, probe \in Probes \cup {NoProbe} : Assign(se, probe)
           \/ \E s \in Sources : (\E se \in Existing : Start(s, se)) \/ Unsubscribes(s) \/ ClosesChannel(s) \/ Reads(s)
  <2>1. UNCHANGED <<stream, live>>
    BY <1>9 DEF Assign, Start, Unsubscribes, ClosesChannel, Reads, SourceUnchanged
  <2>2. QED
    BY <2>1 DEF ConnectedIsTrue
<1>10. QED
  BY <1>1, <1>2, <1>3, <1>4, <1>5, <1>6, <1>7, <1>8, <1>9 DEF Next, Delivering

\* What the invariant and the count of open streams say together.
LEMMA BindingFollows == HubInv /\ ConnectedIsTrue => BindingTruthful
<1> SUFFICES ASSUME HubInv, ConnectedIsTrue
             PROVE  TypeOK /\ RightSession
  BY DEF BindingTruthful
<1>1. RightSession
  <2> SUFFICES ASSUME NEW p \in Streams, NEW i \in DOMAIN stream[p].order
               PROVE  /\ source[stream[p].order[i]].session = stream[p].session
                      /\ SessionOwner[stream[p].session] = stream[p].as.owner
    BY DEF RightSession
  <2>1. Delivers(stream[p])
    BY DEF HubInv, DeliversShaped
  <2>2. stream[p].st \in {"sending", "waiting"}
    BY <2>1 DEF Delivers
  <2>3. QED
    BY <2>1, <2>2 DEF Delivers, HubInv, HeldOpen
<1>2. \A s \in Sources : inflight[s] \in 0..Cardinality(Streams)
  BY StreamSets DEF HubInv, Counted, Holders
<1>3. \A se \in Sessions : live[se] \in 0..Cardinality(Streams)
  BY StreamSets DEF ConnectedIsTrue
<1>4. inflight \in [Sources -> 0..Cardinality(Streams)] /\ live \in [Sessions -> 0..Cardinality(Streams)]
  BY <1>2, <1>3 DEF HubInv, HubTypes
<1>5. \A s \in Sources : /\ source[s].st \in {"created", "running", "waiting", "closed"}
                         /\ source[s].session \in Sessions \cup {NoSession}
  BY DEF HubInv, HubTypes, SourceRec
<1>6. \A p \in Streams : /\ stream[p].st \in {"none", "open", "accepted", "sending", "waiting", "ended"}
                         /\ stream[p].as \in Principals \cup {Nobody}
                         /\ stream[p].bound \in Sessions \cup {NoSession}
                         /\ stream[p].session \in Sessions \cup {NoSession}
                         /\ stream[p].pkts \in Seq(Packet) /\ stream[p].order \in Seq(Sources)
  BY DEF HubInv, HubTypes, StreamRec
<1>7. TypeOK
  BY <1>4, <1>5, <1>6 DEF HubInv, HubTypes, TypeOK, Packet
<1>8. QED
  BY <1>1, <1>7

\* A batch goes only to sources of the session it names, which belongs to the owner
\* of its stream; and SessionLiveness counts exactly the open streams bound to a
\* session, for streams that are bound when they open or by their first batch.
THEOREM BindingSafe == Spec => []BindingTruthful
<1>1. Init => ConnectedIsTrue
  <2>1. ASSUME Init, NEW se \in Sessions PROVE BoundTo(se) = {} /\ live[se] = 0
    BY <2>1 DEF Init, BoundTo, NoStream
  <2>2. QED
    BY <2>1, FS_EmptySet DEF ConnectedIsTrue, BoundTo
<1>2. HubInv /\ ConnectedIsTrue /\ [Next]_vars => ConnectedIsTrue'
  BY ConnectedStep DEF vars, ConnectedIsTrue
<1>3. HubInv /\ ConnectedIsTrue => BindingTruthful
  BY BindingFollows
<1>4. QED
  BY <1>1, <1>2, <1>3, HubInvariant, PTL DEF Spec

(***************************************************************************)
(* What is recorded: the packets that Delivers have still to send, as a    *)
(* set of pairs of a stream and a number.                                  *)
(***************************************************************************)
Slots(L) == UNION {{p} \X (1..L[p]) : p \in Streams}

\* The pairs, each with its stream.
LEMMA SlotsAre ==
    ASSUME NEW L \in [Streams -> Nat], NEW w
    PROVE  w \in Slots(L) <=> \E p \in Streams : \E i \in 1..L[p] : w = <<p, i>>
<1>1. w \in Slots(L) <=> \E p \in Streams : w \in {p} \X (1..L[p])
  BY Zenon DEF Slots
<1>2. \A p \in Streams : w \in {p} \X (1..L[p]) <=> \E i \in 1..L[p] : w = <<p, i>>
  OBVIOUS
<1>3. QED
  BY <1>1, <1>2

\* The pairs of one stream.
LEMMA OwnSlots ==
    ASSUME NEW p, NEW n \in Nat
    PROVE  IsFiniteSet({p} \X (1..n)) /\ Cardinality({p} \X (1..n)) = n
<1>1. IsFiniteSet({p}) /\ Cardinality({p}) = 1
  BY ONLY FS_Singleton
<1>2. PICK N : N = 1..n
  OBVIOUS
<1>3. 1 \in Int /\ n \in Int /\ (IF 1 > n THEN 0 ELSE n - 1 + 1) = n
  OBVIOUS
<1>4. IsFiniteSet(N) /\ Cardinality(N) = n
  BY ONLY <1>2, <1>3, FS_Interval
<1>5. IsFiniteSet({p} \X N) /\ Cardinality({p} \X N) = 1 * n
  BY ONLY <1>1, <1>4, FS_Product
<1>6. QED
  BY <1>2, <1>5

\* They are finitely many.
LEMMA SlotsFinite ==
    ASSUME NEW L \in [Streams -> Nat]
    PROVE  IsFiniteSet(Slots(L)) /\ Cardinality(Slots(L)) \in Nat
<1> DEFINE F == {{p} \X (1..L[p]) : p \in Streams}
           f == [p \in Streams |-> {p} \X (1..L[p])]
<1>1. f \in Surjection(Streams, F)
  BY DEF Surjection
<1>2. IsFiniteSet(F)
  BY <1>1, HubAssumption, FS_Surjection
<1>3. ASSUME NEW p \in Streams PROVE IsFiniteSet({p} \X (1..L[p]))
  <2>1. L[p] \in Nat
    OBVIOUS
  <2>2. QED
    BY ONLY <2>1, OwnSlots
<1>4. \A T \in F : IsFiniteSet(T)
  BY <1>3
<1>5. IsFiniteSet(UNION F)
  BY <1>2, <1>4, FS_UNION
<1>6. QED
  BY <1>5, FS_CardinalityType DEF Slots

\* The pairs of one stream change.
LEMMA SlotsChange ==
    ASSUME NEW L \in [Streams -> Nat], NEW M \in [Streams -> Nat], NEW p \in Streams,
           \A q \in Streams : q # p => M[q] = L[q]
    PROVE  Cardinality(Slots(M)) + L[p] = Cardinality(Slots(L)) + M[p]
<1> DEFINE Others == {w \in Slots(L) : \A i \in 1..L[p] : w # <<p, i>>}
           Own(n) == {p} \X (1..n)
<1>1. IsFiniteSet(Others) /\ Cardinality(Others) \in Nat
  BY SlotsFinite, FS_Subset, FS_CardinalityType
<1>2. ASSUME NEW n \in Nat PROVE IsFiniteSet(Own(n)) /\ Cardinality(Own(n)) = n
  BY OwnSlots
<1>3. \A w \in Others : \E q \in Streams : q # p /\ \E i \in 1..L[q] : w = <<q, i>>
  BY SlotsAre
<1>4. ASSUME NEW n \in Nat PROVE Others \cap Own(n) = {}
  BY <1>3
<1>5. ASSUME NEW n \in Nat PROVE Cardinality(Others \cup Own(n)) = Cardinality(Others) + n
  <2>1. Cardinality(Others \cap Own(n)) = 0
    BY <1>4, FS_EmptySet
  <2>2. PICK O, S : O = Own(n) /\ S = Others
    OBVIOUS
  <2>3. /\ IsFiniteSet(O) /\ Cardinality(O) = n /\ Cardinality(S \cap O) = 0
        /\ IsFiniteSet(S) /\ Cardinality(S) \in Nat /\ n \in Nat
    BY <1>1, <1>2, <2>1, <2>2
  <2>4. Cardinality(S \cup O) = Cardinality(S) + Cardinality(O) - Cardinality(S \cap O)
    BY ONLY <2>3, FS_Union
  <2>5. Cardinality(S \cup O) = Cardinality(S) + n
    BY ONLY <2>3, <2>4
  <2>6. QED
    BY <2>2, <2>5
<1>6. Slots(L) = Others \cup Own(L[p])
  <2>1. ASSUME NEW w \in Slots(L) PROVE w \in Others \/ w \in Own(L[p])
    OBVIOUS
  <2>2. ASSUME NEW w \in Own(L[p]) PROVE w \in Slots(L)
    BY SlotsAre
  <2>3. QED
    BY <2>1, <2>2
<1>7. Slots(M) = Others \cup Own(M[p])
  <2>1. ASSUME NEW w \in Slots(M) PROVE w \in Others \/ w \in Own(M[p])
    <3>1. PICK q \in Streams : \E i \in 1..M[q] : w = <<q, i>>
      BY SlotsAre
    <3>2. CASE q = p
      BY <3>1, <3>2
    <3>3. CASE q # p
      <4>1. w \in Slots(L)
        BY <3>1, <3>3, SlotsAre
      <4>2. \A i \in 1..L[p] : w # <<p, i>>
        BY <3>1, <3>3
      <4>3. QED
        BY <4>1, <4>2
    <3>4. QED
      BY <3>2, <3>3
  <2>2. ASSUME NEW w \in Own(M[p]) PROVE w \in Slots(M)
    BY SlotsAre
  <2>3. ASSUME NEW w \in Others PROVE w \in Slots(M)
    BY <1>3, SlotsAre
  <2>4. QED
    BY <2>1, <2>2, <2>3
<1>8. Cardinality(Slots(L)) = Cardinality(Others) + L[p] /\ Cardinality(Slots(M)) = Cardinality(Others) + M[p]
  BY <1>5, <1>6, <1>7
<1>9. QED
  BY <1>1, <1>8

\* Products of sizes.
LEMMA Products ==
    ASSUME NEW k \in Nat, NEW n \in Nat, k # 0
    PROVE  k * n \in Nat /\ n <= k * n /\ (k - 1) * n = k * n - n
<1>1. k * n \in Nat /\ (k - 1) * n = k * n - n /\ (k - 1) * n \in Nat
  <2>1. k - 1 \in Nat
    OBVIOUS
  <2>2. \A a, b \in Nat : a * b \in Nat
    OBVIOUS
  <2>3. QED
    BY <2>1, <2>2
<1>2. QED
  BY <1>1

\* What a stream has left to send, and one less after each turn.
LEMMA LeftIs ==
    ASSUME NEW r \in StreamRec, Delivers(r)
    PROVE  /\ Left(r) \in Nat
           /\ r.st \in {"sending", "waiting"} /\ r.pkts # <<>> => Left(Advanced(r)) + 1 = Left(r)
<1>a. PICK k, n : k = Len(r.pkts) /\ n = Len(r.order)
  OBVIOUS
<1>1. k \in Nat /\ n \in Nat /\ (r.pkts # <<>> => k # 0) /\ r.pkts \in Seq(Packet) /\ r.at \in Nat
  BY <1>a DEF StreamRec
<1>2. CASE ~(r.st \in {"sending", "waiting"} /\ r.pkts # <<>>)
  BY <1>2 DEF Left
<1>3. CASE r.st \in {"sending", "waiting"} /\ r.pkts # <<>>
  <2>1. Left(r) = k * n - (r.at - 1) /\ r.at \in 1..n
    BY <1>a, <1>3 DEF Left, Delivers
  <2>2. k * n \in Nat /\ n <= k * n /\ (k - 1) * n = k * n - n
    BY ONLY <1>1, <1>3, Products
  <2>3. PICK m \in Nat : m = k * n
    BY <2>2
  <2>4. Left(r) = m - (r.at - 1) /\ n <= m /\ (k - 1) * n = m - n
    BY <2>1, <2>2, <2>3
  <2>5. CASE r.at < n
    <3>1. Advanced(r) = [r EXCEPT !.st = "sending", !.at = r.at + 1]
      BY <1>a, <2>5 DEF Advanced
    <3>2. Advanced(r).st = "sending" /\ Advanced(r).pkts = r.pkts /\ Advanced(r).order = r.order /\ Advanced(r).at = r.at + 1
      BY <3>1 DEF StreamRec
    <3>3. Left(Advanced(r)) = k * n - (r.at + 1 - 1)
      <4>1. PICK a : a = Advanced(r)
        OBVIOUS
      <4>2. a.st = "sending" /\ a.pkts # <<>> /\ Len(a.pkts) = k /\ Len(a.order) = n /\ a.at = r.at + 1
        BY <1>a, <1>3, <3>2, <4>1
      <4>3. Left(a) = Len(a.pkts) * Len(a.order) - (a.at - 1)
        BY <4>2 DEF Left
      <4>4. QED
        BY ONLY <1>1, <4>1, <4>2, <4>3
    <3>4. Left(Advanced(r)) = m - (r.at + 1 - 1)
      BY ONLY <2>3, <3>3
    <3>5. Left(Advanced(r)) + 1 = Left(r)
      BY ONLY <1>1, <2>1, <2>4, <3>4, m \in Nat
    <3>6. Left(r) \in Nat
      BY ONLY <1>1, <2>1, <2>4, m \in Nat
    <3>7. QED
      BY <3>5, <3>6
  <2>6. CASE ~(r.at < n)
    <3>0. Tail(r.pkts) \in Seq(Packet) /\ Len(Tail(r.pkts)) = Len(r.pkts) - 1
      BY <1>1, <1>3, HeadTailProperties
    <3>1. PICK t \in Seq(Packet) : t = Tail(r.pkts) /\ Len(t) = k - 1
      BY <1>a, <3>0
    <3>2. Advanced(r) = [r EXCEPT !.st = "sending", !.at = 1, !.pkts = t]
      BY <1>a, <2>6, <3>1 DEF Advanced
    <3>3. Advanced(r).st = "sending" /\ Advanced(r).pkts = t /\ Advanced(r).order = r.order /\ Advanced(r).at = 1
      BY <3>2 DEF StreamRec
    <3>4. Len(t) = k - 1 /\ r.at = n
      BY ONLY <1>1, <2>1, <2>6, <3>1
    <3>5. CASE t = <<>>
      <4>1. k = 1 /\ Left(Advanced(r)) = 0
        BY <1>1, <3>3, <3>4, <3>5 DEF Left
      <4>2. m = n
        BY ONLY <1>1, <2>3, <4>1
      <4>3. Left(r) \in Nat /\ Left(Advanced(r)) + 1 = Left(r)
        BY ONLY <1>1, <2>1, <2>4, <3>4, <4>1, <4>2
      <4>4. QED
        BY <4>3
    <3>6. CASE t # <<>>
      <4>1. Left(Advanced(r)) = (k - 1) * n - (1 - 1)
        BY <1>a, <3>3, <3>4, <3>6 DEF Left
      <4>2. PICK b : b = (k - 1) * n
        OBVIOUS
      <4>3. Left(r) \in Nat /\ Left(Advanced(r)) + 1 = Left(r)
        BY ONLY SMTT(20), <1>1, <2>1, <2>4, <3>4, <4>1, <4>2, m \in Nat
      <4>4. QED
        BY <4>3
    <3>7. QED
      BY <3>5, <3>6
  <2>7. QED
    BY <2>5, <2>6
<1>4. QED
  BY <1>2, <1>3

\* A stream moves on: what all have to send changes by what it has.
LEMMA ToSendMoves ==
    ASSUME stream \in [Streams -> StreamRec], stream' \in [Streams -> StreamRec],
           \A q \in Streams : Delivers(stream[q]) /\ Delivers(stream'[q]),
           NEW p \in Streams, \A q \in Streams : q # p => stream'[q] = stream[q]
    PROVE  /\ Cardinality(ToSend) \in Nat /\ Cardinality(ToSend') \in Nat
           /\ Cardinality(ToSend') + Left(stream[p]) = Cardinality(ToSend) + Left(stream'[p])
<1>1. PICK L : L = [q \in Streams |-> Left(stream[q])]
  OBVIOUS
<1>2. PICK M : M = [q \in Streams |-> Left(stream'[q])]
  OBVIOUS
<1>3. \A q \in Streams : Left(stream[q]) \in Nat /\ Left(stream'[q]) \in Nat
  BY LeftIs
<1>4. L \in [Streams -> Nat] /\ M \in [Streams -> Nat] /\ \A q \in Streams : q # p => M[q] = L[q]
  BY <1>1, <1>2, <1>3
<1>5. ToSend = Slots(L) /\ ToSend' = Slots(M)
  BY <1>1, <1>2 DEF ToSend, Slots
<1>6. QED
  BY <1>1, <1>2, <1>4, <1>5, SlotsChange, SlotsFinite

\* Nothing moves but what nobody sends.
LEMMA ToSendSame ==
    ASSUME stream' = stream PROVE ToSend' = ToSend
BY DEF ToSend

\* What was offered is accounted for.
LEMMA RecordedStep == HubInv /\ DropsRecorded /\ Next => DropsRecorded'
<1> SUFFICES ASSUME HubInv, DropsRecorded, Next
             PROVE  DropsRecorded'
  OBVIOUS
<1>a. stream \in [Streams -> StreamRec] /\ stream' \in [Streams -> StreamRec]
      /\ \A q \in Streams : Delivers(stream[q]) /\ Delivers(stream'[q])
  BY TypesStep, DeliversStep DEF HubInv, HubTypes, DeliversShaped
<1>b. offered \in Nat /\ delivered \in Nat /\ droppedBusy \in Nat /\ droppedNoSub \in Nat
      /\ offered = delivered + droppedBusy + droppedNoSub + Cardinality(ToSend)
  BY DEF HubInv, HubTypes, DropsRecorded
<1>c. ASSUME NEW p \in Streams, \A q \in Streams : q # p => stream'[q] = stream[q],
             NEW c \in Nat, NEW d \in Nat, c + Left(stream[p]) = d + Left(stream'[p]),
             NEW i \in Nat, NEW j \in Nat, NEW k \in Nat, i + j + k = d,
             offered' = offered + c, delivered' = delivered + i,
             droppedBusy' = droppedBusy + j, droppedNoSub' = droppedNoSub + k
      PROVE  DropsRecorded'
  <2>1. Left(stream[p]) \in Nat /\ Left(stream'[p]) \in Nat
    BY <1>a, LeftIs
  <2>2. /\ Cardinality(ToSend) \in Nat /\ Cardinality(ToSend') \in Nat
        /\ Cardinality(ToSend') + Left(stream[p]) = Cardinality(ToSend) + Left(stream'[p])
    BY ONLY <1>a, <1>c, ToSendMoves
  <2>3. PICK x, y, a, b : /\ x = Cardinality(ToSend) /\ y = Cardinality(ToSend')
                          /\ a = Left(stream[p]) /\ b = Left(stream'[p])
    OBVIOUS
  <2>4. /\ x \in Nat /\ y \in Nat /\ a \in Nat /\ b \in Nat /\ y + a = x + b /\ c + a = d + b
        /\ c \in Nat /\ d \in Nat /\ i \in Nat /\ j \in Nat /\ k \in Nat /\ i + j + k = d
    BY <1>c, <2>1, <2>2, <2>3
  <2>5. /\ offered \in Nat /\ delivered \in Nat /\ droppedBusy \in Nat /\ droppedNoSub \in Nat
        /\ offered = delivered + droppedBusy + droppedNoSub + x
    BY <1>b, <2>3
  <2>6. offered + c = (delivered + i) + (droppedBusy + j) + (droppedNoSub + k) + y
    BY ONLY <2>4, <2>5
  <2>7. offered' = delivered' + droppedBusy' + droppedNoSub' + y
    BY <1>c, <2>6
  <2>8. QED
    BY <2>3, <2>7 DEF DropsRecorded
<1>d. ASSUME NEW p \in Streams, \A q \in Streams : q # p => stream'[q] = stream[q],
             Left(stream'[p]) = Left(stream[p]), UNCHANGED <<offered, delivered, droppedBusy, droppedNoSub>>
      PROVE  DropsRecorded'
  <2>1. Left(stream[p]) \in Nat
    BY <1>a, LeftIs
  <2>2. QED
    BY ONLY <1>a, <1>b, <1>d, <2>1, <1>c, 0 \in Nat
<1>e. CASE UNCHANGED <<stream, offered, delivered, droppedBusy, droppedNoSub>>
  BY <1>b, <1>e, ToSendSame DEF DropsRecorded
<1>1. ASSUME NEW p \in Streams, NEW as \in Principals, NEW se \in Sessions \cup {NoSession}, PushOpens(p, as, se)
      PROVE  DropsRecorded'
  <2>1. stream[p].st = "none" /\ stream'[p].st = "open" /\ \A q \in Streams : q # p => stream'[q] = stream[q]
    BY <1>1, <1>a DEF PushOpens, StreamRec
  <2>2. Left(stream[p]) = 0 /\ Left(stream'[p]) = 0
    BY <2>1 DEF Left
  <2>3. QED
    BY <1>1, <1>d, <2>1, <2>2 DEF PushOpens, hub
<1>2. ASSUME NEW p \in Streams, NEW se \in Sessions, PushRejects(p, se)
      PROVE  DropsRecorded'
  BY <1>2, <1>e DEF PushRejects, vars, hub
<1>3. ASSUME NEW p \in Streams, NEW se \in Sessions, NEW n \in 0..MaxBatch, PushAccepts(p, se, n)
      PROVE  DropsRecorded'
  <2>1. stream[p].st = "open" /\ stream'[p].st = "accepted" /\ \A q \in Streams : q # p => stream'[q] = stream[q]
    BY <1>3, <1>a DEF PushAccepts, StreamRec
  <2>2. Left(stream[p]) = 0 /\ Left(stream'[p]) = 0
    BY <2>1 DEF Left
  <2>3. QED
    BY <1>3, <1>d, <2>1, <2>2 DEF PushAccepts, hub
<1>4. ASSUME NEW p \in Streams, Deliver(p)
      PROVE  DropsRecorded'
  <2>1. stream[p] \in StreamRec /\ stream[p].st = "accepted" /\ stream[p].at = 1 /\ Left(stream[p]) = 0
        /\ stream[p].session \in Existing /\ \A q \in Streams : q # p => stream'[q] = stream[q]
    BY <1>4, <1>a DEF Deliver, Delivers, Left
  <2>2. PICK n \in Nat : n = Len(stream[p].pkts)
    BY <2>1 DEF StreamRec
  <2>3. CASE subs[stream[p].session] = {}
    <3>1. stream'[p] = Reopened(stream[p])
      BY <1>4, <1>a, <2>3 DEF Deliver
    <3>2. Left(stream'[p]) = 0
      BY <2>1, <3>1, ReopenedShape DEF Left
    <3>3. offered' = offered + n /\ delivered' = delivered + 0 /\ droppedBusy' = droppedBusy + 0 /\ droppedNoSub' = droppedNoSub + n
      BY <1>4, <1>b, <2>2, <2>3 DEF Deliver
    <3>4. n + Left(stream[p]) = n + Left(stream'[p]) /\ 0 + 0 + n = n
      BY <2>1, <3>2
    <3>5. QED
      BY ONLY <1>c, <2>1, <2>2, <3>3, <3>4, 0 \in Nat
  <2>4. CASE subs[stream[p].session] # {}
    <3>1. PICK q \in Orders(subs[stream[p].session]) : stream' = [stream EXCEPT ![p].st = "sending", ![p].order = q]
      BY <1>4, <2>4 DEF Deliver
    <3>2. subs[stream[p].session] \in SUBSET Sources
      BY <2>1, HubAssumption DEF HubInv, HubTypes
    <3>3. PICK m \in Nat : m = Len(q) /\ m = Cardinality(subs[stream[p].session])
      BY <3>2, OrdersNameAll
    <3>4. stream'[p].st = "sending" /\ stream'[p].order = q /\ stream'[p].pkts = stream[p].pkts /\ stream'[p].at = 1
      BY <1>a, <2>1, <3>1 DEF StreamRec
    <3>5. Left(stream'[p]) = n * m /\ n * m \in Nat
      <4>1. n * m \in Nat
        BY ONLY n \in Nat, m \in Nat
      <4>2. CASE n = 0
        <5>0. stream[p].pkts \in Seq(Packet)
          BY <2>1 DEF StreamRec
        <5>1. stream[p].pkts = <<>>
          BY ONLY <2>2, <4>2, <5>0, EmptySeq
        <5>2. n * m = 0
          BY ONLY <4>2, m \in Nat
        <5>3. QED
          BY <3>4, <4>1, <5>1, <5>2 DEF Left
      <4>3. CASE n # 0
        <5>1. stream[p].pkts # <<>>
          BY <2>2, <4>3
        <5>2. Left(stream'[p]) = n * m - (1 - 1)
          BY <2>2, <3>3, <3>4, <5>1 DEF Left
        <5>3. QED
          BY <4>1, <5>2
      <4>4. QED
        BY <4>2, <4>3
    <3>6. PICK c \in Nat : c = n * m
      BY <3>5
    <3>7. offered' = offered + c /\ delivered' = delivered + 0 /\ droppedBusy' = droppedBusy + 0 /\ droppedNoSub' = droppedNoSub + 0
      BY SMTT(20), <1>4, <1>b, <2>2, <2>4, <3>3, <3>6 DEF Deliver
    <3>8. c + Left(stream[p]) = 0 + Left(stream'[p]) /\ 0 + 0 + 0 = 0
      BY <2>1, <3>5, <3>6
    <3>9. QED
      BY ONLY <1>c, <2>1, <3>7, <3>8, 0 \in Nat
  <2>5. QED
    BY <2>3, <2>4
<1>5. ASSUME NEW p \in Streams, Sends(p) \/ SendTimesOut(p)
      PROVE  DropsRecorded'
  <2>1. stream[p] \in StreamRec /\ stream[p].st \in {"sending", "waiting"} /\ stream[p].pkts # <<>> /\ Delivers(stream[p])
    BY <1>5, <1>a DEF Sends, SendTimesOut, Delivers
  <2>2. stream'[p] = Advanced(stream[p]) /\ \A q \in Streams : q # p => stream'[q] = stream[q]
    BY <1>5, <1>a DEF Sends, SendTimesOut
  <2>3. 0 + Left(stream[p]) = 1 + Left(stream'[p]) /\ 0 + 1 + 0 = 1 /\ 1 + 0 + 0 = 1
    <3>1. Left(Advanced(stream[p])) + 1 = Left(stream[p])
      BY <2>1, LeftIs
    <3>2. Left(stream[p]) \in Nat /\ Left(stream'[p]) \in Nat
      BY <1>a, LeftIs
    <3>3. QED
      BY ONLY <2>2, <3>1, <3>2
  <2>4. CASE Sends(p)
    <3>1. offered' = offered + 0 /\ delivered' = delivered + 1 /\ droppedBusy' = droppedBusy + 0 /\ droppedNoSub' = droppedNoSub + 0
      BY <1>b, <2>4 DEF Sends
    <3>2. QED
      BY ONLY <1>c, <2>2, <2>3, <3>1, 0 \in Nat, 1 \in Nat
  <2>5. CASE SendTimesOut(p)
    <3>1. offered' = offered + 0 /\ delivered' = delivered + 0 /\ droppedBusy' = droppedBusy + 1 /\ droppedNoSub' = droppedNoSub + 0
      BY <1>b, <2>5 DEF SendTimesOut
    <3>2. QED
      BY ONLY <1>c, <2>2, <2>3, <3>1, 0 \in Nat, 1 \in Nat
  <2>6. QED
    BY <1>5, <2>4, <2>5
<1>6. ASSUME NEW p \in Streams, SendWaits(p) \/ PushReturns(p)
      PROVE  DropsRecorded'
  <2>1. /\ stream'[p].order = stream[p].order /\ stream'[p].at = stream[p].at /\ stream'[p].pkts = stream[p].pkts
        /\ \/ stream'[p].st = "waiting" /\ stream[p].st = "sending"
           \/ stream'[p].st = "ended" /\ stream[p].st = "open"
        /\ \A q \in Streams : q # p => stream'[q] = stream[q]
    BY <1>6, <1>a DEF SendWaits, PushReturns, StreamRec
  <2>2. Left(stream'[p]) = Left(stream[p])
    BY <2>1 DEF Left
  <2>3. QED
    BY <1>6, <1>d, <2>1, <2>2 DEF SendWaits, PushReturns, hub
<1>7. ASSUME NEW p \in Streams, DeliverReturns(p)
      PROVE  DropsRecorded'
  <2>1. stream'[p] = Reopened(stream[p]) /\ stream[p].pkts = <<>> /\ \A q \in Streams : q # p => stream'[q] = stream[q]
    BY <1>7, <1>a DEF DeliverReturns
  <2>2. Left(stream'[p]) = 0 /\ Left(stream[p]) = 0
    BY <1>a, <2>1, ReopenedShape DEF Left
  <2>3. QED
    BY <1>7, <1>d, <2>1, <2>2 DEF DeliverReturns
<1>8. ASSUME NEW se \in Sessions, NEW probe \in Probes \cup {NoProbe}, Assign(se, probe)
      PROVE  DropsRecorded'
  BY <1>8, <1>e DEF Assign, hub
<1>9. ASSUME NEW s \in Sources, (\E se \in Existing : Start(s, se)) \/ Unsubscribes(s) \/ ClosesChannel(s) \/ Reads(s)
      PROVE  DropsRecorded'
  BY <1>9, <1>e DEF Start, Unsubscribes, ClosesChannel, Reads, SourceUnchanged
<1>10. QED
  BY <1>1, <1>2, <1>3, <1>4, <1>5, <1>6, <1>7, <1>8, <1>9 DEF Next, Delivering

(***************************************************************************)
(* What a consumer gets: what it has read and what waits in its channel.   *)
(***************************************************************************)
Line(s) == got[s] \o ch[s]

\* The packets of each stream are in order.
InOrder(q) == \A i, j \in DOMAIN q : i < j /\ q[i][1] = q[j][1] => q[i][2] < q[j][2]

\* A batch is of its stream, in order, and numbered up to what was pushed.
Batch(p, b, n) ==
    /\ \A i \in DOMAIN b : b[i][1] = p /\ b[i][2] <= n
    /\ \A i, j \in DOMAIN b : i < j => b[i][2] < b[j][2]

\* What a consumer has of a stream comes before the packet whose turn it is, or
\* is that packet, if the consumer has had its turn.
Before(r, p, s, q) ==
    r.pkts # <<>> => \A k \in DOMAIN q : q[k][1] = p =>
        \/ q[k][2] < r.pkts[1][2]
        \/ q[k][2] = r.pkts[1][2] /\ \E i \in 1..r.at - 1 : r.order[i] = s

ReadInv ==
    /\ \A p \in Streams : Batch(p, stream[p].pkts, pushed)
    /\ \A s \in Sources : \A k \in DOMAIN Line(s) : Line(s)[k][2] <= pushed
    /\ \A s \in Sources, p \in Streams : Before(stream[p], p, s, Line(s))
    /\ \A s \in Sources : InOrder(Line(s))

\* Reading moves a packet from the channel to the consumer.
LEMMA LineRead ==
    ASSUME NEW g \in Seq(Packet), NEW c \in Seq(Packet), c # <<>>
    PROVE  Append(g, Head(c)) \o Tail(c) = g \o c
<1>1. Head(c) \in Packet /\ Tail(c) \in Seq(Packet) /\ <<Head(c)>> \in Seq(Packet)
  OBVIOUS
<1>2. c = <<Head(c)>> \o Tail(c)
  OBVIOUS
<1>3. Append(g, Head(c)) = g \o <<Head(c)>>
  BY <1>1, AppendIsConcat
<1>4. (g \o <<Head(c)>>) \o Tail(c) = g \o (<<Head(c)>> \o Tail(c))
  BY ONLY <1>1, g \in Seq(Packet), ConcatAssociative
<1>5. QED
  BY ONLY <1>2, <1>3, <1>4

\* Sending puts a packet behind all others.
LEMMA LineSent ==
    ASSUME NEW g \in Seq(Packet), NEW c \in Seq(Packet), NEW e \in Packet
    PROVE  g \o Append(c, e) = Append(g \o c, e)
<1>1. g \o c \in Seq(Packet) /\ <<e>> \in Seq(Packet)
  OBVIOUS
<1>2. Append(c, e) = c \o <<e>> /\ Append(g \o c, e) = (g \o c) \o <<e>>
  BY <1>1, AppendIsConcat
<1>3. (g \o c) \o <<e>> = g \o (c \o <<e>>)
  BY ONLY <1>1, g \in Seq(Packet), c \in Seq(Packet), ConcatAssociative
<1>4. QED
  BY ONLY <1>2, <1>3

\* A packet at the end of a line.
LEMMA LineLast ==
    ASSUME NEW q \in Seq(Packet), NEW e \in Packet
    PROVE  /\ Append(q, e) \in Seq(Packet) /\ Len(q) \in Nat /\ DOMAIN q = 1..Len(q)
           /\ DOMAIN Append(q, e) = 1..Len(q) + 1 /\ Append(q, e)[Len(q) + 1] = e
           /\ \A k \in 1..Len(q) : Append(q, e)[k] = q[k]
OBVIOUS

\* The batch after a turn: the same, or all but the first.
LEMMA BatchAdvances ==
    ASSUME NEW r \in StreamRec, NEW p, NEW n \in Nat, Batch(p, r.pkts, n),
           Delivers(r), r.st \in {"sending", "waiting"}, r.pkts # <<>>
    PROVE  /\ Batch(p, Advanced(r).pkts, n) /\ r.at \in Nat \ {0} /\ Advanced(r).order = r.order
           /\ r.pkts \in Seq(Packet) /\ r.pkts[1] \in Packet /\ r.pkts[1][1] = p /\ r.pkts[1][2] <= n
           /\ \/ Advanced(r).pkts = r.pkts /\ Advanced(r).at = r.at + 1
              \/ Advanced(r).at = 1 /\ (Advanced(r).pkts # <<>> => r.pkts[1][2] < Advanced(r).pkts[1][2])
<1>1. r.at \in 1..Len(r.order) /\ Len(r.order) \in Nat /\ r.pkts \in Seq(Packet)
  BY DEF Delivers, StreamRec
<1>2. PICK k \in Nat : Len(r.pkts) = k + 1
  BY <1>1
<1>3. 1 \in DOMAIN r.pkts /\ r.pkts[1] \in Packet /\ DOMAIN r.pkts = 1..k + 1
  BY <1>1, <1>2
<1>4. r.pkts[1][1] = p /\ r.pkts[1][2] <= n
  BY <1>3 DEF Batch
<1>5. PICK t : t = Tail(r.pkts)
  OBVIOUS
<1>6. t \in Seq(Packet) /\ DOMAIN t = 1..k /\ (t # <<>> => 1 \in 1..k) /\ \A i \in 1..k : t[i] = r.pkts[i + 1]
  BY <1>1, <1>2, <1>5
<1>7. Batch(p, t, n)
  <2>1. \A i \in 1..k : i + 1 \in 1..k + 1
    BY <1>2
  <2>2. \A i, j \in 1..k : i < j => i + 1 < j + 1
    OBVIOUS
  <2>3. \A i, j \in 1..k + 1 : i < j => r.pkts[i][2] < r.pkts[j][2]
    BY <1>3 DEF Batch
  <2>4. \A i \in 1..k + 1 : r.pkts[i][1] = p /\ r.pkts[i][2] <= n
    BY <1>3 DEF Batch
  <2>5. /\ \A i \in 1..k : t[i][1] = p /\ t[i][2] <= n
        /\ \A i, j \in 1..k : i < j => t[i][2] < t[j][2]
    BY ONLY <1>6, <2>1, <2>2, <2>3, <2>4
  <2>6. QED
    BY <1>6, <2>5 DEF Batch
<1>8. t # <<>> => r.pkts[1][2] < t[1][2]
  <2>1. ASSUME t # <<>> PROVE 1 \in 1..k /\ 1 + 1 \in 1..k + 1
    BY <1>2, <1>6, <2>1
  <2>2. ASSUME t # <<>> PROVE t[1] = r.pkts[1 + 1] /\ 1 < 1 + 1
    BY <1>6, <2>1, <2>2
  <2>3. QED
    BY <1>3, <2>1, <2>2 DEF Batch
<1>9. CASE r.at < Len(r.order)
  <2>1. Advanced(r) = [r EXCEPT !.st = "sending", !.at = r.at + 1]
    BY <1>9 DEF Advanced
  <2>2. Advanced(r).pkts = r.pkts /\ Advanced(r).at = r.at + 1 /\ Advanced(r).order = r.order
    BY <2>1 DEF StreamRec
  <2>3. QED
    BY <1>1, <1>3, <1>4, <2>2
<1>10. CASE ~(r.at < Len(r.order))
  <2>1. Advanced(r) = [r EXCEPT !.st = "sending", !.at = 1, !.pkts = t]
    BY <1>5, <1>10 DEF Advanced
  <2>2. Advanced(r).pkts = t /\ Advanced(r).at = 1 /\ Advanced(r).order = r.order
    BY <2>1 DEF StreamRec
  <2>3. QED
    BY <1>1, <1>3, <1>4, <1>7, <1>8, <2>2
<1>11. QED
  BY <1>9, <1>10

\* The number of a packet is a number.
LEMMA PacketNumber == \A e \in Packet : e[2] \in Nat
  BY HubAssumption DEF Packet

\* So are those of a line.
LEMMA PacketNumbers ==
    ASSUME NEW q \in Seq(Packet)
    PROVE  \A k \in DOMAIN q : q[k] \in Packet /\ q[k][2] \in Nat
<1>1. \A k \in DOMAIN q : q[k] \in Packet
  OBVIOUS
<1>2. QED
  BY <1>1, PacketNumber

\* A turn that is over: what a consumer has still comes before what is next.
LEMMA TurnOver ==
    ASSUME NEW r \in StreamRec, NEW p, NEW n \in Nat, Batch(p, r.pkts, n),
           Delivers(r), r.st \in {"sending", "waiting"}, r.pkts # <<>>,
           NEW s, NEW q \in Seq(Packet), Before(r, p, s, q)
    PROVE  Before(Advanced(r), p, s, q)
<1> DEFINE a == Advanced(r)
<1>1. /\ r.at \in Nat \ {0} /\ a.order = r.order /\ r.pkts[1][2] \in Nat
      /\ \/ a.pkts = r.pkts /\ a.at = r.at + 1
         \/ a.at = 1 /\ (a.pkts # <<>> => r.pkts[1][2] < a.pkts[1][2])
  BY BatchAdvances, PacketNumber
<1> HIDE DEF a
<1>2. SUFFICES ASSUME a.pkts # <<>>, NEW k \in DOMAIN q, q[k][1] = p
      PROVE  \/ q[k][2] < a.pkts[1][2]
             \/ q[k][2] = a.pkts[1][2] /\ \E i \in 1..a.at - 1 : a.order[i] = s
  BY DEF Before, a
<1>3. \/ q[k][2] < r.pkts[1][2]
      \/ q[k][2] = r.pkts[1][2] /\ \E i \in 1..r.at - 1 : r.order[i] = s
  BY <1>2 DEF Before
<1>4. q[k][2] \in Nat
  BY PacketNumbers
<1>5. CASE a.pkts = r.pkts /\ a.at = r.at + 1
  <2>1. \A i \in 1..r.at - 1 : i \in 1..a.at - 1
    BY <1>1, <1>5
  <2>2. QED
    BY <1>1, <1>3, <1>5, <2>1
<1>6. CASE a.at = 1 /\ (a.pkts # <<>> => r.pkts[1][2] < a.pkts[1][2])
  <2>1. a.pkts[1][2] \in Nat
    <3>1. a \in StreamRec
      BY AdvancedShape DEF a
    <3>2. a.pkts \in Seq(Packet) /\ 1 \in DOMAIN a.pkts
      BY <1>2, <3>1 DEF StreamRec
    <3>3. QED
      BY <3>2, PacketNumbers
  <2>2. QED
    BY <1>1, <1>2, <1>3, <1>4, <1>6, <2>1
<1>7. QED
  BY <1>1, <1>5, <1>6

\* A packet that is sent comes after all that the consumer has of its stream, and
\* before what is next.
LEMMA TurnTaken ==
    ASSUME NEW r \in StreamRec, NEW p, NEW n \in Nat, Batch(p, r.pkts, n),
           Delivers(r), r.st \in {"sending", "waiting"}, r.pkts # <<>>,
           NEW q \in Seq(Packet), Before(r, p, r.order[r.at], q), InOrder(q)
    PROVE  /\ Before(Advanced(r), p, r.order[r.at], Append(q, r.pkts[1]))
           /\ InOrder(Append(q, r.pkts[1]))
<1>1. PICK e \in Packet : e = r.pkts[1] /\ e[1] = p /\ e[2] \in Nat
  BY BatchAdvances, PacketNumber
<1>2. PICK s : s = r.order[r.at]
  OBVIOUS
<1>3. \A k \in DOMAIN q : q[k][2] \in Nat /\ (q[k][1] = p => q[k][2] < e[2])
  <2>1. r.at \in DOMAIN r.order /\ \A i \in 1..r.at - 1 : i \in DOMAIN r.order /\ i # r.at
    BY DEF Delivers, StreamRec
  <2>2. \A i \in 1..r.at - 1 : r.order[i] # s
    BY <1>2, <2>1 DEF Delivers
  <2>3. QED
    BY <1>1, <1>2, <2>2, PacketNumbers DEF Before
<1>4. PICK l : l = Append(q, e)
  OBVIOUS
<1>5. /\ l \in Seq(Packet) /\ Len(q) \in Nat /\ DOMAIN q = 1..Len(q) /\ DOMAIN l = 1..Len(q) + 1
      /\ l[Len(q) + 1] = e /\ \A k \in 1..Len(q) : l[k] = q[k]
  BY <1>4, LineLast
<1>6. InOrder(l)
  <2>1. SUFFICES ASSUME NEW i \in DOMAIN l, NEW j \in DOMAIN l, i < j, l[i][1] = l[j][1]
        PROVE  l[i][2] < l[j][2]
    BY DEF InOrder
  <2>2. i \in 1..Len(q) /\ l[i] = q[i]
    BY <1>5, <2>1
  <2>3. CASE j \in 1..Len(q)
    BY <1>5, <2>1, <2>2, <2>3 DEF InOrder
  <2>4. CASE j = Len(q) + 1
    BY <1>1, <1>3, <1>5, <2>1, <2>2, <2>4
  <2>5. QED
    BY <1>5, <2>3, <2>4
<1>7. Before(Advanced(r), p, s, l)
  <2> DEFINE a == Advanced(r)
  <2>1. /\ r.at \in Nat \ {0} /\ a.order = r.order
        /\ \/ a.pkts = r.pkts /\ a.at = r.at + 1
           \/ a.at = 1 /\ (a.pkts # <<>> => r.pkts[1][2] < a.pkts[1][2])
    BY BatchAdvances
  <2>2. a.pkts # <<>> => a.pkts[1][2] \in Nat
    <3>1. a \in StreamRec
      BY AdvancedShape
    <3>2. a.pkts \in Seq(Packet) /\ (a.pkts # <<>> => 1 \in DOMAIN a.pkts)
      BY <3>1 DEF StreamRec
    <3>3. QED
      BY <3>2, PacketNumbers
  <2> HIDE DEF a
  <2>3. SUFFICES ASSUME a.pkts # <<>>, NEW k \in DOMAIN l, l[k][1] = p
        PROVE  \/ l[k][2] < a.pkts[1][2]
               \/ l[k][2] = a.pkts[1][2] /\ \E i \in 1..a.at - 1 : a.order[i] = s
    BY DEF Before, a
  <2>4. (l[k][2] < e[2] /\ l[k][2] \in Nat) \/ l[k] = e
    BY <1>3, <1>5, <2>3
  <2>5. CASE a.pkts = r.pkts /\ a.at = r.at + 1
    <3>1. r.at \in 1..a.at - 1 /\ a.order[r.at] = s
      BY <1>2, <2>1, <2>5
    <3>2. QED
      BY <1>1, <2>4, <2>5, <3>1
  <2>6. CASE a.at = 1 /\ (a.pkts # <<>> => r.pkts[1][2] < a.pkts[1][2])
    BY <1>1, <2>2, <2>3, <2>4, <2>6
  <2>7. QED
    BY <2>1, <2>5, <2>6
<1>8. QED
  BY <1>1, <1>2, <1>4, <1>6, <1>7

\* A packet of another stream.
LEMMA OtherTurn ==
    ASSUME NEW r, NEW p, NEW s, NEW q \in Seq(Packet), Before(r, p, s, q), NEW e \in Packet, e[1] # p
    PROVE  Before(r, p, s, Append(q, e))
<1>1. PICK l : l = Append(q, e)
  OBVIOUS
<1>2. /\ Len(q) \in Nat /\ DOMAIN q = 1..Len(q) /\ DOMAIN l = 1..Len(q) + 1
      /\ l[Len(q) + 1] = e /\ \A k \in 1..Len(q) : l[k] = q[k]
  BY <1>1, LineLast
<1>3. \A k \in DOMAIN l : l[k][1] = p => k \in DOMAIN q /\ l[k] = q[k]
  BY <1>2
<1>4. QED
  BY <1>1, <1>3 DEF Before

\* Lines of packets, before and after a step.
LEMMA LinesTyped ==
    ASSUME HubInv PROVE \A s \in Sources : Line(s) \in Seq(Packet)
BY DEF HubInv, HubTypes, Line

\* A stream's record with the batch of before, or none, in its first turn or where
\* it was.
LEMMA BeforeKept ==
    ASSUME NEW r, NEW t, NEW p, NEW s, NEW q, Before(r, p, s, q),
           t.pkts = <<>> \/ (t.pkts = r.pkts /\ t.at = r.at /\ (t.order = r.order \/ r.at = 1))
    PROVE  Before(t, p, s, q)
BY DEF Before

\* The order is kept.
LEMMA ReadStep == HubInv /\ ReadInv /\ Next => ReadInv'
<1> SUFFICES ASSUME HubInv, ReadInv, Next
             PROVE  ReadInv'
  OBVIOUS
<1>a. stream \in [Streams -> StreamRec] /\ stream' \in [Streams -> StreamRec] /\ pushed \in Nat /\ pushed' \in Nat
      /\ \A q \in Streams : Delivers(stream[q])
      /\ ch \in [Sources -> Seq(Packet)] /\ got \in [Sources -> Seq(Packet)]
  BY TypesStep DEF HubInv, HubTypes, DeliversShaped
<1>e. \A s \in Sources : got[s] \in Seq(Packet) /\ ch[s] \in Seq(Packet)
  BY DEF HubInv, HubTypes
<1>f. DOMAIN got = Sources /\ DOMAIN ch = Sources
  BY DEF HubInv, HubTypes
<1>b. /\ \A p \in Streams : Batch(p, stream[p].pkts, pushed)
      /\ \A s \in Sources : Line(s) \in Seq(Packet) /\ InOrder(Line(s)) /\ \A k \in DOMAIN Line(s) : Line(s)[k][2] <= pushed
      /\ \A s \in Sources, p \in Streams : Before(stream[p], p, s, Line(s))
  BY LinesTyped DEF ReadInv
<1>c. ASSUME \A s \in Sources : Line(s)' = Line(s), pushed' = pushed, stream' = stream
      PROVE  ReadInv'
  BY ONLY <1>b, <1>c DEF ReadInv
<1>d. ASSUME NEW p \in Streams, \A q \in Streams : q # p => stream'[q] = stream[q],
             got' = got, ch' = ch, pushed' = pushed,
             \/ stream'[p].pkts = <<>>
             \/ stream'[p].pkts = stream[p].pkts /\ stream'[p].at = stream[p].at
                /\ (stream'[p].order = stream[p].order \/ stream[p].at = 1)
      PROVE  ReadInv'
  <2>1. \A s \in Sources : Line(s)' = Line(s)
    BY <1>d DEF Line
  <2>2. \A q \in Streams : Batch(q, stream'[q].pkts, pushed)
    BY <1>b, <1>d DEF Batch
  <2>3. \A s \in Sources, q \in Streams : Before(stream'[q], q, s, Line(s))
    BY <1>b, <1>d, BeforeKept
  <2>4. QED
    BY ONLY <1>b, <1>d, <2>1, <2>2, <2>3 DEF ReadInv
<1>1. ASSUME NEW p \in Streams, NEW as \in Principals, NEW se \in Sessions \cup {NoSession}, PushOpens(p, as, se)
      PROVE  ReadInv'
  <2>1. stream'[p].pkts = stream[p].pkts /\ stream'[p].at = stream[p].at /\ stream'[p].order = stream[p].order
        /\ \A q \in Streams : q # p => stream'[q] = stream[q]
    BY <1>1, <1>a DEF PushOpens, StreamRec
  <2>2. QED
    BY <1>1, <1>d, <2>1 DEF PushOpens
<1>2. ASSUME NEW p \in Streams, NEW se \in Sessions, PushRejects(p, se)
      PROVE  ReadInv'
  <2>1. stream' = stream /\ got' = got /\ ch' = ch /\ pushed' = pushed
    BY <1>2 DEF PushRejects, vars
  <2>2. QED
    BY <1>c, <2>1 DEF Line
<1>3. ASSUME NEW p \in Streams, NEW se \in Sessions, NEW n \in 0..MaxBatch, PushAccepts(p, se, n)
      PROVE  ReadInv'
  <2>1. PICK b : b = [i \in 1..n |-> <<p, pushed + i>>]
    OBVIOUS
  <2>2. stream'[p].pkts = b /\ (\A q \in Streams : q # p => stream'[q] = stream[q])
        /\ pushed' = pushed + n /\ n \in Nat /\ got' = got /\ ch' = ch
    <3>1. n \in Nat
      BY HubAssumption
    <3>2. got' = got /\ ch' = ch /\ pushed' = pushed + n
      BY <1>3 DEF PushAccepts
    <3>3. stream'[p].pkts = b /\ \A q \in Streams : q # p => stream'[q] = stream[q]
      BY <1>3, <1>a, <2>1 DEF PushAccepts, StreamRec
    <3>4. QED
      BY <3>1, <3>2, <3>3
  <2>3. DOMAIN b = 1..n /\ \A i \in 1..n : b[i] = <<p, pushed + i>> /\ b[i][1] = p /\ b[i][2] = pushed + i
    BY <2>1
  <2>4. Batch(p, b, pushed + n)
    BY ONLY <1>a, <2>2, <2>3 DEF Batch
  <2>5. \A q \in Streams : Batch(q, stream'[q].pkts, pushed')
    <3>1. SUFFICES ASSUME NEW q \in Streams PROVE Batch(q, stream'[q].pkts, pushed + n)
      BY <2>2
    <3>2. CASE q = p
      BY <2>2, <2>4, <3>2
    <3>3. CASE q # p
      <4>1. stream[q].pkts \in Seq(Packet) /\ \A i \in DOMAIN stream[q].pkts : stream[q].pkts[i][2] \in Nat
        BY <1>a, PacketNumbers DEF StreamRec
      <4>2. Batch(q, stream[q].pkts, pushed) /\ stream'[q] = stream[q]
        BY <1>b, <2>2, <3>3
      <4>3. QED
        BY ONLY <1>a, <2>2, <4>1, <4>2 DEF Batch
    <3>4. QED
      BY <3>2, <3>3
  <2>6. \A s \in Sources : Line(s)' = Line(s)
    BY <2>2 DEF Line
  <2>7. \A s \in Sources : \A k \in DOMAIN Line(s) : Line(s)[k][2] \in Nat /\ Line(s)[k][2] <= pushed
    BY <1>b, PacketNumbers
  <2>8. ASSUME NEW s \in Sources, NEW q \in Streams PROVE Before(stream'[q], q, s, Line(s))
    <3>1. CASE q # p
      BY <1>b, <2>2, <3>1
    <3>2. CASE q = p
      <4>1. b # <<>> => b[1][2] = pushed + 1
        BY <2>2, <2>3
      <4>2. QED
        BY <1>a, <2>2, <2>7, <3>2, <4>1 DEF Before
    <3>3. QED
      BY <3>1, <3>2
  <2>9. \A s \in Sources : \A k \in DOMAIN Line(s) : Line(s)[k][2] <= pushed'
    BY <1>a, <2>2, <2>7
  <2>10. QED
    BY ONLY <1>b, <2>5, <2>6, <2>8, <2>9 DEF ReadInv
<1>4. ASSUME NEW p \in Streams, Deliver(p)
      PROVE  ReadInv'
  <2>1. stream[p] \in StreamRec /\ stream[p].st = "accepted" /\ stream[p].at = 1
        /\ (\A q \in Streams : q # p => stream'[q] = stream[q]) /\ got' = got /\ ch' = ch /\ pushed' = pushed
    BY <1>4, <1>a DEF Deliver, Delivers
  <2>2. CASE subs[stream[p].session] = {}
    <3>1. stream'[p] = Reopened(stream[p])
      BY <1>4, <1>a, <2>2 DEF Deliver
    <3>2. QED
      BY <1>d, <2>1, <3>1, ReopenedShape
  <2>3. CASE subs[stream[p].session] # {}
    <3>1. PICK q \in Orders(subs[stream[p].session]) : stream' = [stream EXCEPT ![p].st = "sending", ![p].order = q]
      BY <1>4, <2>3 DEF Deliver
    <3>2. stream'[p].pkts = stream[p].pkts /\ stream'[p].at = stream[p].at
      BY <1>a, <2>1, <3>1 DEF StreamRec
    <3>3. QED
      BY <1>d, <2>1, <3>2
  <2>4. QED
    BY <2>2, <2>3
<1>5. ASSUME NEW p \in Streams, Sends(p) \/ SendTimesOut(p)
      PROVE  ReadInv'
  <2>1. stream[p] \in StreamRec /\ stream[p].st \in {"sending", "waiting"} /\ stream[p].pkts # <<>> /\ Delivers(stream[p])
    BY <1>5, <1>a DEF Sends, SendTimesOut, Delivers
  <2>2. stream'[p] = Advanced(stream[p]) /\ (\A q \in Streams : q # p => stream'[q] = stream[q])
        /\ got' = got /\ pushed' = pushed
    BY <1>5, <1>a DEF Sends, SendTimesOut
  <2>3. PICK r \in StreamRec : r = stream[p] /\ Batch(p, r.pkts, pushed) /\ Delivers(r)
                               /\ r.st \in {"sending", "waiting"} /\ r.pkts # <<>> /\ stream'[p] = Advanced(r)
    BY <1>b, <2>1, <2>2
  <2>4. \A q \in Streams : Batch(q, stream'[q].pkts, pushed)
    <3>1. Batch(p, Advanced(r).pkts, pushed)
      BY ONLY <1>a, <2>3, BatchAdvances
    <3>2. QED
      BY <1>b, <2>2, <2>3, <3>1
  <2>5. \A s \in Sources : Before(Advanced(r), p, s, Line(s))
    BY ONLY <1>a, <1>b, <2>3, TurnOver
  <2>6. \A s \in Sources, q \in Streams : Before(stream'[q], q, s, Line(s))
    BY ONLY <1>b, <2>2, <2>3, <2>5
  <2>7. CASE SendTimesOut(p)
    <3>1. \A s \in Sources : Line(s)' = Line(s)
      BY <2>2, <2>7 DEF Line, SendTimesOut
    <3>2. QED
      BY ONLY <1>b, <2>2, <2>4, <2>6, <3>1 DEF ReadInv
  <2>8. CASE Sends(p)
    <3>1. PICK x \in Sources : x = r.order[r.at]
      BY <2>3 DEF Delivers, StreamRec
    <3>2. PICK e \in Packet : e = r.pkts[1] /\ e = Head(r.pkts) /\ e[1] = p /\ e[2] <= pushed
      BY ONLY <1>a, <2>3, BatchAdvances, Head(r.pkts) = r.pkts[1]
    <3>3. ch' = [ch EXCEPT ![x] = Append(ch[x], e)]
      BY <2>3, <2>8, <3>1, <3>2 DEF Sends, Target
    <3>4. \A s \in Sources : s # x => Line(s)' = Line(s)
      BY <1>a, <2>2, <3>3 DEF Line
    <3>5. Line(x)' = Append(Line(x), e)
      <4>1. got[x] \o Append(ch[x], e) = Append(got[x] \o ch[x], e)
        BY <1>a, LineSent
      <4>2. QED
        BY <1>a, <2>2, <3>3, <4>1 DEF Line
    <3>6. Before(Advanced(r), p, x, Append(Line(x), e)) /\ InOrder(Append(Line(x), e))
      BY ONLY <1>a, <1>b, <2>3, <3>1, <3>2, TurnTaken
    <3>7. \A k \in DOMAIN Append(Line(x), e) : Append(Line(x), e)[k][2] <= pushed
      <4>1. PICK l : l = Append(Line(x), e)
        OBVIOUS
      <4>2. /\ DOMAIN Line(x) = 1..Len(Line(x)) /\ DOMAIN l = 1..Len(Line(x)) + 1 /\ Len(Line(x)) \in Nat
            /\ l[Len(Line(x)) + 1] = e /\ \A k \in 1..Len(Line(x)) : l[k] = Line(x)[k]
        BY ONLY <1>b, <4>1, LineLast
      <4>3. QED
        BY <1>b, <3>2, <4>1, <4>2
    <3>8. ASSUME NEW q \in Streams PROVE Before(stream'[q], q, x, Append(Line(x), e))
      <4>1. CASE q = p
        BY <2>3, <3>6, <4>1
      <4>2. CASE q # p
        BY ONLY <1>b, <2>6, <3>2, <4>2, OtherTurn
      <4>3. QED
        BY <4>1, <4>2
    <3>9. /\ \A s \in Sources : InOrder(Line(s)') /\ \A k \in DOMAIN Line(s)' : Line(s)'[k][2] <= pushed
          /\ \A s \in Sources, q \in Streams : Before(stream'[q], q, s, Line(s)')
      BY ONLY <1>b, <2>6, <3>4, <3>5, <3>6, <3>7, <3>8
    <3>10. QED
      BY ONLY <2>2, <2>4, <3>9 DEF ReadInv
  <2>9. QED
    BY <1>5, <2>7, <2>8
<1>6. ASSUME NEW p \in Streams, SendWaits(p) \/ PushReturns(p)
      PROVE  ReadInv'
  <2>1. /\ stream'[p].order = stream[p].order /\ stream'[p].at = stream[p].at /\ stream'[p].pkts = stream[p].pkts
        /\ (\A q \in Streams : q # p => stream'[q] = stream[q]) /\ got' = got /\ ch' = ch /\ pushed' = pushed
    BY <1>6, <1>a DEF SendWaits, PushReturns, StreamRec
  <2>2. QED
    BY <1>d, <2>1
<1>7. ASSUME NEW p \in Streams, DeliverReturns(p)
      PROVE  ReadInv'
  <2>1. stream'[p] = Reopened(stream[p])
        /\ (\A q \in Streams : q # p => stream'[q] = stream[q]) /\ got' = got /\ ch' = ch /\ pushed' = pushed
    BY <1>7, <1>a DEF DeliverReturns
  <2>2. stream'[p].pkts = <<>>
    BY <1>a, <2>1, ReopenedShape
  <2>3. QED
    BY <1>d, <2>1, <2>2
<1>8. ASSUME NEW se \in Sessions, NEW probe \in Probes \cup {NoProbe}, Assign(se, probe)
      PROVE  ReadInv'
  <2>1. stream' = stream /\ got' = got /\ ch' = ch /\ pushed' = pushed
    BY <1>8 DEF Assign
  <2>2. QED
    BY <1>c, <2>1 DEF Line
<1>9. ASSUME NEW s \in Sources, (\E se \in Existing : Start(s, se)) \/ Unsubscribes(s) \/ ClosesChannel(s)
      PROVE  ReadInv'
  <2>1. stream' = stream /\ got' = got /\ ch' = ch /\ pushed' = pushed
    BY <1>9 DEF Start, Unsubscribes, ClosesChannel, SourceUnchanged
  <2>2. QED
    BY <1>c, <2>1 DEF Line
<1>10. ASSUME NEW s \in Sources, Reads(s)
       PROVE  ReadInv'
  <2>1. /\ ch[s] # <<>> /\ got' = [got EXCEPT ![s] = Append(got[s], Head(ch[s]))]
        /\ ch' = [ch EXCEPT ![s] = Tail(ch[s])] /\ stream' = stream /\ pushed' = pushed
    BY <1>10 DEF Reads, SourceUnchanged
  <2>2. ASSUME NEW x \in Sources, x # s PROVE Line(x)' = Line(x)
    <3>1. got'[x] = got[x] /\ ch'[x] = ch[x]
      BY <1>a, <2>1, <2>2
    <3>2. QED
      BY <3>1 DEF Line
  <2>3. Line(s)' = Line(s)
    <3>1. got[s] \in Seq(Packet) /\ ch[s] \in Seq(Packet)
      BY <1>e
    <3>2. Append(got[s], Head(ch[s])) \o Tail(ch[s]) = got[s] \o ch[s]
      BY ONLY <2>1, <3>1, LineRead
    <3>3. got'[s] = Append(got[s], Head(ch[s])) /\ ch'[s] = Tail(ch[s])
      BY <1>f, <2>1
    <3>4. QED
      BY <3>2, <3>3 DEF Line
  <2>4. QED
    BY <1>c, <2>1, <2>2, <2>3
<1>11. QED
  BY <1>1, <1>2, <1>3, <1>4, <1>5, <1>6, <1>7, <1>8, <1>9, <1>10 DEF Next, Delivering

\* Every packet offered to a subscriber is delivered, counted as dropped or still
\* with a running Deliver, whichever of several Delivers wait, time out or are
\* overtaken; and a source gets the packets of each stream in the order they were
\* pushed, none twice (Hub.Deliver, Subscription.send).
THEOREM DeliverySafe == Spec => []DeliveryRecorded
<1>1. Init => DropsRecorded
  <2> SUFFICES ASSUME Init PROVE DropsRecorded
    OBVIOUS
  <2>1. \A p \in Streams : Left(stream[p]) = 0
    BY NoStreamShape DEF Init, Left
  <2>2. PICK L : L = [p \in Streams |-> Left(stream[p])]
    OBVIOUS
  <2>3. L \in [Streams -> Nat] /\ ToSend = Slots(L) /\ \A p \in Streams : L[p] = 0
    BY <2>1, <2>2 DEF ToSend, Slots
  <2>4. \A w : w \notin Slots(L)
    BY <2>3, SlotsAre
  <2>5. Slots(L) = {}
    BY <2>4
  <2>6. QED
    BY <2>3, <2>5, FS_EmptySet DEF Init, DropsRecorded
<1>2. Init => ReadInv
  <2> SUFFICES ASSUME Init PROVE ReadInv
    OBVIOUS
  <2>1. \A p \in Streams : stream[p].pkts = <<>>
    BY NoStreamShape DEF Init
  <2>2. \A s \in Sources : Line(s) = <<>>
    BY DEF Init, Line
  <2>3. QED
    BY <2>1, <2>2 DEF ReadInv, Batch, Before, InOrder
<1>3. HubInv /\ DropsRecorded /\ [Next]_vars => DropsRecorded'
  BY RecordedStep DEF vars, hub, DropsRecorded, ToSend
<1>4. HubInv /\ ReadInv /\ [Next]_vars => ReadInv'
  BY ReadStep DEF vars, hub, ReadInv, Line
<1>5. DropsRecorded /\ ReadInv => DeliveryRecorded
  BY DEF DeliveryRecorded, ReadInOrder, ReadInv, InOrder, Line
<1>6. QED
  BY <1>1, <1>2, <1>3, <1>4, <1>5, HubInvariant, PTL DEF Spec

-----------------------------------------------------------------------------
(***************************************************************************)
(* Numbers in order, above one bound and up to another.                    *)
(***************************************************************************)
Within(q, a, b) ==
    /\ q \in Seq(Nat) /\ a \in Nat /\ b \in Nat /\ a <= b
    /\ \A i \in DOMAIN q : a < q[i] /\ q[i] <= b
    /\ \A i, j \in DOMAIN q : i < j => q[i] < q[j]

\* No numbers are in order.
LEMMA WithinNone == ASSUME NEW a \in Nat, NEW b \in Nat, a <= b PROVE Within(<<>>, a, b)
  BY DEF Within

\* Bounds may be wider.
LEMMA WithinWider ==
    ASSUME NEW q, NEW a, NEW b, Within(q, a, b), NEW c \in Nat, NEW d \in Nat, c <= a, b <= d PROVE Within(q, c, d)
  BY DEF Within

\* A greater number at the end.
LEMMA WithinAppend ==
    ASSUME NEW q, NEW a, NEW b, Within(q, a, b), NEW v \in Nat, b < v
    PROVE  Within(Append(q, v), a, v) /\ Len(Append(q, v)) = Len(q) + 1 /\ Len(q) \in Nat
  <1>1. PICK r : r = Append(q, v)
    OBVIOUS
  <1>2. q \in Seq(Nat) /\ a \in Nat /\ b \in Nat /\ a <= b
    BY DEF Within
  <1>3. PICK n \in Nat : n = Len(q)
    BY <1>2
  <1>4. r \in Seq(Nat) /\ Len(r) = n + 1 /\ DOMAIN r = 1 .. n + 1 /\ DOMAIN q = 1 .. n
    BY <1>1, <1>2, <1>3
  <1>5. r[n + 1] = v /\ \A i \in 1 .. n : r[i] = q[i]
    BY <1>1, <1>2, <1>3
  <1>6. \A i \in 1 .. n : a < q[i] /\ q[i] <= b /\ q[i] \in Nat
    <2>1. \A i \in 1 .. n : q[i] \in Nat
      BY <1>2, <1>4
    <2> QED  BY <2>1, <1>4 DEF Within
  <1>7. \A i \in DOMAIN r : a < r[i] /\ r[i] <= v
    BY <1>2, <1>4, <1>5, <1>6
  <1>8. ASSUME NEW i \in DOMAIN r, NEW j \in DOMAIN r, i < j PROVE r[i] < r[j]
    <2>1. i \in 1 .. n
      BY <1>4, <1>8
    <2>2. CASE j \in 1 .. n
      BY <2>1, <2>2, <1>4, <1>5, <1>8 DEF Within
    <2>3. CASE j = n + 1
      BY <2>1, <2>3, <1>2, <1>5, <1>6
    <2> QED  BY <2>2, <2>3, <1>4
  <1>9. Within(r, a, v)
    BY <1>2, <1>4, <1>7, <1>8 DEF Within
  <1> QED  BY <1>1, <1>3, <1>4, <1>9

\* All but the first.
LEMMA WithinTail ==
    ASSUME NEW q, NEW a, NEW b, Within(q, a, b), q # <<>>
    PROVE  /\ Head(q) \in Nat /\ a < Head(q) /\ Head(q) <= b /\ Within(Tail(q), Head(q), b)
           /\ Len(q) \in Nat /\ Len(Tail(q)) = Len(q) - 1 /\ Len(q) > 0
  <1>1. PICK r : r = Tail(q)
    OBVIOUS
  <1>2. q \in Seq(Nat) /\ a \in Nat /\ b \in Nat /\ a <= b
    BY DEF Within
  <1>3. PICK n \in Nat : Len(q) = n + 1
    BY <1>2
  <1>4. r \in Seq(Nat) /\ Len(r) = n /\ DOMAIN r = 1 .. n /\ DOMAIN q = 1 .. n + 1 /\ Head(q) = q[1]
    BY <1>1, <1>2, <1>3
  <1>5. \A i \in 1 .. n : r[i] = q[i + 1]
    BY <1>1, <1>2, <1>3
  <1>6. q[1] \in Nat /\ a < q[1] /\ q[1] <= b
    BY <1>2, <1>4 DEF Within
  <1>7. \A i \in 1 .. n : q[1] < r[i] /\ r[i] <= b
    <2>1. \A i \in 1 .. n : 1 \in DOMAIN q /\ i + 1 \in DOMAIN q /\ 1 < i + 1
      BY <1>4
    <2> QED  BY <2>1, <1>5 DEF Within
  <1>8. \A i, j \in DOMAIN r : i < j => r[i] < r[j]
    <2>1. \A i, j \in DOMAIN r : i < j => i + 1 \in DOMAIN q /\ j + 1 \in DOMAIN q /\ i + 1 < j + 1
      BY <1>4
    <2> QED  BY <2>1, <1>4, <1>5 DEF Within
  <1>9. Within(r, q[1], b)
    BY <1>2, <1>4, <1>6, <1>7, <1>8 DEF Within
  <1> QED  BY <1>1, <1>3, <1>4, <1>6, <1>9

\* One after the other.
LEMMA WithinConcat ==
    ASSUME NEW q, NEW r, NEW a, NEW b, NEW c, Within(q, a, b), Within(r, b, c)
    PROVE  Within(q \o r, a, c) /\ Len(q \o r) = Len(q) + Len(r) /\ Len(q) \in Nat /\ Len(r) \in Nat
  <1>1. PICK s : s = q \o r
    OBVIOUS
  <1>2. q \in Seq(Nat) /\ r \in Seq(Nat) /\ a \in Nat /\ b \in Nat /\ c \in Nat /\ a <= b /\ b <= c
    BY DEF Within
  <1>3. PICK n \in Nat : n = Len(q)
    BY <1>2
  <1>4. PICK m \in Nat : m = Len(r)
    BY <1>2
  <1>5. s \in Seq(Nat) /\ Len(s) = n + m /\ DOMAIN s = 1 .. n + m /\ DOMAIN q = 1 .. n /\ DOMAIN r = 1 .. m
    BY <1>1, <1>2, <1>3, <1>4
  <1>6. (\A i \in 1 .. n : s[i] = q[i]) /\ \A i \in n + 1 .. n + m : s[i] = r[i - n] /\ i - n \in 1 .. m
    BY <1>1, <1>2, <1>3, <1>4
  <1>7. (\A i \in 1 .. n : a < q[i] /\ q[i] <= b /\ q[i] \in Nat) /\ (\A i \in 1 .. m : b < r[i] /\ r[i] <= c /\ r[i] \in Nat)
    <2>1. \A i \in 1 .. n : q[i] \in Nat
      BY <1>2, <1>3
    <2>2. \A i \in 1 .. m : r[i] \in Nat
      BY <1>2, <1>4
    <2>3. \A i \in 1 .. n : a < q[i] /\ q[i] <= b
      BY <1>5 DEF Within
    <2>4. \A i \in 1 .. m : b < r[i] /\ r[i] <= c
      BY <1>5 DEF Within
    <2> QED  BY <2>1, <2>2, <2>3, <2>4
  <1>8. ASSUME NEW i \in DOMAIN s PROVE a < s[i] /\ s[i] <= c
    <2>1. CASE i \in 1 .. n
      <3>1. a < s[i] /\ s[i] <= b /\ s[i] \in Nat
        BY <2>1, <1>6, <1>7
      <3> QED  BY <3>1, <1>2
    <2>2. CASE i \in n + 1 .. n + m
      <3>1. b < s[i] /\ s[i] <= c /\ s[i] \in Nat
        BY <2>2, <1>6, <1>7
      <3> QED  BY <3>1, <1>2
    <2> QED  BY <2>1, <2>2, <1>5
  <1>9. ASSUME NEW i \in DOMAIN s, NEW j \in DOMAIN s, i < j PROVE s[i] < s[j]
    <2>1. CASE j \in 1 .. n
      <3>1. i \in 1 .. n
        BY <2>1, <1>5, <1>9
      <3> QED  BY <3>1, <2>1, <1>5, <1>6, <1>9 DEF Within
    <2>2. CASE i \in 1 .. n /\ j \in n + 1 .. n + m
      <3>1. s[i] <= b /\ b < s[j] /\ s[i] \in Nat /\ s[j] \in Nat
        BY <2>2, <1>6, <1>7
      <3> QED  BY <3>1, <1>2
    <2>3. CASE i \in n + 1 .. n + m /\ j \in n + 1 .. n + m
      <3>1. i - n \in DOMAIN r /\ j - n \in DOMAIN r /\ i - n < j - n
        BY SMTT(20), <2>3, <1>5, <1>6, <1>9
      <3>2. r[i - n] < r[j - n]
        BY <3>1 DEF Within
      <3> QED  BY <3>2, <2>3, <1>6
    <2> QED  BY <2>1, <2>2, <2>3, <1>5
  <1>10. Within(s, a, c)
    BY <1>2, <1>5, <1>8, <1>9 DEF Within
  <1> QED  BY <1>1, <1>3, <1>4, <1>5, <1>10

\* The first n, and the others.
LEMMA WithinSplit ==
    ASSUME NEW q, NEW a, NEW b, Within(q, a, b), NEW n \in 0 .. Len(q)
    PROVE  \E m : /\ Within(SubSeq(q, 1, n), a, m) /\ Within(DropFirst(q, n), m, b)
                  /\ Len(SubSeq(q, 1, n)) = n /\ Len(DropFirst(q, n)) = Len(q) - n /\ Len(q) \in Nat
  <1>1. PICK f : f = SubSeq(q, 1, n)
    OBVIOUS
  <1>2. PICK r : r = SubSeq(q, n + 1, Len(q))
    OBVIOUS
  <1>3. q \in Seq(Nat) /\ a \in Nat /\ b \in Nat /\ a <= b
    BY DEF Within
  <1>4. PICK k \in Nat : k = Len(q)
    BY <1>3
  <1>5. n \in Nat /\ n <= k /\ DOMAIN q = 1 .. k
    BY <1>3, <1>4
  <1>6. f \in Seq(Nat) /\ Len(f) = n /\ DOMAIN f = 1 .. n /\ \A i \in 1 .. n : f[i] = q[i]
    BY <1>1, <1>3, <1>4, <1>5
  <1>7. r \in Seq(Nat) /\ Len(r) = k - n /\ DOMAIN r = 1 .. k - n /\ \A i \in 1 .. k - n : r[i] = q[i + n]
    <2>1. \A i \in 1 .. k - n : i + n \in 1 .. k /\ q[i + n] \in Nat
      BY <1>3, <1>4, <1>5
    <2>2. r = [i \in 1 .. k - n |-> q[i + n]]
      BY ONLY <1>2, <1>3, <1>4, <1>5
    <2>3. QED
      BY ONLY <1>5, <2>1, <2>2
  <1>8. \A i \in 1 .. k : a < q[i] /\ q[i] <= b /\ q[i] \in Nat
    BY <1>3, <1>5 DEF Within
  <1>9. PICK m : m = IF n = 0 THEN a ELSE q[n]
    OBVIOUS
  <1>10. m \in Nat /\ a <= m /\ m <= b
    BY <1>3, <1>5, <1>8, <1>9
  <1>11. ASSUME NEW i \in 1 .. n PROVE a < f[i] /\ f[i] <= m
    <2>1. i \in 1 .. k /\ n \in 1 .. k /\ f[i] = q[i] /\ m = q[n]
      BY <1>5, <1>6, <1>9
    <2>2. CASE i = n
      BY <2>1, <2>2, <1>8
    <2>3. CASE i # n
      <3>1. i < n
        BY <2>3, <1>5
      <3>2. q[i] < q[n]
        BY <3>1, <2>1, <1>5 DEF Within
      <3> QED  BY <3>2, <2>1, <1>8
    <2> QED  BY <2>2, <2>3
  <1>12. ASSUME NEW i \in 1 .. k - n PROVE m < r[i] /\ r[i] <= b
    <2>1. i + n \in 1 .. k /\ n < i + n /\ r[i] = q[i + n]
      BY <1>5, <1>7
    <2>2. CASE n = 0
      BY <2>1, <2>2, <1>8, <1>9
    <2>3. CASE n # 0
      <3>1. n \in 1 .. k /\ m = q[n]
        BY <2>3, <1>5, <1>9
      <3>2. q[n] < q[i + n]
        BY <3>1, <2>1, <1>5 DEF Within
      <3> QED  BY <3>1, <3>2, <2>1, <1>8
    <2> QED  BY <2>2, <2>3
  <1>13. \A i, j \in DOMAIN f : i < j => f[i] < f[j]
    BY <1>5, <1>6 DEF Within
  <1>14. \A i, j \in DOMAIN r : i < j => r[i] < r[j]
    <2>1. \A i, j \in 1 .. k - n : i < j => i + n \in DOMAIN q /\ j + n \in DOMAIN q /\ i + n < j + n
      BY <1>5
    <2> QED  BY <2>1, <1>7 DEF Within
  <1>15. Within(f, a, m) /\ Within(r, m, b)
    BY <1>3, <1>6, <1>7, <1>10, <1>11, <1>12, <1>13, <1>14 DEF Within
  <1> QED  BY <1>1, <1>2, <1>4, <1>6, <1>7, <1>15 DEF DropFirst

-----------------------------------------------------------------------------
\* The two queues in front of the worker: what is in decodeCh is older than
\* what waits in the overflow queue.

Queued(q, items, a, c) == \E m : Within(q, a, m) /\ Within(items, m, c)

In(in, a, c) ==
    /\ DOMAIN in = {"pend", "q"} /\ DOMAIN in.pend = {"items", "dropped"}
    /\ in.pend.dropped \in Nat
    /\ Len(in.q) <= DecodeCap
    /\ Queued(in.q, in.pend.items, a, c)

Weight(in) == Len(in.q) + Len(in.pend.items) + in.pend.dropped

\* The weight is a number.
LEMMA WeightNat == ASSUME NEW in, NEW a, NEW c, In(in, a, c) PROVE Weight(in) \in Nat
  <1>1. PICK q : q = in.q
    OBVIOUS
  <1>2. PICK s : s = in.pend.items
    OBVIOUS
  <1>3. Len(q) \in Nat /\ Len(s) \in Nat
    BY <1>1, <1>2 DEF In, Queued, Within
  <1>4. PICK d \in Nat : d = in.pend.dropped
    BY DEF In
  <1>5. Weight(in) = Len(q) + Len(s) + d
    BY <1>1, <1>2, <1>4 DEF Weight
  <1> QED  BY <1>3, <1>5

\* Only as many leave the overflow queue as decodeCh has room for, the oldest first.
LEMMA DrainedIs ==
    ASSUME NEW in, NEW a, NEW c, In(in, a, c), NEW on
    PROVE  In(drainPending(in, on), a, c) /\ Weight(drainPending(in, on)) = Weight(in)
  <1>1. PICK m : Within(in.q, a, m) /\ Within(in.pend.items, m, c)
    BY DEF In, Queued
  <1>2. PICK q : q = in.q
    OBVIOUS
  <1>3. PICK s : s = in.pend.items
    OBVIOUS
  <1>4. Within(q, a, m) /\ Within(s, m, c)
    BY <1>1, <1>2, <1>3
  <1>5. PICK k \in Nat : k = Len(q)
    BY <1>4 DEF Within
  <1>6. PICK l \in Nat : l = Len(s)
    BY <1>4 DEF Within
  <1>7. k <= DecodeCap /\ DecodeCap \in Nat
    BY <1>2, <1>5, TaskAssumption DEF In
  <1>8. PICK n : n = IF on THEN Least(l, DecodeCap - k) ELSE 0
    OBVIOUS
  <1>9. n \in 0 .. l /\ k + n <= DecodeCap
    BY <1>5, <1>6, <1>7, <1>8 DEF Least
  <1>10. PICK f : f = SubSeq(s, 1, n)
    OBVIOUS
  <1>11. PICK r : r = DropFirst(s, n)
    OBVIOUS
  <1>12. PICK x : Within(f, m, x) /\ Within(r, x, c) /\ Len(f) = n /\ Len(r) = l - n
    BY <1>4, <1>6, <1>9, <1>10, <1>11, WithinSplit
  <1>13. Within(q \o f, a, x) /\ Len(q \o f) = k + n
    BY <1>4, <1>5, <1>12, WithinConcat
  <1>14. PICK out : out = drainPending(in, on)
    OBVIOUS
  <1>15. /\ DOMAIN out = {"pend", "q"} /\ DOMAIN out.pend = {"items", "dropped"}
         /\ out.q = q \o f /\ out.pend.items = r /\ out.pend.dropped = in.pend.dropped
    BY <1>2, <1>3, <1>5, <1>6, <1>8, <1>10, <1>11, <1>14 DEF drainPending, In
  <1>16. In(out, a, c)
    BY <1>9, <1>12, <1>13, <1>15 DEF In, Queued
  <1>17. Weight(out) = Weight(in)
    <2>1. PICK d \in Nat : d = in.pend.dropped
      BY DEF In
    <2>2. Weight(in) = k + l + d
      BY <2>1, <1>2, <1>3, <1>5, <1>6 DEF Weight
    <2>3. Weight(out) = (k + n) + (l - n) + d
      BY <2>1, <1>12, <1>13, <1>15 DEF Weight
    <2> QED  BY <2>2, <2>3, <1>9
  <1> QED  BY <1>14, <1>16, <1>17

\* A newer packet waits behind the others; when there are too many, the oldest is dropped and counted.
LEMMA PushedIs ==
    ASSUME NEW in, NEW a, NEW c, In(in, a, c), NEW p \in Nat, c < p
    PROVE  In([in EXCEPT !.pend = push(@, p)], a, p) /\ Weight([in EXCEPT !.pend = push(@, p)]) = Weight(in) + 1
  <1>1. PICK m : Within(in.q, a, m) /\ Within(in.pend.items, m, c)
    BY DEF In, Queued
  <1>2. PICK s : s = in.pend.items
    OBVIOUS
  <1>3. PICK d \in Nat : d = in.pend.dropped
    BY DEF In
  <1>4. PICK t : t = Append(s, p)
    OBVIOUS
  <1>5. Within(s, m, c)
    BY <1>1, <1>2
  <1>6. PICK l \in Nat : l = Len(s)
    BY <1>5 DEF Within
  <1>7. Within(t, m, p) /\ Len(t) = l + 1
    BY <1>4, <1>5, <1>6, WithinAppend
  <1>8. PICK k \in Nat : k = Len(in.q)
    BY <1>1 DEF Within
  <1>9. Weight(in) = k + l + d
    BY <1>2, <1>3, <1>6, <1>8 DEF Weight
  <1>10. PICK out : out = [in EXCEPT !.pend = push(@, p)]
    OBVIOUS
  <1>11. DOMAIN out = {"pend", "q"} /\ out.q = in.q /\ out.pend = push(in.pend, p)
    BY <1>10 DEF In
  <1>12. CASE Len(t) > PendMax /\ Len(t) > 1
    <2>1. DOMAIN out.pend = {"items", "dropped"} /\ out.pend.items = Tail(t) /\ out.pend.dropped = d + 1
      BY SMTT(20), <1>2, <1>3, <1>4, <1>11, <1>12 DEF push
    <2>2. t # <<>>
      BY <1>4, <1>5 DEF Within
    <2>3. Within(Tail(t), Head(t), p) /\ m < Head(t) /\ Head(t) \in Nat /\ Len(Tail(t)) = l
      BY <2>2, <1>7, WithinTail
    <2>4. m \in Nat
      BY <1>1 DEF Within
    <2>5. Within(Tail(t), m, p)
      BY <2>3, <2>4, WithinWider
    <2>6. In(out, a, p)
      BY <2>1, <2>5, <1>1, <1>11 DEF In, Queued
    <2>7. Weight(out) = k + l + (d + 1)
      BY <2>1, <2>3, <1>8, <1>11 DEF Weight
    <2> QED  BY <2>6, <2>7, <1>9, <1>10
  <1>13. CASE ~(Len(t) > PendMax /\ Len(t) > 1)
    <2>1. DOMAIN out.pend = {"items", "dropped"} /\ out.pend.items = t /\ out.pend.dropped = d
      BY <1>2, <1>3, <1>4, <1>11, <1>13 DEF push, In
    <2>2. In(out, a, p)
      BY <2>1, <1>1, <1>7, <1>11 DEF In, Queued
    <2>3. Weight(out) = k + (l + 1) + d
      BY <2>1, <1>7, <1>8, <1>11 DEF Weight
    <2> QED  BY <2>2, <2>3, <1>9, <1>10
  <1> QED  BY <1>12, <1>13

\* The packet behind all others, in whichever queue.
LEMMA FedIs ==
    ASSUME NEW in, NEW a, NEW c, In(in, a, c), NEW on, NEW p \in Nat, c < p
    PROVE  In(feedDecode(in, on, p), a, p) /\ Weight(feedDecode(in, on, p)) = Weight(in) + 1
  <1>1. PICK d : d = drainPending(in, on)
    OBVIOUS
  <1>2. In(d, a, c) /\ Weight(d) = Weight(in)
    BY <1>1, DrainedIs
  <1>3. CASE on /\ d.pend.items = <<>> /\ Len(d.q) < DecodeCap
    <2>1. PICK m : Within(d.q, a, m) /\ Within(<<>>, m, c)
      BY <1>2, <1>3 DEF In, Queued
    <2>2. PICK q : q = d.q
      OBVIOUS
    <2>3. m \in Nat /\ c \in Nat /\ m <= c
      BY <2>1 DEF Within
    <2>4. m < p
      BY <2>3
    <2>5. PICK k \in Nat : k = Len(q)
      BY <2>1, <2>2 DEF Within
    <2>6. Within(Append(q, p), a, p) /\ Len(Append(q, p)) = k + 1
      BY <2>1, <2>2, <2>4, <2>5, WithinAppend
    <2>7. PICK out : out = [d EXCEPT !.q = Append(@, p)]
      OBVIOUS
    <2>8. feedDecode(in, on, p) = out
      BY <2>7, <1>1, <1>3 DEF feedDecode
    <2>9. DOMAIN out = {"pend", "q"} /\ out.q = Append(q, p) /\ out.pend = d.pend
      BY <2>2, <2>7, <1>2 DEF In
    <2>10. k + 1 <= DecodeCap
      BY <2>2, <2>5, <1>3, TaskAssumption
    <2>11. Within(<<>>, p, p)
      BY WithinNone
    <2>12. In(out, a, p)
      BY <2>6, <2>9, <2>10, <2>11, <1>2, <1>3 DEF In, Queued
    <2>13. PICK e \in Nat : e = d.pend.dropped
      BY <1>2 DEF In
    <2>14. Weight(d) = k + 0 + e /\ Weight(out) = (k + 1) + 0 + e
      BY <2>2, <2>5, <2>6, <2>9, <2>13, <1>3 DEF Weight
    <2> QED  BY <2>8, <2>12, <2>14, <1>2
  <1>4. CASE ~(on /\ d.pend.items = <<>> /\ Len(d.q) < DecodeCap)
    <2>1. feedDecode(in, on, p) = [d EXCEPT !.pend = push(@, p)]
      BY <1>1, <1>4 DEF feedDecode
    <2> QED  BY <2>1, <1>2, PushedIs
  <1> QED  BY <1>3, <1>4

\* The oldest packets of decodeCh are gone.
LEMMA LostIs ==
    ASSUME NEW in, NEW a, NEW c, In(in, a, c), NEW n \in 0 .. Len(in.q)
    PROVE  In([in EXCEPT !.q = DropFirst(@, n)], a, c) /\ Weight([in EXCEPT !.q = DropFirst(@, n)]) + n = Weight(in)
  <1>1. PICK m : Within(in.q, a, m) /\ Within(in.pend.items, m, c)
    BY DEF In, Queued
  <1>2. PICK q : q = in.q
    OBVIOUS
  <1>3. PICK k \in Nat : k = Len(q)
    BY <1>1, <1>2 DEF Within
  <1>4. n \in 0 .. k
    BY <1>2, <1>3
  <1>5. PICK r : r = DropFirst(q, n)
    OBVIOUS
  <1>6. PICK x : Within(SubSeq(q, 1, n), a, x) /\ Within(r, x, m) /\ Len(r) = k - n
    BY <1>1, <1>2, <1>3, <1>4, <1>5, WithinSplit
  <1>7. a \in Nat /\ x \in Nat /\ a <= x /\ m \in Nat
    BY <1>6 DEF Within
  <1>8. Within(r, a, m)
    BY <1>6, <1>7, WithinWider
  <1>9. PICK out : out = [in EXCEPT !.q = DropFirst(@, n)]
    OBVIOUS
  <1>10. DOMAIN out = {"pend", "q"} /\ out.q = r /\ out.pend = in.pend
    BY <1>2, <1>5, <1>9 DEF In
  <1>11. k - n <= DecodeCap
    BY <1>2, <1>3, <1>4, TaskAssumption DEF In
  <1>12. In(out, a, c)
    BY <1>1, <1>6, <1>8, <1>10, <1>11 DEF In, Queued
  <1>13. PICK l \in Nat : l = Len(in.pend.items)
    BY <1>1 DEF Within
  <1>14. PICK e \in Nat : e = in.pend.dropped
    BY DEF In
  <1>15. Weight(in) = k + l + e /\ Weight(out) = (k - n) + l + e
    BY <1>2, <1>3, <1>6, <1>10, <1>13, <1>14 DEF Weight
  <1> QED  BY <1>4, <1>9, <1>12, <1>15

-----------------------------------------------------------------------------
\* The invariant: along the way of a packet, from the database back to the
\* hand of the main loop, every place holds newer packets than the one before.

One(x) == IF x = 0 THEN 0 ELSE 1
Single(x, a, b) == a \in Nat /\ b \in Nat /\ a <= b /\ x \in Nat /\ (x # 0 => a < x /\ x <= b)

Stored(e, b, a, c) == \E m : Within(e, a, m) /\ Within(b, m, c)
Decoded(d, w, a, c) == \E m : Within(d, a, m) /\ Within(w, m, c)

TaskTyped ==
    /\ DOMAIN ct = {"pc", "state", "stop", "pcap", "hand", "got", "tcp"} /\ ct.got \in Nat /\ ct.tcp \in Nat
    /\ DOMAIN decodeCh = {"q", "closed"} /\ DOMAIN decodedCh = {"q", "closed"} /\ DOMAIN wk = {"pkt", "d", "window"}
    /\ DOMAIN cnt = {"errs", "rawOver", "evOver", "scOver", "empty", "skipped"}
    /\ cnt.errs \in Nat /\ cnt.rawOver \in Nat /\ cnt.evOver \in Nat /\ cnt.empty \in Nat /\ cnt.skipped \in Nat

Way(m, k, c) ==
    /\ \E n : Stored(db.events, buf.events, 0, n) /\ Decoded(decodedCh.q, wk.window, n, m)
    /\ Single(wk.pkt, m, k)
    /\ In(InQueues, k, c)
    /\ Single(ct.hand, c, ct.got)

HandHeld == ct.hand # 0 <=> ct.pc = "replay"
PacketsPlaced == \E m, k, c : Way(m, k, c)

Kept(g, e, b, o) == g \in Nat /\ e \in Nat /\ b \in Nat /\ o \in Nat /\ g = e + b + o

RawsPlaced == Stored(db.raws, buf.raws, 0, ct.got) /\ Kept(ct.got, Len(db.raws), Len(buf.raws), cnt.rawOver)

Other(c) == c.errs + c.empty + c.skipped + c.evOver

Acct(t, w, h, x, f, d, b, e, n) ==
    /\ t \in Nat /\ w \in Nat /\ h \in Nat /\ x \in Nat /\ f \in Nat /\ d \in Nat /\ b \in Nat /\ e \in Nat /\ n \in Nat
    /\ t = w + h + x + f + d + b + e + n

Account == Acct(ct.tcp, Weight(InQueues), One(ct.hand), One(wk.pkt), Len(wk.window),
                Len(decodedCh.q), Len(buf.events), Len(db.events), Other(cnt))

TaskInv == TaskTyped /\ HandHeld /\ PacketsPlaced /\ RawsPlaced /\ Account

LEMMA TaskInitial == TaskInit => TaskInv
  <1> SUFFICES ASSUME TaskInit PROVE TaskInv
    OBVIOUS
  <1>1. TaskTyped /\ HandHeld
    BY DEF TaskInit, TaskTyped, HandHeld
  <1>2. Within(<<>>, 0, 0) /\ Len(<<>>) = 0
    BY WithinNone
  <1>3. Stored(<<>>, <<>>, 0, 0) /\ Decoded(<<>>, <<>>, 0, 0) /\ Queued(<<>>, <<>>, 0, 0)
    BY <1>2 DEF Stored, Decoded, Queued
  <1>4. In(InQueues, 0, 0)
    BY <1>2, <1>3, TaskAssumption DEF In, InQueues, TaskInit
  <1>5. Single(0, 0, 0)
    BY DEF Single
  <1>6. Way(0, 0, 0)
    BY <1>3, <1>4, <1>5 DEF Way, TaskInit
  <1>7. RawsPlaced
    BY <1>2, <1>3 DEF RawsPlaced, Kept, TaskInit
  <1>8. Account
    <2>1. Weight(InQueues) = 0
      BY <1>2 DEF Weight, InQueues, TaskInit
    <2>2. One(0) = 0 /\ Other(cnt) = 0
      BY DEF One, Other, TaskInit
    <2>3. Acct(0, 0, 0, 0, 0, 0, 0, 0, 0)
      BY DEF Acct
    <2>4. /\ ct.tcp = 0 /\ ct.hand = 0 /\ wk.pkt = 0 /\ Len(wk.window) = 0 /\ Len(decodedCh.q) = 0
          /\ Len(buf.events) = 0 /\ Len(db.events) = 0
      BY <1>2 DEF TaskInit
    <2> QED  BY <2>1, <2>2, <2>3, <2>4 DEF Account
  <1> QED  BY <1>1, <1>6, <1>7, <1>8 DEF TaskInv, PacketsPlaced

\* The lengths of the two queues.
LEMMA QueueLens == TaskInv => Len(pend.items) \in Nat /\ pend.dropped \in Nat /\ Len(decodeCh.q) \in Nat
  BY DEF TaskInv, PacketsPlaced, Way, In, InQueues, Queued, Within

\* What moves from one place to another stays in the sum: from the worker to the
\* buffer, from there to the database or to the drops, and so on along the way.
LEMMA PlaceMoves ==
    ASSUME NEW t, NEW w, NEW h, NEW x, NEW f, NEW d, NEW b, NEW e, NEW n, Acct(t, w, h, x, f, d, b, e, n)
    PROVE  /\ d > 0 => Acct(t, w, h, x, f, d - 1, b + 1, e, n)
           /\ Acct(t, w, h, x, f, d, 0, e + b, n)
           /\ \A k \in 0 .. b : Acct(t, w, h, x, f, d, b - k, e, n + k)
           /\ \A k \in 0 .. w : Acct(t, w - k, h, x, f, d, b, e, n + k)
           /\ Acct(t + 1, w + 1, h, x, f, d, b, e, n)
           /\ h = 0 => Acct(t + 1, w, 1, x, f, d, b, e, n)
           /\ h = 1 => Acct(t, w + 1, 0, x, f, d, b, e, n)
           /\ h = 1 => Acct(t, w, 0, x, f, d, b, e, n + 1)
           /\ w > 0 /\ x = 0 => Acct(t, w - 1, h, 1, f, d, b, e, n)
           /\ x = 1 => Acct(t, w, h, 0, f + 1, d, b, e, n)
           /\ x = 1 => Acct(t, w, h, 0, f, d, b, e, n + 1)
           /\ f > 0 => Acct(t, w, h, x, f - 1, d + 1, b, e, n)
           /\ f > 0 => Acct(t, w, h, x, f - 1, d, b, e, n + 1)
  <1> USE DEF Acct
  <1>1. d > 0 => Acct(t, w, h, x, f, d - 1, b + 1, e, n)
    OBVIOUS
  <1>2. Acct(t, w, h, x, f, d, 0, e + b, n)
    OBVIOUS
  <1>3. \A k \in 0 .. b : Acct(t, w, h, x, f, d, b - k, e, n + k)
    OBVIOUS
  <1>4. \A k \in 0 .. w : Acct(t, w - k, h, x, f, d, b, e, n + k)
    OBVIOUS
  <1>5. Acct(t + 1, w + 1, h, x, f, d, b, e, n)
    OBVIOUS
  <1>6. h = 0 => Acct(t + 1, w, 1, x, f, d, b, e, n)
    OBVIOUS
  <1>7. h = 1 => Acct(t, w + 1, 0, x, f, d, b, e, n) /\ Acct(t, w, 0, x, f, d, b, e, n + 1)
    OBVIOUS
  <1>8. w > 0 /\ x = 0 => Acct(t, w - 1, h, 1, f, d, b, e, n)
    OBVIOUS
  <1>9. x = 1 => Acct(t, w, h, 0, f + 1, d, b, e, n) /\ Acct(t, w, h, 0, f, d, b, e, n + 1)
    OBVIOUS
  <1>10. f > 0 => Acct(t, w, h, x, f - 1, d + 1, b, e, n) /\ Acct(t, w, h, x, f - 1, d, b, e, n + 1)
    OBVIOUS
  <1> HIDE DEF Acct
  <1> QED  BY <1>1, <1>2, <1>3, <1>4, <1>5, <1>6, <1>7, <1>8, <1>9, <1>10

\* The same of the raw packets.
LEMMA KeptMoves ==
    ASSUME NEW g, NEW e, NEW b, NEW o, Kept(g, e, b, o)
    PROVE  Kept(g, e + b, 0, o) /\ (\A v \in 0 .. b : Kept(g, e, b - v, o + v)) /\ Kept(g + 1, e, b + 1, o)
  BY DEF Kept

\* The counters.
LEMMA OtherIs ==
    ASSUME TaskInv, NEW k \in Nat
    PROVE  /\ Other([cnt EXCEPT !.errs = @ + k]) = Other(cnt) + k
           /\ Other([cnt EXCEPT !.empty = @ + k]) = Other(cnt) + k
           /\ Other([cnt EXCEPT !.skipped = @ + k]) = Other(cnt) + k
           /\ Other(cnt) \in Nat
  BY DEF TaskInv, TaskTyped, Other

\* What the properties say of it.
LEMMA TaskSays == TaskInv => DecodedInOrder /\ PacketsAccounted
  <1> SUFFICES ASSUME TaskInv PROVE DecodedInOrder /\ PacketsAccounted
    OBVIOUS
  <1>1. PICK m, n : Stored(db.events, buf.events, 0, n) /\ Decoded(decodedCh.q, wk.window, n, m)
    BY DEF TaskInv, PacketsPlaced, Way
  <1>2. PICK u : Within(db.events, 0, u) /\ Within(buf.events, u, n)
    BY <1>1 DEF Stored
  <1>3. PICK y : Within(decodedCh.q, n, y)
    BY <1>1 DEF Decoded
  <1>4. Within(db.events \o buf.events, 0, n)
    BY <1>2, WithinConcat
  <1>5. Within(db.events \o buf.events \o decodedCh.q, 0, y)
    BY <1>3, <1>4, WithinConcat
  <1>6. DecodedInOrder
    BY <1>5 DEF Within, DecodedInOrder
  <1>7. PICK v : Within(db.raws, 0, v) /\ Within(buf.raws, v, ct.got)
    BY DEF TaskInv, RawsPlaced, Stored
  <1>8. Within(db.raws \o buf.raws, 0, ct.got)
    BY <1>7, WithinConcat
  <1>9. RawKept
    BY <1>8 DEF Within, RawKept, TaskInv, RawsPlaced, Kept
  <1>10. DecodeAccounted
    <2>1. Acct(ct.tcp, Weight(InQueues), One(ct.hand), One(wk.pkt), Len(wk.window),
               Len(decodedCh.q), Len(buf.events), Len(db.events), Other(cnt))
      BY DEF TaskInv, Account
    <2>2. PICK h : h = One(ct.hand)
      OBVIOUS
    <2>3. PICK x : x = One(wk.pkt)
      OBVIOUS
    <2>4. PICK f : f = Len(wk.window)
      OBVIOUS
    <2>5. PICK d : d = Len(decodedCh.q)
      OBVIOUS
    <2>6. PICK b : b = Len(buf.events)
      OBVIOUS
    <2>7. PICK e : e = Len(db.events)
      OBVIOUS
    <2>8. PICK i \in Nat, r \in Nat, q \in Nat : i = Len(pend.items) /\ r = pend.dropped /\ q = Len(decodeCh.q)
      BY QueueLens
    <2>9. Weight(InQueues) = q + i + r
      BY <2>8 DEF Weight, InQueues
    <2>10. PICK er \in Nat, em \in Nat, sk \in Nat, ov \in Nat : er = cnt.errs /\ em = cnt.empty /\ sk = cnt.skipped /\ ov = cnt.evOver
      BY DEF TaskInv, TaskTyped
    <2>11. Other(cnt) = er + em + sk + ov
      BY <2>10 DEF Other
    <2>12. PICK t : t = ct.tcp
      OBVIOUS
    <2>13. Acct(t, q + i + r, h, x, f, d, b, e, er + em + sk + ov)
      BY <2>1, <2>2, <2>3, <2>4, <2>5, <2>6, <2>7, <2>9, <2>11, <2>12
    <2>14. t = i + r + h + q + x + f + d + b + e + er + em + sk + ov
      BY <2>13 DEF Acct
    <2> QED  BY <2>14, <2>2, <2>3, <2>4, <2>5, <2>6, <2>7, <2>8, <2>10, <2>12 DEF DecodeAccounted, One
  <1> QED  BY <1>6, <1>9, <1>10 DEF PacketsAccounted

\* Steps that move no packet.
Unmoved ==
    /\ DOMAIN ct' = DOMAIN ct /\ ct'.got = ct.got /\ ct'.tcp = ct.tcp /\ ct'.hand = ct.hand
    /\ ct'.pc = "replay" <=> ct.pc = "replay"
    /\ pend' = pend
    /\ DOMAIN decodeCh' = DOMAIN decodeCh /\ decodeCh'.q = decodeCh.q
    /\ DOMAIN decodedCh' = DOMAIN decodedCh /\ decodedCh'.q = decodedCh.q
    /\ UNCHANGED <<wk, buf, db, cnt>>

LEMMA UnmovedKeeps == ASSUME TaskInv, Unmoved PROVE TaskInv'
  <1>1. TaskTyped' /\ HandHeld'
    BY DEF TaskInv, Unmoved, TaskTyped, HandHeld
  <1>2. PacketsPlaced'
    <2>1. PICK m, k, c : Way(m, k, c)
      BY DEF TaskInv, PacketsPlaced
    <2>2. InQueues' = InQueues
      BY DEF Unmoved, InQueues
    <2>3. Way(m, k, c)'
      BY <2>1, <2>2 DEF Way, Unmoved
    <2> QED  BY <2>3 DEF PacketsPlaced
  <1>3. RawsPlaced'
    BY DEF TaskInv, RawsPlaced, Unmoved
  <1>4. Account'
    BY DEF TaskInv, Account, Unmoved, InQueues
  <1> QED  BY <1>1, <1>2, <1>3, <1>4 DEF TaskInv

LEMMA IdleSteps ==
    ASSUME TaskInv, TaskStart \/ OpenCaptureSources \/ Leaves \/ TaskStop \/ DrainEnds \/ WorkerExits
                    \/ \E n \in 0 .. 1 : SetSessionPlugin(n) \/ PluginChanges(n)
    PROVE  TaskInv'
  <1> SUFFICES Unmoved
    BY UnmovedKeeps
  <1> USE DEF TaskInv, TaskTyped, Unmoved
  <1>1. CASE TaskStart
    BY <1>1 DEF TaskStart, decodeSide, storeSide
  <1>2. CASE OpenCaptureSources
    BY <1>2 DEF OpenCaptureSources, decodeSide, storeSide
  <1>3. CASE Leaves
    BY <1>3 DEF Leaves, InLoop, decodeSide, storeSide
  <1>4. CASE TaskStop
    BY <1>4 DEF TaskStop, decodeSide, storeSide
  <1>5. CASE DrainEnds
    BY <1>5 DEF DrainEnds, storeSide
  <1>6. CASE WorkerExits
    BY <1>6 DEF WorkerExits, storeSide
  <1>7. CASE \E n \in 0 .. 1 : SetSessionPlugin(n) \/ PluginChanges(n)
    BY <1>7 DEF SetSessionPlugin, PluginChanges, decodeSide, storeSide
  <1> QED  BY <1>1, <1>2, <1>3, <1>4, <1>5, <1>6, <1>7

LEMMA AnswerSteps ==
    ASSUME TaskInv, (\E p \in TaskPkts : recvLoop(p)) \/ (\E d \in DOMAIN disps : failAllPending(d)) \/ UNCHANGED taskVars
    PROVE  TaskInv'
  <1> SUFFICES Unmoved
    BY UnmovedKeeps
  <1> QED  BY DEF recvLoop, failAllPending, taskVars, Unmoved, storeSide

\* The decoded packet at the head goes to the end of the buffer.
LEMMA ProcessedStep ==
    ASSUME TaskInv, processDecoded, UNCHANGED <<ct, pend, decodeCh, wk, db, cnt>>
    PROVE  TaskInv'
  <1>1. PICK m, k, c : Way(m, k, c)
    BY DEF TaskInv, PacketsPlaced
  <1>2. PICK n : Stored(db.events, buf.events, 0, n) /\ Decoded(decodedCh.q, wk.window, n, m)
    BY <1>1 DEF Way
  <1>3. PICK q : q = decodedCh.q
    OBVIOUS
  <1>4. PICK b : b = buf.events
    OBVIOUS
  <1>5. PICK x : Within(db.events, 0, x) /\ Within(b, x, n)
    BY <1>2, <1>4 DEF Stored
  <1>6. PICK y : Within(q, n, y) /\ Within(wk.window, y, m)
    BY <1>2, <1>3 DEF Decoded
  <1>7. q # <<>> /\ decodedCh'.q = Tail(q) /\ DOMAIN decodedCh' = DOMAIN decodedCh
    BY <1>3 DEF processDecoded, TaskInv, TaskTyped
  <1>8. PICK h : h = Head(q)
    OBVIOUS
  <1>9. h \in Nat /\ n < h /\ Within(Tail(q), h, y) /\ Len(q) \in Nat /\ Len(Tail(q)) = Len(q) - 1
    BY <1>6, <1>7, <1>8, WithinTail
  <1>10. Within(Append(b, h), x, h) /\ Len(b) \in Nat /\ Len(Append(b, h)) = Len(b) + 1
    BY <1>5, <1>9, WithinAppend
  <1>11. buf'.events = Append(b, h) /\ buf'.raws = buf.raws
    BY <1>3, <1>4, <1>8 DEF processDecoded, Processed
  <1>12. Way(m, k, c)'
    <2>1. InQueues' = InQueues
      BY DEF InQueues
    <2>2. Stored(db'.events, buf'.events, 0, h)
      BY <1>5, <1>10, <1>11 DEF Stored
    <2>3. Decoded(decodedCh'.q, wk'.window, h, m)
      BY <1>6, <1>7, <1>9 DEF Decoded
    <2> QED  BY <1>1, <2>1, <2>2, <2>3 DEF Way
  <1>13. Account'
    <2>1. Len(decodedCh'.q) = Len(decodedCh.q) - 1 /\ Len(decodedCh.q) > 0 /\ Len(buf'.events) = Len(buf.events) + 1
      BY <1>3, <1>4, <1>6, <1>7, <1>9, <1>10, <1>11, WithinTail
    <2>2. InQueues' = InQueues
      BY DEF InQueues
    <2>3. Acct(ct.tcp, Weight(InQueues), One(ct.hand), One(wk.pkt), Len(wk.window),
               Len(decodedCh.q) - 1, Len(buf.events) + 1, Len(db.events), Other(cnt))
      BY <2>1, PlaceMoves DEF TaskInv, Account
    <2> QED  BY <2>1, <2>2, <2>3 DEF Account
  <1>14. TaskTyped' /\ HandHeld' /\ RawsPlaced'
    BY <1>7, <1>11 DEF TaskInv, TaskTyped, HandHeld, RawsPlaced
  <1> QED  BY <1>12, <1>13, <1>14 DEF TaskInv, PacketsPlaced

\* A write that succeeds takes the whole buffer; one that fails keeps its newest
\* entries and counts the others.
LEMMA WrittenIs ==
    ASSUME NEW e, NEW b, NEW a, NEW c, Stored(e, b, a, c)
    PROVE  /\ Len(e) \in Nat /\ Len(b) \in Nat
           /\ Stored(e \o b, <<>>, a, c) /\ Len(e \o b) = Len(e) + Len(b)
           /\ Stored(e, retainOnFailure(b), a, c) /\ overflow(b) \in 0 .. Len(b)
           /\ Len(retainOnFailure(b)) = Len(b) - overflow(b)
  <1>1. PICK m : Within(e, a, m) /\ Within(b, m, c)
    BY DEF Stored
  <1>2. Within(e \o b, a, c) /\ Len(e \o b) = Len(e) + Len(b) /\ Len(e) \in Nat /\ Len(b) \in Nat
    BY <1>1, WithinConcat
  <1>3. c \in Nat /\ m \in Nat
    BY <1>1 DEF Within
  <1>4. Within(<<>>, c, c)
    BY <1>3, WithinNone
  <1>5. PICK l \in Nat : l = Len(b)
    BY <1>2
  <1>6. PICK k : k = overflow(b)
    OBVIOUS
  <1>7. k \in 0 .. l
    BY <1>5, <1>6, TaskAssumption DEF overflow
  <1>8. PICK r : r = DropFirst(b, k)
    OBVIOUS
  <1>9. retainOnFailure(b) = r
    BY <1>6, <1>8 DEF retainOnFailure, overflow
  <1>10. PICK x : Within(SubSeq(b, 1, k), m, x) /\ Within(r, x, c) /\ Len(r) = l - k
    BY <1>1, <1>5, <1>7, <1>8, WithinSplit
  <1>11. x \in Nat /\ m <= x
    BY <1>10 DEF Within
  <1>12. Within(r, m, c)
    BY <1>3, <1>10, <1>11, WithinWider
  <1> QED  BY <1>1, <1>2, <1>4, <1>5, <1>6, <1>7, <1>9, <1>10, <1>12 DEF Stored

\* Whatever is written, nothing but the oldest of a full buffer is lost, and that is counted.
LEMMA FlushStep ==
    ASSUME TaskInv, NEW ok \in Writes, flush(ok), UNCHANGED <<pend, decodeCh, decodedCh, wk>>,
           DOMAIN ct' = DOMAIN ct, ct'.got = ct.got, ct'.tcp = ct.tcp, ct'.hand = ct.hand,
           ct'.pc # "replay", ct.pc # "replay"
    PROVE  TaskInv'
  <1>1. PICK m, k, c : Way(m, k, c)
    BY DEF TaskInv, PacketsPlaced
  <1>2. PICK n : Stored(db.events, buf.events, 0, n) /\ Decoded(decodedCh.q, wk.window, n, m)
    BY <1>1 DEF Way
  <1>3. Stored(db.raws, buf.raws, 0, ct.got)
    BY DEF TaskInv, RawsPlaced
  <1>4. InQueues' = InQueues
    BY DEF InQueues
  <1>5. DOMAIN cnt' = DOMAIN cnt /\ cnt'.errs = cnt.errs /\ cnt'.empty = cnt.empty /\ cnt'.skipped = cnt.skipped
    BY DEF flush
  <1>6. Len(buf.events) \in Nat /\ Len(buf.raws) \in Nat /\ Len(db.raws) \in Nat /\ Len(db.events) \in Nat
        /\ overflow(buf.events) \in 0 .. Len(buf.events) /\ overflow(buf.raws) \in 0 .. Len(buf.raws)
    BY <1>2, <1>3, WrittenIs
  <1>7. Stored(db'.events, buf'.events, 0, n) /\ cnt'.evOver \in Nat /\ Account'
    <2>1. Acct(ct.tcp, Weight(InQueues), One(ct.hand), One(wk.pkt), Len(wk.window),
               Len(decodedCh.q), Len(buf.events), Len(db.events), Other(cnt))
      BY DEF TaskInv, Account
    <2>2. CASE ok.events
      <3>1. db'.events = db.events \o buf.events /\ buf'.events = <<>> /\ cnt'.evOver = cnt.evOver
        BY <2>2 DEF flush, TaskInv, TaskTyped
      <3>2. Stored(db'.events, buf'.events, 0, n) /\ Len(db'.events) = Len(db.events) + Len(buf.events) /\ Len(buf'.events) = 0
        BY <3>1, <1>2, WrittenIs
      <3>3. Other(cnt') = Other(cnt)
        BY <3>1, <1>5 DEF Other
      <3>4. Acct(ct.tcp, Weight(InQueues), One(ct.hand), One(wk.pkt), Len(wk.window),
                 Len(decodedCh.q), 0, Len(db.events) + Len(buf.events), Other(cnt))
        BY <2>1, PlaceMoves
      <3>5. Account'
        BY <3>2, <3>3, <3>4, <1>4 DEF Account
      <3> QED  BY <3>1, <3>2, <3>5 DEF TaskInv, TaskTyped
    <2>3. CASE ~ok.events
      <3>1. PICK v : v = overflow(buf.events)
        OBVIOUS
      <3>2. v \in 0 .. Len(buf.events) /\ v \in Nat
        BY <3>1, <1>6
      <3>3. db'.events = db.events /\ buf'.events = retainOnFailure(buf.events) /\ cnt'.evOver = cnt.evOver + v
        BY <2>3, <3>1 DEF flush, TaskInv, TaskTyped
      <3>4. Stored(db'.events, buf'.events, 0, n) /\ Len(buf'.events) = Len(buf.events) - v
        BY <3>1, <3>3, <1>2, WrittenIs
      <3>5. cnt.errs \in Nat /\ cnt.empty \in Nat /\ cnt.skipped \in Nat /\ cnt.evOver \in Nat
        BY DEF TaskInv, TaskTyped
      <3>6. Other(cnt') = Other(cnt) + v
        BY <3>2, <3>3, <3>5, <1>5 DEF Other
      <3>7. Acct(ct.tcp, Weight(InQueues), One(ct.hand), One(wk.pkt), Len(wk.window),
                 Len(decodedCh.q), Len(buf.events) - v, Len(db.events), Other(cnt) + v)
        BY <2>1, <3>2, PlaceMoves
      <3>8. Account'
        BY <3>3, <3>4, <3>6, <3>7, <1>4 DEF Account
      <3>9. cnt'.evOver \in Nat
        BY <3>2, <3>3, <3>5
      <3> QED  BY <3>4, <3>8, <3>9
    <2> QED  BY <2>2, <2>3
  <1>8. Stored(db'.raws, buf'.raws, 0, ct.got) /\ cnt'.rawOver \in Nat /\ Kept(ct.got, Len(db'.raws), Len(buf'.raws), cnt'.rawOver)
    <2>1. Kept(ct.got, Len(db.raws), Len(buf.raws), cnt.rawOver)
      BY DEF TaskInv, RawsPlaced
    <2>2. CASE ok.raws
      <3>1. db'.raws = db.raws \o buf.raws /\ buf'.raws = <<>> /\ cnt'.rawOver = cnt.rawOver
        BY <2>2 DEF flush, TaskInv, TaskTyped
      <3>2. Stored(db'.raws, buf'.raws, 0, ct.got) /\ Len(db'.raws) = Len(db.raws) + Len(buf.raws) /\ Len(buf'.raws) = 0
        BY <3>1, <1>3, WrittenIs
      <3>3. Kept(ct.got, Len(db.raws) + Len(buf.raws), 0, cnt.rawOver)
        BY <2>1, KeptMoves
      <3>4. Kept(ct.got, Len(db'.raws), Len(buf'.raws), cnt'.rawOver)
        BY <3>1, <3>2, <3>3
      <3> QED  BY <3>2, <3>4 DEF Kept
    <2>3. CASE ~ok.raws
      <3>1. PICK v : v = overflow(buf.raws)
        OBVIOUS
      <3>2. v \in 0 .. Len(buf.raws)
        BY <3>1, <1>6
      <3>3. db'.raws = db.raws /\ buf'.raws = retainOnFailure(buf.raws) /\ cnt'.rawOver = cnt.rawOver + v
        BY <2>3, <3>1 DEF flush, TaskInv, TaskTyped
      <3>4. Stored(db'.raws, buf'.raws, 0, ct.got) /\ Len(buf'.raws) = Len(buf.raws) - v
        BY <3>1, <3>3, <1>3, WrittenIs
      <3>5. Kept(ct.got, Len(db.raws), Len(buf.raws) - v, cnt.rawOver + v)
        BY <2>1, <3>2, KeptMoves
      <3>6. Kept(ct.got, Len(db'.raws), Len(buf'.raws), cnt'.rawOver)
        BY <3>3, <3>4, <3>5
      <3> QED  BY <3>4, <3>6 DEF Kept
    <2> QED  BY <2>2, <2>3
  <1>9. TaskTyped' /\ HandHeld'
    BY <1>5, <1>7, <1>8 DEF TaskInv, TaskTyped, HandHeld
  <1>10. Way(m, k, c)'
    BY <1>1, <1>2, <1>4, <1>7 DEF Way
  <1> QED  BY <1>7, <1>8, <1>9, <1>10 DEF TaskInv, PacketsPlaced, RawsPlaced

-----------------------------------------------------------------------------
\* The worker.

\* It takes the oldest packet of decodeCh, or throws it away.
LEMMA TakesStep == ASSUME TaskInv, WorkerTakes PROVE TaskInv'
  <1>1. PICK m, k, c : Way(m, k, c)
    BY DEF TaskInv, PacketsPlaced
  <1>2. In(InQueues, k, c) /\ Single(wk.pkt, m, k) /\ wk.pkt = 0
    BY <1>1 DEF Way, WorkerTakes
  <1>3. PICK q : q = decodeCh.q
    OBVIOUS
  <1>4. PICK y : Within(q, k, y) /\ Within(pend.items, y, c)
    BY <1>2, <1>3 DEF In, InQueues, Queued
  <1>5. q # <<>> /\ decodeCh'.q = Tail(q) /\ DOMAIN decodeCh' = DOMAIN decodeCh
    BY <1>3 DEF WorkerTakes, TaskInv, TaskTyped
  <1>6. PICK h : h = Head(q)
    OBVIOUS
  <1>7. h \in Nat /\ k < h /\ Within(Tail(q), h, y) /\ Len(q) \in Nat /\ Len(Tail(q)) = Len(q) - 1 /\ Len(q) > 0
    BY <1>4, <1>5, <1>6, WithinTail
  <1>8. UNCHANGED <<ct, pend, decodedCh, buf, db>>
    BY DEF WorkerTakes, storeSide
  <1>9. DOMAIN InQueues' = {"pend", "q"} /\ InQueues'.q = Tail(q) /\ InQueues'.pend = pend /\ InQueues.q = q /\ InQueues.pend = pend
    BY <1>3, <1>5, <1>8 DEF InQueues
  <1>10. In(InQueues', h, c)
    <2>1. Queued(Tail(q), pend.items, h, c)
      BY <1>4, <1>7 DEF Queued
    <2>2. Len(Tail(q)) <= DecodeCap
      <3>1. PICK l \in Nat : l = Len(q)
        BY <1>7
      <3>2. l <= DecodeCap
        BY <3>1, <1>2, <1>9 DEF In
      <3> QED  BY <3>1, <3>2, <1>7, TaskAssumption
    <2> QED  BY <2>1, <2>2, <1>2, <1>9 DEF In
  <1>11. Weight(InQueues') = Weight(InQueues) - 1 /\ Weight(InQueues) \in Nat /\ Weight(InQueues) > 0
    <2>1. PICK l \in Nat : l = Len(q)
      BY <1>7
    <2>2. PICK i \in Nat, r \in Nat : i = Len(pend.items) /\ r = pend.dropped
      BY QueueLens
    <2>3. l > 0
      BY <2>1, <1>7
    <2>4. Weight(InQueues) = l + i + r /\ Weight(InQueues') = (l - 1) + i + r
      BY <2>1, <2>2, <1>7, <1>9 DEF Weight
    <2> QED  BY <2>3, <2>4
  <1>12. Single(ct'.hand, c, ct'.got)
    BY <1>1, <1>8 DEF Way
  <1>13. \E n : Stored(db'.events, buf'.events, 0, n) /\ Decoded(decodedCh'.q, wk.window, n, m)
    BY <1>1, <1>8 DEF Way
  <1>14. Acct(ct.tcp, Weight(InQueues), One(ct.hand), One(wk.pkt), Len(wk.window),
              Len(decodedCh.q), Len(buf.events), Len(db.events), Other(cnt))
    BY DEF TaskInv, Account
  <1>15. One(wk.pkt) = 0
    BY <1>2 DEF One
  <1>16. CASE dec.disp = 0
    <2>1. cnt' = Skips(1) /\ wk' = wk
      BY <1>16 DEF WorkerTakes
    <2>2. Single(wk'.pkt, m, h)
      BY <2>1, <1>2, <1>7 DEF Single
    <2>3. Way(m, h, c)'
      BY <2>1, <2>2, <1>10, <1>12, <1>13 DEF Way
    <2>4. Other(cnt') = Other(cnt) + 1
      BY <2>1, OtherIs DEF Skips
    <2>5. Acct(ct.tcp, Weight(InQueues) - 1, One(ct.hand), One(wk.pkt), Len(wk.window),
               Len(decodedCh.q), Len(buf.events), Len(db.events), Other(cnt) + 1)
      <3>1. 1 \in 0 .. Weight(InQueues)
        BY <1>11
      <3> QED  BY <3>1, <1>14, PlaceMoves
    <2>6. Account'
      BY <2>1, <2>4, <2>5, <1>8, <1>11 DEF Account
    <2>7. TaskTyped' /\ HandHeld' /\ RawsPlaced'
      BY <2>1, <1>5, <1>8 DEF TaskInv, TaskTyped, HandHeld, RawsPlaced, Skips
    <2> QED  BY <2>3, <2>6, <2>7 DEF TaskInv, PacketsPlaced
  <1>17. CASE dec.disp # 0
    <2>1. DOMAIN wk' = DOMAIN wk /\ wk'.pkt = h /\ wk'.window = wk.window /\ cnt' = cnt
      BY <1>3, <1>6, <1>17 DEF WorkerTakes, TaskInv, TaskTyped
    <2>2. Single(wk'.pkt, m, h)
      BY <2>1, <1>2, <1>7 DEF Single
    <2>3. Way(m, h, c)'
      BY <2>1, <2>2, <1>10, <1>12, <1>13 DEF Way
    <2>4. One(wk'.pkt) = 1
      BY <2>1, <1>2, <1>7 DEF One, Single
    <2>5. Acct(ct.tcp, Weight(InQueues) - 1, One(ct.hand), 1, Len(wk.window),
               Len(decodedCh.q), Len(buf.events), Len(db.events), Other(cnt))
      BY <1>11, <1>14, <1>15, PlaceMoves
    <2>6. Account'
      BY <2>1, <2>4, <2>5, <1>8, <1>11 DEF Account
    <2>7. TaskTyped' /\ HandHeld' /\ RawsPlaced'
      BY <2>1, <1>5, <1>8 DEF TaskInv, TaskTyped, HandHeld, RawsPlaced
    <2> QED  BY <2>3, <2>6, <2>7 DEF TaskInv, PacketsPlaced
  <1> QED  BY <1>16, <1>17

\* What the worker has in hand goes to the end of its window, or is an error.
LEMMA SubmitStep == ASSUME TaskInv, Submit PROVE TaskInv'
  <1>1. PICK m, k, c : Way(m, k, c)
    BY DEF TaskInv, PacketsPlaced
  <1>2. PICK n : Stored(db.events, buf.events, 0, n) /\ Decoded(decodedCh.q, wk.window, n, m)
    BY <1>1 DEF Way
  <1>3. PICK y : Within(decodedCh.q, n, y) /\ Within(wk.window, y, m)
    BY <1>2 DEF Decoded
  <1>4. PICK h : h = wk.pkt
    OBVIOUS
  <1>5. h \in Nat /\ m < h /\ h <= k /\ m \in Nat /\ k \in Nat
    BY <1>1, <1>4 DEF Way, Single, Submit
  <1>6. UNCHANGED <<ct, pend, decodeCh, decodedCh, buf, db>> /\ InQueues' = InQueues
    BY DEF Submit, storeSide, InQueues
  <1>7. In(InQueues, k, c) /\ Single(ct.hand, c, ct.got)
    BY <1>1 DEF Way
  <1>8. Acct(ct.tcp, Weight(InQueues), One(ct.hand), One(wk.pkt), Len(wk.window),
             Len(decodedCh.q), Len(buf.events), Len(db.events), Other(cnt))
    BY DEF TaskInv, Account
  <1>9. One(wk.pkt) = 1
    BY <1>4, <1>5 DEF One
  <1>10. CASE wk' = [wk EXCEPT !.pkt = 0, !.window = Append(@, wk.pkt)] /\ cnt' = cnt
    <2>1. DOMAIN wk' = DOMAIN wk /\ wk'.pkt = 0 /\ wk'.window = Append(wk.window, h)
      BY <1>4, <1>10 DEF TaskInv, TaskTyped
    <2>2. Within(Append(wk.window, h), y, h) /\ Len(Append(wk.window, h)) = Len(wk.window) + 1
      BY <1>3, <1>5, WithinAppend
    <2>3. Decoded(decodedCh.q, wk'.window, n, h)
      BY <2>1, <2>2, <1>3 DEF Decoded
    <2>4. Single(wk'.pkt, h, k)
      BY <2>1, <1>5 DEF Single
    <2>5. Way(h, k, c)'
      BY <2>3, <2>4, <1>2, <1>6, <1>7 DEF Way
    <2>6. Acct(ct.tcp, Weight(InQueues), One(ct.hand), 0, Len(wk.window) + 1,
               Len(decodedCh.q), Len(buf.events), Len(db.events), Other(cnt))
      BY <1>8, <1>9, PlaceMoves
    <2>7. One(wk'.pkt) = 0
      BY <2>1 DEF One
    <2>8. Account'
      BY <2>1, <2>2, <2>6, <2>7, <1>6, <1>10 DEF Account
    <2>9. TaskTyped' /\ HandHeld' /\ RawsPlaced'
      BY <2>1, <1>6, <1>10 DEF TaskInv, TaskTyped, HandHeld, RawsPlaced
    <2> QED  BY <2>5, <2>8, <2>9 DEF TaskInv, PacketsPlaced
  <1>11. CASE wk' = [wk EXCEPT !.pkt = 0] /\ cnt' = [cnt EXCEPT !.errs = @ + 1]
    <2>1. DOMAIN wk' = DOMAIN wk /\ wk'.pkt = 0 /\ wk'.window = wk.window
      BY <1>11 DEF TaskInv, TaskTyped
    <2>2. Single(wk'.pkt, m, k)
      BY <2>1, <1>5 DEF Single
    <2>3. Way(m, k, c)'
      BY <2>1, <2>2, <1>2, <1>6, <1>7 DEF Way
    <2>4. Other(cnt') = Other(cnt) + 1
      BY <1>11, OtherIs
    <2>5. Acct(ct.tcp, Weight(InQueues), One(ct.hand), 0, Len(wk.window),
               Len(decodedCh.q), Len(buf.events), Len(db.events), Other(cnt) + 1)
      BY <1>8, <1>9, PlaceMoves
    <2>6. One(wk'.pkt) = 0
      BY <2>1 DEF One
    <2>7. Account'
      BY <2>1, <2>4, <2>5, <2>6, <1>6 DEF Account
    <2>8. TaskTyped' /\ HandHeld' /\ RawsPlaced'
      BY <2>1, <1>6, <1>11 DEF TaskInv, TaskTyped, HandHeld, RawsPlaced
    <2> QED  BY <2>3, <2>7, <2>8 DEF TaskInv, PacketsPlaced
  <1> QED  BY <1>10, <1>11 DEF Submit

\* The head of the window has events, has none, or counts as an error.
LEMMA HeadStep == ASSUME TaskInv, drainHead PROVE TaskInv'
  <1>1. PICK m, k, c : Way(m, k, c)
    BY DEF TaskInv, PacketsPlaced
  <1>2. PICK n : Stored(db.events, buf.events, 0, n) /\ Decoded(decodedCh.q, wk.window, n, m)
    BY <1>1 DEF Way
  <1>3. PICK w : w = wk.window
    OBVIOUS
  <1>4. PICK y : Within(decodedCh.q, n, y) /\ Within(w, y, m)
    BY <1>2, <1>3 DEF Decoded
  <1>5. w # <<>> /\ DOMAIN wk' = DOMAIN wk /\ wk'.window = Tail(w) /\ wk'.pkt = wk.pkt
    BY <1>3 DEF drainHead, TaskInv, TaskTyped
  <1>6. PICK h : h = Head(w)
    OBVIOUS
  <1>7. h \in Nat /\ y < h /\ Within(Tail(w), h, m) /\ Len(w) \in Nat /\ Len(Tail(w)) = Len(w) - 1 /\ Len(w) > 0
    BY <1>4, <1>5, <1>6, WithinTail
  <1>8. UNCHANGED <<ct, pend, decodeCh, buf, db>> /\ InQueues' = InQueues
    BY DEF drainHead, storeSide, InQueues
  <1>9. In(InQueues, k, c) /\ Single(ct.hand, c, ct.got) /\ Single(wk.pkt, m, k)
    BY <1>1 DEF Way
  <1>10. Acct(ct.tcp, Weight(InQueues), One(ct.hand), One(wk.pkt), Len(w),
              Len(decodedCh.q), Len(buf.events), Len(db.events), Other(cnt))
    BY <1>3 DEF TaskInv, Account
  <1>11. CASE decodedCh' = [decodedCh EXCEPT !.q = Append(@, h)] /\ cnt' = cnt
    <2>1. DOMAIN decodedCh' = DOMAIN decodedCh /\ decodedCh'.q = Append(decodedCh.q, h)
      BY <1>11 DEF TaskInv, TaskTyped
    <2>2. Within(Append(decodedCh.q, h), n, h) /\ Len(Append(decodedCh.q, h)) = Len(decodedCh.q) + 1
      BY <1>4, <1>7, WithinAppend
    <2>3. Decoded(decodedCh'.q, wk'.window, n, m)
      BY <2>1, <2>2, <1>5, <1>7 DEF Decoded
    <2>4. Way(m, k, c)'
      BY <2>3, <1>2, <1>5, <1>8, <1>9 DEF Way
    <2>5. Acct(ct.tcp, Weight(InQueues), One(ct.hand), One(wk.pkt), Len(w) - 1,
               Len(decodedCh.q) + 1, Len(buf.events), Len(db.events), Other(cnt))
      BY <1>7, <1>10, PlaceMoves
    <2>6. Account'
      BY <2>1, <2>2, <2>5, <1>5, <1>7, <1>8, <1>11 DEF Account
    <2>7. TaskTyped' /\ HandHeld' /\ RawsPlaced'
      BY <2>1, <1>5, <1>8, <1>11 DEF TaskInv, TaskTyped, HandHeld, RawsPlaced
    <2> QED  BY <2>4, <2>6, <2>7 DEF TaskInv, PacketsPlaced
  <1>12. CASE decodedCh' = decodedCh /\ cnt' \in {[cnt EXCEPT !.empty = @ + 1], [cnt EXCEPT !.errs = @ + 1]}
    <2>1. y \in Nat /\ m \in Nat /\ y <= h
      BY <1>4, <1>7 DEF Within
    <2>2. Within(Tail(w), y, m)
      BY <2>1, <1>7, WithinWider
    <2>3. Decoded(decodedCh'.q, wk'.window, n, m)
      BY <2>2, <1>4, <1>5, <1>12 DEF Decoded
    <2>4. Way(m, k, c)'
      BY <2>3, <1>2, <1>5, <1>8, <1>9 DEF Way
    <2>5. Other(cnt') = Other(cnt) + 1
      BY <1>12, OtherIs
    <2>6. Acct(ct.tcp, Weight(InQueues), One(ct.hand), One(wk.pkt), Len(w) - 1,
               Len(decodedCh.q), Len(buf.events), Len(db.events), Other(cnt) + 1)
      BY <1>7, <1>10, PlaceMoves
    <2>7. Account'
      BY <2>5, <2>6, <1>5, <1>7, <1>8, <1>12 DEF Account
    <2>8. /\ DOMAIN cnt' = DOMAIN cnt /\ cnt'.rawOver = cnt.rawOver /\ cnt'.evOver = cnt.evOver /\ cnt'.skipped = cnt.skipped
          /\ cnt'.empty \in Nat /\ cnt'.errs \in Nat
      BY <1>12 DEF TaskInv, TaskTyped
    <2>9. TaskTyped' /\ HandHeld' /\ RawsPlaced'
      BY <2>8, <1>5, <1>8, <1>12 DEF TaskInv, TaskTyped, HandHeld, RawsPlaced
    <2> QED  BY <2>4, <2>7, <2>9 DEF TaskInv, PacketsPlaced
  <1>13. \/ decodedCh' = [decodedCh EXCEPT !.q = Append(@, h)] /\ cnt' = cnt
         \/ decodedCh' = decodedCh /\ cnt' \in {[cnt EXCEPT !.empty = @ + 1], [cnt EXCEPT !.errs = @ + 1]}
    BY <1>3, <1>6 DEF drainHead, WaitFails
  <1> QED  BY <1>11, <1>12, <1>13

-----------------------------------------------------------------------------
\* The main loop.

\* Whatever it does to the queues in front of the worker: in is what they are
\* afterwards, lost is how many the worker threw away meanwhile.
LEMMA QueuesStep ==
    ASSUME TaskInv, NEW m, NEW k, NEW c, Way(m, k, c), NEW in, NEW c2, In(in, k, c2),
           PutQueues(in) \/ (in = InQueues /\ UNCHANGED <<pend, decodeCh>>),
           NEW lost \in Nat, cnt' = Skips(lost) \/ (lost = 0 /\ cnt' = cnt), UNCHANGED <<decodedCh, wk, db>>,
           buf'.events = buf.events, DOMAIN ct' = DOMAIN ct, ct'.got \in Nat, Single(ct'.hand, c2, ct'.got),
           (ct'.hand # 0 <=> ct'.pc = "replay"), RawsPlaced',
           Acct(ct'.tcp, Weight(in), One(ct'.hand), One(wk.pkt), Len(wk.window),
                Len(decodedCh.q), Len(buf.events), Len(db.events), Other(cnt) + lost)
    PROVE  TaskInv'
  <1>1. DOMAIN decodeCh' = DOMAIN decodeCh /\ decodeCh'.q = in.q /\ pend' = in.pend
    BY DEF PutQueues, InQueues, TaskInv, TaskTyped
  <1>2. InQueues' = [pend |-> in.pend, q |-> in.q]
    BY <1>1 DEF InQueues
  <1>3. In(InQueues', k, c2) /\ Weight(InQueues') = Weight(in)
    BY <1>2 DEF In, Weight
  <1>4. Way(m, k, c2)'
    BY <1>3 DEF Way
  <1>5. Other(cnt') = Other(cnt) + lost
    <2>1. PICK o \in Nat : o = Other(cnt)
      BY OtherIs
    <2>2. CASE cnt' = Skips(lost)
      BY <2>2, OtherIs DEF Skips
    <2>3. CASE lost = 0 /\ cnt' = cnt
      BY <2>1, <2>3
    <2> QED  BY <2>2, <2>3
  <1>6. Account'
    BY <1>3, <1>5 DEF Account
  <1>7. ct'.tcp \in Nat
    BY DEF Acct
  <1>8. TaskTyped' /\ HandHeld'
    BY SMTT(20), <1>1, <1>7 DEF TaskInv, TaskTyped, HandHeld, Skips
  <1> QED  BY <1>4, <1>6, <1>8 DEF TaskInv, PacketsPlaced

\* resolveDecoder and what follows it: some packets are lost, the others keep their order.
LEMMA ResolvedIs ==
    ASSUME NEW k, NEW c, In(InQueues, k, c), NEW r, NEW n, n \in 0 .. Len(decodeCh.q)
    PROVE  In(AfterResolve(r, n), k, c) /\ Weight(AfterResolve(r, n)) + n = Weight(InQueues)
  <1>1. InQueues.q = decodeCh.q
    BY DEF InQueues
  <1>2. PICK in : in = [InQueues EXCEPT !.q = DropFirst(@, n)]
    OBVIOUS
  <1>3. In(in, k, c) /\ Weight(in) + n = Weight(InQueues)
    BY <1>1, <1>2, LostIs
  <1>4. In(drainPending(in, TRUE), k, c) /\ Weight(drainPending(in, TRUE)) = Weight(in)
    BY <1>3, DrainedIs
  <1>5. AfterResolve(r, n) = IF r.make THEN drainPending(in, TRUE) ELSE in
    BY <1>2 DEF AfterResolve
  <1> QED  BY <1>3, <1>4, <1>5

\* No more than waited are lost.
LEMMA LostBounded ==
    ASSUME TaskInv, NEW r, NEW n \in 0 .. DecodeCap, resolveDecoder(r, n) PROVE n \in Nat /\ n \in 0 .. Len(decodeCh.q)
  <1>1. Len(decodeCh.q) \in Nat
    BY QueueLens
  <1>2. n \in Nat
    BY TaskAssumption
  <1> QED  BY <1>1, <1>2 DEF resolveDecoder

\* A decoder is resolved; no packet arrives.
LEMMA ResolveKeeps ==
    ASSUME TaskInv, NEW r, NEW n \in 0 .. DecodeCap, resolveDecoder(r, n), NEW in,
           in = AfterResolve(r, n) \/ \E on : in = drainPending(AfterResolve(r, n), on),
           PutQueues(in), cnt' = Skips(n), UNCHANGED <<decodedCh, wk, buf, db>>,
           DOMAIN ct' = DOMAIN ct, ct'.got = ct.got, ct'.tcp = ct.tcp, ct'.hand = ct.hand,
           ct'.pc # "replay", ct.pc # "replay"
    PROVE  TaskInv'
  <1>1. PICK m, k, c : Way(m, k, c)
    BY DEF TaskInv, PacketsPlaced
  <1>2. n \in Nat /\ n \in 0 .. Len(decodeCh.q)
    BY LostBounded
  <1>3. PICK a : a = AfterResolve(r, n)
    OBVIOUS
  <1>4. In(InQueues, k, c) /\ Single(ct.hand, c, ct.got)
    BY <1>1 DEF Way
  <1>5. In(a, k, c) /\ Weight(a) + n = Weight(InQueues)
    BY <1>2, <1>3, <1>4, ResolvedIs
  <1>6. In(in, k, c) /\ Weight(in) = Weight(a)
    <2>1. CASE in = a
      BY <2>1, <1>5
    <2>2. CASE \E on : in = drainPending(a, on)
      BY <2>2, <1>5, DrainedIs
    <2> QED  BY <2>1, <2>2, <1>3
  <1>7. Acct(ct.tcp, Weight(in), One(ct.hand), One(wk.pkt), Len(wk.window),
             Len(decodedCh.q), Len(buf.events), Len(db.events), Other(cnt) + n)
    <2>1. Acct(ct.tcp, Weight(InQueues), One(ct.hand), One(wk.pkt), Len(wk.window),
               Len(decodedCh.q), Len(buf.events), Len(db.events), Other(cnt))
      BY DEF TaskInv, Account
    <2>2. n \in 0 .. Weight(InQueues) /\ Weight(in) = Weight(InQueues) - n
      <3>1. PICK x : x = Weight(InQueues)
        OBVIOUS
      <3>2. PICK y : y = Weight(in)
        OBVIOUS
      <3>3. y \in Nat /\ y + n = x
        BY <3>1, <3>2, <1>5, <1>6, WeightNat
      <3>4. n \in 0 .. x /\ y = x - n
        BY <3>3, <1>2
      <3> QED  BY <3>1, <3>2, <3>4
    <2>3. Acct(ct.tcp, Weight(InQueues) - n, One(ct.hand), One(wk.pkt), Len(wk.window),
               Len(decodedCh.q), Len(buf.events), Len(db.events), Other(cnt) + n)
      BY <2>1, <2>2, PlaceMoves
    <2> QED  BY <2>2, <2>3
  <1>8. RawsPlaced' /\ ct.got \in Nat /\ (ct'.hand # 0 <=> ct'.pc = "replay")
    BY DEF TaskInv, TaskTyped, HandHeld, RawsPlaced, Skips
  <1> QED  BY <1>1, <1>2, <1>4, <1>6, <1>7, <1>8, QueuesStep

\* The three cases of select that resolve the decoder.
LEMMA ResolveSteps == ASSUME TaskInv, OnReresolve \/ OnRegistryEvent \/ OnTick PROVE TaskInv'
  <1>1. CASE OnReresolve
    <2>1. PICK r \in ResolveOutcomes(TRUE), n \in 0 .. DecodeCap : resolveDecoder(r, n) /\ PutQueues(AfterResolve(r, n)) /\ cnt' = Skips(n)
      BY <1>1 DEF OnReresolve
    <2>2. ct' = ct /\ ct.pc # "replay" /\ UNCHANGED <<decodedCh, wk, buf, db>>
      BY <1>1 DEF OnReresolve, InLoop, storeSide
    <2> QED  BY <2>1, <2>2, ResolveKeeps
  <1>2. CASE OnRegistryEvent
    <2>1. PICK r \in ResolveOutcomes(TRUE), n \in 0 .. DecodeCap :
             resolveDecoder(r, n) /\ PutQueues(drainPending(AfterResolve(r, n), r.disp # 0)) /\ cnt' = Skips(n)
      BY <1>2 DEF OnRegistryEvent
    <2>2. ct' = ct /\ ct.pc # "replay" /\ UNCHANGED <<decodedCh, wk, buf, db>>
      BY <1>2 DEF OnRegistryEvent, InLoop, storeSide
    <2> QED  BY <2>1, <2>2, ResolveKeeps
  <1>3. CASE OnTick
    <2>1. PICK r \in ResolveOutcomes(FALSE), n \in 0 .. DecodeCap :
             resolveDecoder(r, n) /\ PutQueues(drainPending(AfterResolve(r, n), r.disp # 0)) /\ cnt' = Skips(n)
      BY <1>3 DEF OnTick
    <2>2. /\ DOMAIN ct' = DOMAIN ct /\ ct'.got = ct.got /\ ct'.tcp = ct.tcp /\ ct'.hand = ct.hand
          /\ ct'.pc # "replay" /\ ct.pc # "replay" /\ UNCHANGED <<decodedCh, wk, buf, db>>
      BY <1>3 DEF OnTick, InLoop, storeSide, TaskInv, TaskTyped
    <2> QED  BY <2>1, <2>2, ResolveKeeps
  <1> QED  BY <1>1, <1>2, <1>3

\* A packet is newer than all others, wherever it goes.
LEMMA PacketStep == ASSUME TaskInv, OnPacket PROVE TaskInv'
  <1>1. PICK m, k, c : Way(m, k, c)
    BY DEF TaskInv, PacketsPlaced
  <1>2. PICK p : p = ct.got + 1
    OBVIOUS
  <1>3. PICK r \in ResolveOutcomes(FALSE), n \in 0 .. DecodeCap, isTcp \in BOOLEAN :
          /\ resolveDecoder(r, n)
          /\ cnt' = Skips(n)
          /\ ct' = [ct EXCEPT !.got = p, !.tcp = @ + (IF isTcp THEN 1 ELSE 0),
                              !.pc = IF isTcp /\ ct.pcap THEN "replay" ELSE @,
                              !.hand = IF isTcp /\ ct.pcap THEN p ELSE 0]
          /\ PutQueues(IF isTcp /\ ~ct.pcap THEN feedDecode(AfterResolve(r, n), r.disp # 0, p) ELSE AfterResolve(r, n))
    BY <1>2 DEF OnPacket
  <1>4. buf' = [buf EXCEPT !.raws = Append(@, p)] /\ ct.pc = "loop" /\ UNCHANGED <<decodedCh, wk, db>>
    BY <1>2 DEF OnPacket, InLoop
  <1>5. n \in Nat /\ n \in 0 .. Len(decodeCh.q)
    BY <1>3, LostBounded
  <1>6. PICK a : a = AfterResolve(r, n)
    OBVIOUS
  <1>7. In(InQueues, k, c) /\ Single(ct.hand, c, ct.got)
    BY <1>1 DEF Way
  <1>8. In(a, k, c) /\ Weight(a) + n = Weight(InQueues)
    BY <1>5, <1>6, <1>7, ResolvedIs
  <1>9. ct.got \in Nat /\ c \in Nat /\ c <= ct.got
    BY <1>7 DEF Single
  <1>10. p \in Nat /\ c < p /\ ct.got < p
    BY <1>2, <1>9
  <1>11. ct.hand = 0 /\ One(ct.hand) = 0
    BY <1>4 DEF TaskInv, HandHeld, One
  <1>12. Acct(ct.tcp, Weight(a), 0, One(wk.pkt), Len(wk.window),
              Len(decodedCh.q), Len(buf.events), Len(db.events), Other(cnt) + n)
    <2>1. Acct(ct.tcp, Weight(InQueues), 0, One(wk.pkt), Len(wk.window),
               Len(decodedCh.q), Len(buf.events), Len(db.events), Other(cnt))
      BY <1>11 DEF TaskInv, Account
    <2>2. n \in 0 .. Weight(InQueues) /\ Weight(a) = Weight(InQueues) - n
      <3>1. PICK x : x = Weight(InQueues)
        OBVIOUS
      <3>2. PICK y : y = Weight(a)
        OBVIOUS
      <3>3. y \in Nat /\ y + n = x
        BY <3>1, <3>2, <1>8, WeightNat
      <3>4. n \in 0 .. x /\ y = x - n
        BY <3>3, <1>5
      <3> QED  BY <3>1, <3>2, <3>4
    <2>3. Acct(ct.tcp, Weight(InQueues) - n, 0, One(wk.pkt), Len(wk.window),
               Len(decodedCh.q), Len(buf.events), Len(db.events), Other(cnt) + n)
      BY <2>1, <2>2, PlaceMoves
    <2> QED  BY <2>2, <2>3
  <1>13. RawsPlaced' /\ buf'.events = buf.events /\ DOMAIN ct' = DOMAIN ct /\ ct'.got = p
    <2>1. DOMAIN ct' = DOMAIN ct /\ ct'.got = p /\ cnt'.rawOver = cnt.rawOver
      BY <1>3 DEF TaskInv, TaskTyped, Skips
    <2>2. PICK b : b = buf.raws
      OBVIOUS
    <2>3. PICK x : Within(db.raws, 0, x) /\ Within(b, x, ct.got)
      BY <2>2 DEF TaskInv, RawsPlaced, Stored
    <2>4. buf'.raws = Append(b, p) /\ buf'.events = buf.events
      BY <2>2, <1>4, <1>3 DEF resolveDecoder, TaskInv, TaskTyped
    <2>5. Within(Append(b, p), x, p) /\ Len(Append(b, p)) = Len(b) + 1
      BY <2>3, <1>10, WithinAppend
    <2>6. Stored(db.raws, buf'.raws, 0, p)
      BY <2>3, <2>4, <2>5 DEF Stored
    <2>7. Kept(ct.got, Len(db.raws), Len(b), cnt.rawOver)
      BY <2>2 DEF TaskInv, RawsPlaced
    <2>8. Kept(p, Len(db.raws), Len(b) + 1, cnt.rawOver)
      BY <2>7, <1>2, KeptMoves
    <2> QED  BY <2>1, <2>4, <2>5, <2>6, <2>8, <1>4 DEF RawsPlaced
  <1>14. CASE isTcp /\ ct.pcap
    <2>1. ct'.tcp = ct.tcp + 1 /\ ct'.pc = "replay" /\ ct'.hand = p /\ PutQueues(a)
      BY <1>3, <1>6, <1>14 DEF TaskInv, TaskTyped
    <2>2. Single(ct'.hand, c, ct'.got) /\ One(ct'.hand) = 1 /\ ct'.hand # 0
      BY <2>1, <1>9, <1>10, <1>13 DEF Single, One
    <2>3. Acct(ct'.tcp, Weight(a), One(ct'.hand), One(wk.pkt), Len(wk.window),
               Len(decodedCh.q), Len(buf.events), Len(db.events), Other(cnt) + n)
      BY <2>1, <2>2, <1>12, PlaceMoves
    <2> QED  BY <2>1, <2>2, <2>3, <1>1, <1>3, <1>4, <1>5, <1>8, <1>10, <1>13, QueuesStep
  <1>15. CASE isTcp /\ ~ct.pcap
    <2>1. PICK in : in = feedDecode(a, r.disp # 0, p)
      OBVIOUS
    <2>2. ct'.tcp = ct.tcp + 1 /\ ct'.pc = "loop" /\ ct'.hand = 0 /\ PutQueues(in)
      BY <2>1, <1>3, <1>4, <1>6, <1>15 DEF TaskInv, TaskTyped
    <2>3. In(in, k, p) /\ Weight(in) = Weight(a) + 1
      BY <2>1, <1>8, <1>10, FedIs
    <2>4. Single(ct'.hand, p, ct'.got) /\ One(ct'.hand) = 0
      BY <2>2, <1>10, <1>13 DEF Single, One
    <2>5. Acct(ct'.tcp, Weight(in), One(ct'.hand), One(wk.pkt), Len(wk.window),
               Len(decodedCh.q), Len(buf.events), Len(db.events), Other(cnt) + n)
      BY <2>2, <2>3, <2>4, <1>12, PlaceMoves
    <2> QED  BY <2>2, <2>3, <2>4, <2>5, <1>1, <1>3, <1>4, <1>5, <1>10, <1>13, QueuesStep
  <1>16. CASE ~isTcp
    <2>1. ct'.tcp = ct.tcp /\ ct'.pc = "loop" /\ ct'.hand = 0 /\ PutQueues(a)
      BY <1>3, <1>4, <1>6, <1>16 DEF TaskInv, TaskTyped
    <2>2. Single(ct'.hand, c, ct'.got) /\ One(ct'.hand) = 0
      BY <2>1, <1>9, <1>10, <1>13 DEF Single, One
    <2>3. Acct(ct'.tcp, Weight(a), One(ct'.hand), One(wk.pkt), Len(wk.window),
               Len(decodedCh.q), Len(buf.events), Len(db.events), Other(cnt) + n)
      BY <2>1, <2>2, <1>12
    <2> QED  BY <2>1, <2>2, <2>3, <1>1, <1>3, <1>4, <1>5, <1>8, <1>10, <1>13, QueuesStep
  <1> QED  BY <1>14, <1>15, <1>16

\* The oldest waiting packet moves into decodeCh.
LEMMA MovesOver ==
    ASSUME TaskInv, NEW m, NEW k, NEW c, Way(m, k, c), pend.items # <<>>, Len(decodeCh.q) < DecodeCap
    PROVE  LET in == [pend |-> [pend EXCEPT !.items = Tail(@)], q |-> Append(decodeCh.q, Head(pend.items))]
           IN  In(in, k, c) /\ Weight(in) = Weight(InQueues)
  <1>1. PICK s : s = pend.items
    OBVIOUS
  <1>2. PICK q : q = decodeCh.q
    OBVIOUS
  <1>3. PICK d \in Nat : d = pend.dropped
    BY QueueLens
  <1>4. In(InQueues, k, c) /\ DOMAIN pend = {"items", "dropped"}
    BY DEF Way, In, InQueues
  <1>5. PICK y : Within(q, k, y) /\ Within(s, y, c)
    BY <1>1, <1>2, <1>4 DEF In, InQueues, Queued
  <1>6. PICK h : h = Head(s)
    OBVIOUS
  <1>7. h \in Nat /\ y < h /\ Within(Tail(s), h, c) /\ Len(s) \in Nat /\ Len(Tail(s)) = Len(s) - 1 /\ Len(s) > 0
    BY <1>1, <1>5, <1>6, WithinTail
  <1>8. Within(Append(q, h), k, h) /\ Len(Append(q, h)) = Len(q) + 1 /\ Len(q) \in Nat
    BY <1>5, <1>7, WithinAppend
  <1>9. PICK in : in = [pend |-> [pend EXCEPT !.items = Tail(@)], q |-> Append(decodeCh.q, Head(pend.items))]
    OBVIOUS
  <1>10. /\ DOMAIN in = {"pend", "q"} /\ DOMAIN in.pend = {"items", "dropped"}
         /\ in.q = Append(q, h) /\ in.pend.items = Tail(s) /\ in.pend.dropped = d
    BY <1>1, <1>2, <1>3, <1>4, <1>6, <1>9
  <1>11. PICK l \in Nat : l = Len(q)
    BY <1>8
  <1>12. PICK i \in Nat : i = Len(s)
    BY <1>7
  <1>13. l + 1 <= DecodeCap
    BY <1>2, <1>11, TaskAssumption
  <1>14. In(in, k, c)
    BY <1>7, <1>8, <1>10, <1>11, <1>13 DEF In, Queued
  <1>15. Weight(InQueues) = l + i + d
    BY <1>1, <1>2, <1>3, <1>11, <1>12 DEF Weight, InQueues
  <1>16. Weight(in) = (l + 1) + (i - 1) + d
    BY <1>7, <1>8, <1>10, <1>11, <1>12 DEF Weight
  <1> QED  BY <1>9, <1>14, <1>15, <1>16

\* The account, with nothing lost.
LEMMA AccountKept ==
    ASSUME TaskInv
    PROVE  Acct(ct.tcp, Weight(InQueues), One(ct.hand), One(wk.pkt), Len(wk.window),
                Len(decodedCh.q), Len(buf.events), Len(db.events), Other(cnt) + 0)
  <1>1. PICK o \in Nat : o = Other(cnt)
    BY OtherIs
  <1>2. Other(cnt) + 0 = Other(cnt)
    BY <1>1
  <1> QED  BY <1>2 DEF TaskInv, Account

\* What stands in the way of the packet in hand goes first.
LEMMA SendSteps == ASSUME TaskInv, ReplaySends \/ DrainSends PROVE TaskInv'
  <1>1. PICK m, k, c : Way(m, k, c)
    BY DEF TaskInv, PacketsPlaced
  <1>2. In(InQueues, k, c) /\ Single(ct.hand, c, ct.got) /\ Queued(decodeCh.q, pend.items, k, c)
    BY <1>1 DEF Way, In, InQueues
  <1>3. UNCHANGED <<decodedCh, wk, buf, db, cnt>> /\ RawsPlaced /\ Len(decodeCh.q) < DecodeCap
    BY DEF ReplaySends, DrainSends, storeSide, TaskInv
  <1>4. CASE /\ pend.items # <<>> /\ ct' = ct
             /\ decodeCh' = [decodeCh EXCEPT !.q = Append(@, Head(pend.items))]
             /\ pend' = [pend EXCEPT !.items = Tail(@)]
    <2>1. PICK in : in = [pend |-> [pend EXCEPT !.items = Tail(@)], q |-> Append(decodeCh.q, Head(pend.items))]
      OBVIOUS
    <2>2. In(in, k, c) /\ Weight(in) = Weight(InQueues)
      BY <2>1, <1>1, <1>3, <1>4, MovesOver
    <2>3. PutQueues(in)
      BY <2>1, <1>4 DEF PutQueues
    <2>4. RawsPlaced' /\ ct'.got \in Nat /\ (ct'.hand # 0 <=> ct'.pc = "replay")
      BY <1>3, <1>4 DEF RawsPlaced, TaskInv, TaskTyped, HandHeld
    <2>5. Acct(ct'.tcp, Weight(in), One(ct'.hand), One(wk.pkt), Len(wk.window),
               Len(decodedCh.q), Len(buf.events), Len(db.events), Other(cnt) + 0)
      BY <2>2, <1>4, AccountKept
    <2> QED  BY <2>2, <2>3, <2>4, <2>5, <1>1, <1>2, <1>3, <1>4, QueuesStep
  <1>5. CASE /\ pend.items = <<>> /\ pend' = pend /\ ct.pc = "replay"
             /\ decodeCh' = [decodeCh EXCEPT !.q = Append(@, ct.hand)]
             /\ ct' = [ct EXCEPT !.pc = "loop", !.hand = 0]
    <2>1. PICK h : h = ct.hand
      OBVIOUS
    <2>2. h \in Nat /\ c < h /\ h <= ct.got /\ ct.got \in Nat /\ h # 0 /\ One(ct.hand) = 1
      BY <2>1, <1>2, <1>5 DEF Single, TaskInv, HandHeld, One
    <2>3. PICK q : q = decodeCh.q
      OBVIOUS
    <2>4. PICK y : Within(q, k, y) /\ Within(<<>>, y, c)
      BY <2>3, <1>2, <1>5 DEF Queued
    <2>5. y \in Nat /\ c \in Nat /\ y <= c
      BY <2>4 DEF Within
    <2>6. y < h
      BY <2>2, <2>5
    <2>7. Within(Append(q, h), k, h) /\ Len(Append(q, h)) = Len(q) + 1 /\ Len(q) \in Nat
      BY <2>2, <2>4, <2>6, WithinAppend
    <2>8. Within(<<>>, h, h)
      BY <2>2, WithinNone
    <2>9. PICK in : in = [InQueues EXCEPT !.q = Append(q, h)]
      OBVIOUS
    <2>10. DOMAIN in = {"pend", "q"} /\ in.q = Append(q, h) /\ in.pend = pend
      BY <2>9 DEF InQueues
    <2>11. PICK l \in Nat : l = Len(q)
      BY <2>7
    <2>12. l + 1 <= DecodeCap
      BY <2>3, <2>11, <1>3, TaskAssumption
    <2>13. In(in, k, h)
      BY <2>7, <2>8, <2>10, <2>11, <2>12, <1>2, <1>5 DEF In, InQueues, Queued
    <2>14. PICK i \in Nat, d \in Nat : i = Len(pend.items) /\ d = pend.dropped
      BY QueueLens
    <2>15. Weight(InQueues) = l + i + d /\ Weight(in) = (l + 1) + i + d
      BY <2>3, <2>7, <2>10, <2>11, <2>14 DEF Weight, InQueues
    <2>16. Weight(in) = Weight(InQueues) + 1
      BY <2>15
    <2>17. PutQueues(in)
      BY <2>1, <2>3, <2>10, <1>5 DEF PutQueues
    <2>18. DOMAIN ct' = DOMAIN ct /\ ct'.hand = 0 /\ ct'.pc = "loop" /\ ct'.got = ct.got /\ ct'.tcp = ct.tcp
      BY <1>5 DEF TaskInv, TaskTyped
    <2>19. Single(ct'.hand, h, ct'.got) /\ One(ct'.hand) = 0
      BY <2>2, <2>18 DEF Single, One
    <2>20. RawsPlaced'
      BY <2>18, <1>3 DEF RawsPlaced
    <2>21. Acct(ct'.tcp, Weight(in), One(ct'.hand), One(wk.pkt), Len(wk.window),
                Len(decodedCh.q), Len(buf.events), Len(db.events), Other(cnt) + 0)
      BY <2>2, <2>16, <2>18, <2>19, AccountKept, PlaceMoves
    <2> QED  BY <2>2, <2>13, <2>17, <2>18, <2>19, <2>20, <2>21, <1>1, <1>3, QueuesStep
  <1> QED  BY <1>4, <1>5 DEF ReplaySends, DrainSends

\* A stopped replay lets go of its packet.
LEMMA ReplayStopsStep == ASSUME TaskInv, ReplayStops PROVE TaskInv'
  <1>1. PICK m, k, c : Way(m, k, c)
    BY DEF TaskInv, PacketsPlaced
  <1>2. In(InQueues, k, c) /\ Single(ct.hand, c, ct.got)
    BY <1>1 DEF Way
  <1>3. UNCHANGED <<pend, decodeCh, decodedCh, wk, buf, db>> /\ cnt' = Skips(1) /\ ct.hand # 0
    BY DEF ReplayStops, decodeSide, storeSide, TaskInv, HandHeld
  <1>4. DOMAIN ct' = DOMAIN ct /\ ct'.hand = 0 /\ ct'.pc = "loop" /\ ct'.got = ct.got /\ ct'.tcp = ct.tcp /\ ct.got \in Nat
    BY DEF ReplayStops, TaskInv, TaskTyped
  <1>5. Single(ct'.hand, c, ct'.got) /\ One(ct'.hand) = 0 /\ One(ct.hand) = 1
    BY <1>2, <1>3, <1>4 DEF Single, One
  <1>7. RawsPlaced'
    BY <1>3, <1>4 DEF TaskInv, RawsPlaced, Skips, TaskTyped
  <1>8. Acct(ct'.tcp, Weight(InQueues), One(ct'.hand), One(wk.pkt), Len(wk.window),
             Len(decodedCh.q), Len(buf.events), Len(db.events), Other(cnt) + 1)
    <2>1. Acct(ct.tcp, Weight(InQueues), One(ct.hand), One(wk.pkt), Len(wk.window),
               Len(decodedCh.q), Len(buf.events), Len(db.events), Other(cnt))
      BY DEF TaskInv, Account
    <2> QED  BY <2>1, <1>4, <1>5, PlaceMoves
  <1> QED  BY <1>1, <1>2, <1>3, <1>4, <1>5, <1>7, <1>8, QueuesStep

-----------------------------------------------------------------------------
\* The steps that write.
LEMMA WriteSteps == ASSUME TaskInv, TickFlushes \/ shutdownDecode \/ TaskFinalize PROVE TaskInv'
  <1>1. PICK ok \in Writes : flush(ok)
    BY DEF TickFlushes, shutdownDecode, TaskFinalize
  <1>2. UNCHANGED <<pend, decodeCh, decodedCh, wk>>
    BY DEF TickFlushes, shutdownDecode, TaskFinalize, decodeSide
  <1>3. /\ DOMAIN ct' = DOMAIN ct /\ ct'.got = ct.got /\ ct'.tcp = ct.tcp /\ ct'.hand = ct.hand
        /\ ct'.pc # "replay" /\ ct.pc # "replay"
    BY DEF TickFlushes, shutdownDecode, TaskFinalize, TaskInv, TaskTyped
  <1> QED  BY <1>1, <1>2, <1>3, FlushStep

\* Every step keeps the packets in their places.
LEMMA TaskKept == TaskInv /\ [TaskNext]_taskVars => TaskInv'
  <1> SUFFICES ASSUME TaskInv, [TaskNext]_taskVars PROVE TaskInv'
    OBVIOUS
  <1>1. CASE Worker
    <2>1. CASE WorkerExits
      BY <2>1, IdleSteps
    <2> QED  BY <2>1, <1>1, TakesStep, SubmitStep, HeadStep DEF Worker
  <1>2. CASE Ending
    <2>1. CASE BlockedProcesses
      BY <2>1, ProcessedStep DEF BlockedProcesses
    <2>2. CASE DrainEnds \/ OpenCaptureSources
      BY <2>2, IdleSteps
    <2> QED  BY <2>1, <2>2, <1>2, ReplayStopsStep, WriteSteps DEF Ending
  <1>3. CASE OnDecoded
    BY <1>3, ProcessedStep DEF OnDecoded
  <1>4. CASE OnReresolve \/ OnRegistryEvent \/ OnTick
    BY <1>4, ResolveSteps
  <1>5. CASE OnPacket
    BY <1>5, PacketStep
  <1>6. CASE ReplaySends \/ DrainSends
    BY <1>6, SendSteps
  <1>7. CASE TaskStart \/ OnStop \/ SourcesEnd \/ TaskStop \/ \E n \in 0 .. 1 : SetSessionPlugin(n) \/ PluginChanges(n)
    BY <1>7, IdleSteps DEF OnStop, SourcesEnd
  <1>8. CASE (\E p \in TaskPkts : recvLoop(p)) \/ (\E d \in DOMAIN disps : failAllPending(d)) \/ UNCHANGED taskVars
    BY <1>8, AnswerSteps
  <1> QED  BY <1>1, <1>2, <1>3, <1>4, <1>5, <1>6, <1>7, <1>8 DEF TaskNext

\* The packets stay in their places.
LEMMA TaskInvariant == TaskSpec => []TaskInv
  <1>1. TaskInv /\ [TaskNext]_taskVars => TaskInv'
    BY TaskKept
  <1> QED  BY <1>1, TaskInitial, PTL DEF TaskSpec

\* What is decoded is stored in the order in which it was captured, whatever
\* becomes full, times out, fails or changes (feedDecode, drainHead, flush).
THEOREM DecodedSafe == TaskSpec => []DecodedInOrder
  BY TaskInvariant, TaskSays, PTL

\* Every packet the task has taken is in one place or counted (captureTask.run,
\* resolveDecoder, retainOnFailure).
THEOREM AccountsSafe == TaskSpec => []PacketsAccounted
  BY TaskInvariant, TaskSays, PTL

=============================================================================
