---------------------------- MODULE UplinkProofs ----------------------------
(***************************************************************************)
(* Theorems about the two ways in: the uplink of an agent and the tunnel   *)
(* of a plugin.  For any number of runs, packets, streams and updates, no  *)
(* run goes on unseen, and the runner reports what the current run         *)
(* captures. While a run's client ends before that of the next one begins, *)
(* what is confirmed was sent, and the server receives the packets in      *)
(* order.  And the logical streams that plugins answer on, for any number  *)
(* of them, lose no response.                                              *)
(***************************************************************************)
EXTENDS Uplink, TunnelMux, SequenceTheorems, TLAPS

(***************************************************************************)
(* The inductive invariants.                                               *)
(***************************************************************************)
\* Where the client of a run has nothing pending, where it has no stream, and
\* where it holds exactly what is in flight.
Emptied == {"none", "retry", "connect", "poll", "closing", "done"}
Detached == {"none", "retry", "connect", "done"}
Holding == {"poll", "topup", "wait", "send", "ack", "flush", "flushack"}
Clients == {"none", "retry", "connect", "poll", "topup", "wait", "send",
            "ack", "flush", "flushack", "closing", "done"}
Packet == 1 .. MaxPackets

RunnerTyped ==
    /\ state \in States /\ params \in Params \cup {NoParams}
    /\ cancelFn \in 0 .. MaxUpRuns /\ live \in 0 .. MaxUpRuns /\ runs \in 0 .. MaxUpRuns
    /\ cancelled \in [Runs -> BOOLEAN] /\ capEnded \in [Runs -> BOOLEAN]
    /\ capture \in [Runs -> {"none", "on", "closed", "off"}]
    /\ filter \in [Runs -> Params \cup {NoParams}]
    /\ watcher \in [Runs -> {"none", "begin", "select", "got", "done"}]
    /\ watched \in [Runs -> 0 .. MaxUpRuns]
ClientTyped ==
    /\ client \in [Runs -> Clients] /\ stream \in [Runs -> {"up", "broken"}]
    /\ pending \in [Runs -> Seq(Packet)] /\ wire \in [Runs -> Seq(Seq(Packet))]
    /\ \A r \in Runs : Len(pending[r]) <= BatchSize
    /\ \A r \in Runs : client[r] \in Emptied => pending[r] = << >>
ChannelTyped ==
    /\ packets \in [Runs -> Seq(Packet)] /\ \A r \in Runs : Len(packets[r]) <= ChanCap
    /\ captured \in 0 .. MaxPackets
QueueTyped ==
    /\ queue \in Seq(Packet) /\ Len(queue) <= Quota
    /\ nextIdx \in Nat /\ nextIdx <= Len(queue)
\* A run that was not started has no goroutines.
Fresh == \A r \in Runs : r > runs => client[r] = "none" /\ capture[r] = "none" /\ packets[r] = << >>

UpTypeInv == RunnerTyped /\ ClientTyped /\ ChannelTyped /\ QueueTyped /\ Fresh

\* A run that is not started yet is not cancelled, and while the runner says
\* running it would cancel and update the run that was started last.
RunInv ==
    /\ state \in States /\ runs \in 0 .. MaxUpRuns /\ cancelFn \in 0 .. runs
    /\ cancelled \in [Runs -> BOOLEAN] /\ filter \in [Runs -> Params \cup {NoParams}]
    /\ \A r \in Runs : r > runs => ~cancelled[r]
    /\ state = "running" => runs # 0 /\ live = runs
    /\ RunsTruthful

\* The packets that wait for the client are in order, and newer than those it
\* has spooled.
Rising(s) == \A i, j \in 1 .. Len(s) : i < j => s[i] < s[j]
PacketsInOrder ==
    \A r \in Runs :
        /\ Rising(packets[r]) /\ \A i \in 1 .. Len(packets[r]) : packets[r][i] <= captured
        /\ client[r] \notin {"none", "done"} =>
               \A i \in 1 .. Len(packets[r]), p \in spooled : p < packets[r][i]
\* The queue holds what is spooled and not confirmed, in order.
QueueHolds ==
    /\ Rising(queue) /\ spooled = acked \cup Elems(queue)
    /\ \A p \in spooled : p \in Nat /\ p <= captured
\* The client's batch is what the queue has in flight.
InFlight ==
    \A r \in Runs : client[r] \in Holding =>
        Len(pending[r]) = nextIdx /\ \A i \in 1 .. nextIdx : pending[r][i] = queue[i]
\* Nothing is confirmed, under way or received that was not sent.
SentFirst ==
    /\ acked \subseteq sent /\ sent \subseteq spooled /\ received \subseteq sent
    /\ \A r \in Runs : client[r] \in {"ack", "flushack"} => Elems(pending[r]) \subseteq sent
    /\ \A r \in Runs : \A i \in 1 .. Len(wire[r]) : Elems(wire[r][i]) \subseteq sent
\* What was sent has arrived, is lost with its stream, or is under way.
OnWire(p) == \E r \in Runs : \E i \in 1 .. Len(wire[r]) : p \in Elems(wire[r][i])
Tracked == \A p \in sent : p \in received \/ p \in lost \/ OnWire(p)
\* Only a client that is not done has a stream, and a broken stream carries
\* nothing.
Connected ==
    \A r \in Runs : /\ client[r] \in Detached => stream[r] = "broken"
                    /\ stream[r] = "broken" => wire[r] = << >>
\* What is under way comes after what it has to come after.
Ahead(q, r, i) == \E j \in 1 .. i : q \in Elems(wire[r][j])
WireInOrder ==
    \A r \in Runs : \A i \in 1 .. Len(wire[r]) : \A p \in Elems(wire[r][i]), q \in spooled :
        q < p => q \in received \/ q \in acked \cap lost \/ Ahead(q, r, i)

StreamInv ==
    /\ PacketsInOrder /\ QueueHolds /\ InFlight /\ SentFirst /\ Tracked /\ Connected
    /\ ReceivedInOrder /\ WireInOrder

(***************************************************************************)
(* Types.                                                                  *)
(***************************************************************************)
\* The parts of the invariant that speak of variables a step leaves alone.
LEMMA RunnerFrame ==
    ASSUME RunnerTyped, UNCHANGED <<runner, cancelled, capture, filter, capEnded, watchVars>>
    PROVE  RunnerTyped'
BY DEF RunnerTyped, runner, watchVars
\* Likewise for the clients.
LEMMA ClientFrame == ASSUME ClientTyped, UNCHANGED clientVars PROVE ClientTyped'
BY DEF ClientTyped, clientVars
\* Likewise for the channels.
LEMMA ChannelFrame == ASSUME ChannelTyped, UNCHANGED <<packets, captured>> PROVE ChannelTyped'
BY DEF ChannelTyped
\* Likewise for the spool.
LEMMA QueueFrame == ASSUME QueueTyped, UNCHANGED spoolVars PROVE QueueTyped'
BY DEF QueueTyped, spoolVars

\* Runs are numbers, and the constants are numbers.
LEMMA UpFacts ==
    /\ MaxUpRuns \in Nat \ {0} /\ BatchSize \in Nat \ {0} /\ Quota \in Nat \ {0}
    /\ ChanCap \in Nat \ {0} /\ MaxPackets \in Nat /\ Runs \subseteq Nat \ {0} /\ Packet \subseteq Nat
BY UplinkAssumption DEF Runs, Packet

\* At first nothing runs.
LEMMA UpTypeInit == UpInit => UpTypeInv
<1>1. SUFFICES ASSUME UpInit PROVE UpTypeInv
  OBVIOUS
<1>2. RunnerTyped
  BY <1>1, UpFacts DEF UpInit, RunnerTyped, States, None, NoParams
<1>3. ClientTyped
  BY <1>1, UpFacts DEF UpInit, ClientTyped, Clients
<1>4. ChannelTyped /\ QueueTyped
  BY <1>1, UpFacts DEF UpInit, ChannelTyped, QueueTyped
<1>5. Fresh
  BY <1>1 DEF UpInit, Fresh
<1>6. QED
  BY <1>2, <1>3, <1>4, <1>5 DEF UpTypeInv

\* The contexts after stopLocked.
LEMMA StoppedType ==
    ASSUME cancelled \in [Runs -> BOOLEAN], cancelFn \in 0 .. MaxUpRuns
    PROVE  /\ StoppedLocked \in [Runs -> BOOLEAN]
           /\ \A r \in Runs : StoppedLocked[r] = (cancelled[r] \/ r = cancelFn)
<1>1. \A r \in Runs : r # 0
  BY DEF Runs
<1>2. CASE cancelFn = None
  BY <1>1, <1>2 DEF StoppedLocked, None
<1>3. CASE cancelFn # None
  BY <1>1, <1>3 DEF StoppedLocked
<1>4. QED
  BY <1>2, <1>3

\* Starts, failed starts, stops and updates keep the types.
LEMMA UpTypeControl ==
    ASSUME UpTypeInv, Control \/ Stop
    PROVE  UpTypeInv'
<1>1. RunnerTyped /\ ClientTyped /\ ChannelTyped /\ QueueTyped /\ Fresh
  BY DEF UpTypeInv
<1>2. /\ runs \in 0 .. MaxUpRuns /\ cancelFn \in 0 .. MaxUpRuns
      /\ StoppedLocked \in [Runs -> BOOLEAN]
  BY <1>1, StoppedType DEF RunnerTyped
<1>3. ASSUME NEW p \in Params, Start(p)
      PROVE  UpTypeInv'
  <2>1. PICK r : r = runs + 1
    OBVIOUS
  <2>2. /\ runs < MaxUpRuns
        /\ runs' = r /\ params' = p /\ cancelFn' = r /\ live' = r /\ state' = "running"
        /\ cancelled' = StoppedLocked
        /\ capture' = [capture EXCEPT ![r] = "on"] /\ filter' = [filter EXCEPT ![r] = p]
        /\ client' = [client EXCEPT ![r] = "retry"]
        /\ watcher' = [watcher EXCEPT ![r] = "begin"]
        /\ UNCHANGED <<packets, capEnded, watched, pending, stream, wire, queue, nextIdx, captured>>
    BY <1>3, <2>1 DEF Start, spoolVars, history
  <2>3. r \in 1 .. MaxUpRuns /\ r \in 0 .. MaxUpRuns /\ r \in Runs /\ r > runs /\ r # 0
    BY <1>2, <2>1, <2>2, UpFacts DEF Runs
  <2>4. RunnerTyped'
    BY <1>1, <1>2, <2>2, <2>3 DEF RunnerTyped, States
  <2>5. ClientTyped'
    <3>1. client[r] = "none"
      BY <1>1, <2>3 DEF Fresh
    <3>2. QED
      BY <1>1, <2>2, <2>3, <3>1 DEF ClientTyped, Emptied, Clients
  <2>6. ChannelTyped' /\ QueueTyped'
    BY <1>1, <2>2, ChannelFrame, QueueFrame DEF spoolVars
  <2>7. Fresh'
    <3>1. \A s \in Runs : s > r => s > runs /\ s # r
      BY <1>2, <2>1, UpFacts
    <3>2. QED
      BY <1>1, <2>2, <2>3, <3>1 DEF Fresh, RunnerTyped, ClientTyped
  <2>8. QED
    BY <2>4, <2>5, <2>6, <2>7 DEF UpTypeInv
<1>4. ASSUME NEW p \in Params, StartFails(p)
      PROVE  UpTypeInv'
  <2>1. PICK r : r = runs + 1
    OBVIOUS
  <2>2. /\ runs < MaxUpRuns
        /\ runs' = r /\ params' = p /\ cancelFn' = r /\ live' = None /\ state' = "failed"
        /\ cancelled' = [StoppedLocked EXCEPT ![r] = TRUE]
        /\ UNCHANGED <<captureVars, watchVars, clientVars, spoolVars, captured>>
    BY <1>4, <2>1 DEF StartFails, history
  <2>3. r \in 0 .. MaxUpRuns /\ 0 \in 0 .. MaxUpRuns /\ \A s \in Runs : s > r => s > runs
    BY <1>2, <2>1, <2>2, UpFacts
  <2>4. RunnerTyped'
    BY <1>1, <1>2, <2>2, <2>3 DEF RunnerTyped, States, captureVars, watchVars, None
  <2>5. ClientTyped' /\ ChannelTyped' /\ QueueTyped'
    BY <1>1, <2>2, ClientFrame, ChannelFrame, QueueFrame DEF captureVars
  <2>6. Fresh'
    BY <1>1, <2>2, <2>3 DEF Fresh, captureVars, clientVars
  <2>7. QED
    BY <2>4, <2>5, <2>6 DEF UpTypeInv
<1>5. ASSUME NEW p \in Params, UpdateFilter(p)
      PROVE  UpTypeInv'
  <2>1. /\ filter' = [filter EXCEPT ![live] = p] /\ params' = p
        /\ UNCHANGED <<state, cancelFn, live, runs, cancelled, capture, packets, capEnded,
                       watchVars, clientVars, spoolVars, captured>>
    BY <1>5 DEF UpdateFilter, NewParams
  <2>2. RunnerTyped'
    BY <1>1, <2>1 DEF RunnerTyped, watchVars
  <2>3. ClientTyped' /\ ChannelTyped' /\ QueueTyped' /\ Fresh'
    BY <1>1, <2>1, ClientFrame, ChannelFrame, QueueFrame DEF Fresh, clientVars
  <2>4. QED
    BY <2>2, <2>3 DEF UpTypeInv
<1>6. ASSUME Stop
      PROVE  UpTypeInv'
  <2>1. /\ cancelled' = StoppedLocked /\ cancelFn' = None /\ live' = None /\ state' = "stopped"
        /\ UNCHANGED <<params, runs, captureVars, watchVars, clientVars, spoolVars, captured>>
    BY <1>6 DEF Stop, history
  <2>2. 0 \in 0 .. MaxUpRuns
    BY UpFacts
  <2>3. RunnerTyped'
    BY <1>1, <1>2, <2>1, <2>2 DEF RunnerTyped, States, captureVars, watchVars, None
  <2>4. ClientTyped' /\ ChannelTyped' /\ QueueTyped' /\ Fresh'
    BY <1>1, <2>1, ClientFrame, ChannelFrame, QueueFrame DEF Fresh, clientVars, captureVars
  <2>5. QED
    BY <2>3, <2>4 DEF UpTypeInv
<1>7. QED
  BY <1>3, <1>4, <1>5, <1>6 DEF Control

\* So do the capture goroutine and the watcher of a run.
LEMMA UpTypeCapture ==
    ASSUME UpTypeInv, NEW r \in Runs, Capturing(r) \/ Watching(r)
    PROVE  UpTypeInv'
<1>1. RunnerTyped /\ ClientTyped /\ ChannelTyped /\ QueueTyped /\ Fresh
  BY DEF UpTypeInv
<1>2. CASE CapturePacket(r)
  <2>1. /\ capture[r] = "on" /\ Len(packets[r]) < ChanCap /\ captured < MaxPackets
        /\ captured' = captured + 1
        /\ packets' = [packets EXCEPT ![r] = Append(@, captured + 1)]
        /\ UNCHANGED <<runner, cancelled, capture, filter, capEnded, watchVars, clientVars, spoolVars>>
    BY <1>2 DEF CapturePacket
  <2>2. RunnerTyped' /\ ClientTyped' /\ QueueTyped'
    BY <1>1, <2>1, RunnerFrame, ClientFrame, QueueFrame
  <2>3. ChannelTyped'
    <3>1. captured + 1 \in Packet /\ captured + 1 \in 0 .. MaxPackets
      BY <1>1, <2>1, UpFacts DEF ChannelTyped, Packet
    <3>2. packets[r] \in Seq(Packet) /\ Len(packets[r]) \in Nat
      BY <1>1 DEF ChannelTyped
    <3>3. Append(packets[r], captured + 1) \in Seq(Packet) /\ Len(Append(packets[r], captured + 1)) <= ChanCap
      <4>1. Append(packets[r], captured + 1) \in Seq(Packet) /\ Len(Append(packets[r], captured + 1)) = Len(packets[r]) + 1
        BY ONLY <3>1, <3>2, AppendProperties
      <4>2. QED
        BY <2>1, <3>2, <4>1, UpFacts
    <3>4. QED
      BY <1>1, <2>1, <3>1, <3>3 DEF ChannelTyped
  <2>4. Fresh'
    <3>1. ~(r > runs)
      BY <1>1, <2>1 DEF Fresh
    <3>2. QED
      BY <1>1, <2>1, <3>1 DEF Fresh, runner, clientVars, ChannelTyped
  <2>5. QED
    BY <2>2, <2>3, <2>4 DEF UpTypeInv
<1>3. CASE ~CapturePacket(r)
  <2>1. UNCHANGED <<runs, clientVars, packets, captured, spoolVars>>
    BY <1>3 DEF Capturing, Watching, CaptureStops, CaptureCloses, WatchBegins, WatchDone, WatchGets,
        WatchFails, runner, captureVars, history
  <2>2. ClientTyped' /\ ChannelTyped' /\ QueueTyped'
    BY <1>1, <2>1, ClientFrame, ChannelFrame, QueueFrame
  <2>3. RunnerTyped' /\ \A s \in Runs : capture[s] = "none" => capture'[s] = "none"
    <3>1. CASE CaptureStops(r)
      BY <1>1, <3>1 DEF CaptureStops, RunnerTyped, runner, watchVars
    <3>2. CASE CaptureCloses(r)
      BY <1>1, <3>2 DEF CaptureCloses, RunnerTyped, runner, watchVars
    <3>3. CASE WatchBegins(r)
      BY <1>1, <3>3 DEF WatchBegins, RunnerTyped, runner, captureVars
    <3>4. CASE WatchDone(r)
      BY <1>1, <3>4 DEF WatchDone, RunnerTyped, runner, captureVars
    <3>5. CASE WatchGets(r)
      BY <1>1, <3>5 DEF WatchGets, RunnerTyped, runner
    <3>6. CASE WatchFails(r)
      <4>1. StoppedLocked \in [Runs -> BOOLEAN]
        BY <1>1, StoppedType DEF RunnerTyped
      <4>2. /\ watcher' = [watcher EXCEPT ![r] = "done"]
            /\ state' \in {state, "failed"} /\ cancelled' \in {cancelled, StoppedLocked}
            /\ UNCHANGED <<params, cancelFn, live, runs, captureVars, watched>>
        BY <3>6 DEF WatchFails
      <4>3. QED
        BY <1>1, <4>1, <4>2 DEF RunnerTyped, States, captureVars
    <3>7. QED
      BY <1>3, <3>1, <3>2, <3>3, <3>4, <3>5, <3>6 DEF Capturing, Watching
  <2>4. Fresh'
    BY <1>1, <2>1, <2>3 DEF Fresh, clientVars
  <2>5. QED
    BY <2>2, <2>3, <2>4 DEF UpTypeInv
<1>4. QED
  BY <1>2, <1>3

\* A batch of what the queue has next.
LEMMA BatchTaken ==
    ASSUME ClientTyped, QueueTyped, NEW r \in Runs, NEW n \in Nat, TakesBatch(r, n)
    PROVE  \E m \in Nat :
             /\ m <= n /\ nextIdx + m <= Len(queue) /\ nextIdx' = nextIdx + m
             /\ SubSeq(queue, nextIdx + 1, nextIdx + m) \in Seq(Packet)
             /\ Len(SubSeq(queue, nextIdx + 1, nextIdx + m)) = m
             /\ \A i \in 1 .. m : SubSeq(queue, nextIdx + 1, nextIdx + m)[i] = queue[nextIdx + i]
             /\ pending' = [pending EXCEPT ![r] = pending[r] \o SubSeq(queue, nextIdx + 1, nextIdx + m)]
             /\ client' = [client EXCEPT ![r] = IF Len(pending'[r]) >= BatchSize THEN "send" ELSE "wait"]
<1>1. queue \in Seq(Packet) /\ Len(queue) \in Nat /\ nextIdx \in Nat /\ nextIdx <= Len(queue)
  BY DEF QueueTyped
<1>2. PICK m \in IF Len(queue) - nextIdx = 0 THEN {0} ELSE 1 .. Lesser(n, Len(queue) - nextIdx) :
        /\ nextIdx' = nextIdx + m
        /\ pending' = [pending EXCEPT ![r] = pending[r] \o SubSeq(queue, nextIdx + 1, nextIdx + m)]
        /\ client' = [client EXCEPT ![r] = IF Len(pending'[r]) >= BatchSize THEN "send" ELSE "wait"]
  BY Zenon DEF TakesBatch, WhenFull
<1>3. m \in Nat /\ m <= n /\ nextIdx + m <= Len(queue)
  BY <1>1, <1>2 DEF Lesser
<1>4. /\ SubSeq(queue, nextIdx + 1, nextIdx + m) \in Seq(Packet)
      /\ Len(SubSeq(queue, nextIdx + 1, nextIdx + m)) = m
      /\ \A i \in 1 .. m : SubSeq(queue, nextIdx + 1, nextIdx + m)[i] = queue[nextIdx + i]
  <2>1. PICK a, b \in Int : a = nextIdx + 1 /\ b = nextIdx + m
    BY <1>1, <1>3
  <2>2. \A i \in a .. b : queue[i] \in Packet
    BY <1>1, <1>3, <2>1
  <2>3. /\ SubSeq(queue, a, b) \in Seq(Packet)
        /\ Len(SubSeq(queue, a, b)) = (IF a <= b THEN b - a + 1 ELSE 0)
        /\ \A i \in 1 .. (b - a + 1) : SubSeq(queue, a, b)[i] = queue[a + i - 1]
    BY <2>1, <2>2, SubSeqProperties
  <2>4. (IF a <= b THEN b - a + 1 ELSE 0) = m /\ b - a + 1 = m /\ \A i \in 1 .. m : a + i - 1 = nextIdx + i
    BY ONLY <1>1, <1>3, <2>1
  <2>5. \A i \in 1 .. m : SubSeq(queue, a, b)[i] = queue[nextIdx + i]
    BY ONLY <2>3, <2>4
  <2>6. QED
    BY <2>1, <2>3, <2>4, <2>5
<1>5. QED
  BY <1>2, <1>3, <1>4

\* Only a run that was started has a client that moves.
LEMMA FreshKept ==
    ASSUME Fresh, client \in [Runs -> Clients], NEW r \in Runs, client[r] # "none", NEW c,
           client' = [client EXCEPT ![r] = c], UNCHANGED <<runs, capture>>,
           \A s \in Runs : s # r => packets'[s] = packets[s]
    PROVE  Fresh'
BY DEF Fresh

\* Polling and topping up keep the types.
LEMMA UpTypeBatch ==
    ASSUME UpTypeInv, NEW r \in Runs, NEW n \in Nat, n + Len(pending[r]) <= BatchSize, TakesBatch(r, n),
           client[r] \in {"poll", "topup"},
           UNCHANGED <<runner, cancelled, captureVars, watchVars, stream, wire, queue, history>>
    PROVE  UpTypeInv'
<1>1. RunnerTyped /\ ClientTyped /\ ChannelTyped /\ QueueTyped /\ Fresh
  BY DEF UpTypeInv
<1>2. PICK m \in Nat :
        /\ m <= n /\ nextIdx + m <= Len(queue) /\ nextIdx' = nextIdx + m
        /\ SubSeq(queue, nextIdx + 1, nextIdx + m) \in Seq(Packet)
        /\ Len(SubSeq(queue, nextIdx + 1, nextIdx + m)) = m
        /\ pending' = [pending EXCEPT ![r] = pending[r] \o SubSeq(queue, nextIdx + 1, nextIdx + m)]
        /\ client' = [client EXCEPT ![r] = IF Len(pending'[r]) >= BatchSize THEN "send" ELSE "wait"]
  BY <1>1, BatchTaken
<1>3. RunnerTyped' /\ ChannelTyped'
  BY <1>1, RunnerFrame, ChannelFrame DEF captureVars, history
<1>4. QueueTyped'
  <2>1. nextIdx \in Nat
    BY <1>1 DEF QueueTyped
  <2>2. QED
    BY <1>1, <1>2, <2>1 DEF QueueTyped
<1>5. PICK s \in Seq(Packet) : s = SubSeq(queue, nextIdx + 1, nextIdx + m) /\ Len(s) = m
  BY <1>2
<1>6. pending[r] \o s \in Seq(Packet) /\ Len(pending[r] \o s) <= BatchSize
  <2>1. pending[r] \in Seq(Packet) /\ Len(pending[r]) \in Nat
    BY <1>1 DEF ClientTyped
  <2>2. pending[r] \o s \in Seq(Packet) /\ Len(pending[r] \o s) = Len(pending[r]) + Len(s)
    BY <1>5, <2>1, ConcatProperties
  <2>3. m \in Nat /\ m <= n /\ Len(s) = m /\ n \in Nat /\ n + Len(pending[r]) <= BatchSize /\ BatchSize \in Nat
    BY <1>2, <1>5, UpFacts
  <2>4. QED
    BY ONLY <2>1, <2>2, <2>3
<1>7. ClientTyped'
  <2>1. pending' = [pending EXCEPT ![r] = pending[r] \o s]
    BY <1>2, <1>5
  <2>2. client' \in {[client EXCEPT ![r] = "send"], [client EXCEPT ![r] = "wait"]}
    BY <1>2
  <2>3. QED
    BY <1>1, <1>6, <2>1, <2>2 DEF ClientTyped, Clients, Emptied
<1>8. Fresh'
  <2>1. PICK c : client' = [client EXCEPT ![r] = c]
    BY <1>2
  <2>2. client \in [Runs -> Clients] /\ client[r] # "none" /\ UNCHANGED <<runs, capture, packets>>
    BY <1>1 DEF ClientTyped, runner, captureVars
  <2>3. QED
    BY ONLY <1>1, <2>1, <2>2, FreshKept
<1>9. QED
  BY <1>3, <1>4, <1>7, <1>8 DEF UpTypeInv

\* So does a step of the client that leaves the queue in order and takes nothing
\* from it.
LEMMA UpTypeMove ==
    ASSUME UpTypeInv, NEW r \in Runs, NEW c \in Clients, client[r] # "none",
           client' = [client EXCEPT ![r] = c],
           pending' \in {pending, [pending EXCEPT ![r] = << >>]}, c \in Emptied => pending'[r] = << >>,
           stream' \in [Runs -> {"up", "broken"}], wire' \in [Runs -> Seq(Seq(Packet))], QueueTyped',
           UNCHANGED <<runner, cancelled, captureVars, watchVars, captured>>
    PROVE  UpTypeInv'
<1>1. RunnerTyped /\ ClientTyped /\ ChannelTyped /\ QueueTyped /\ Fresh
  BY DEF UpTypeInv
<1>2. RunnerTyped' /\ ChannelTyped'
  BY <1>1, RunnerFrame, ChannelFrame DEF captureVars
<1>3. ClientTyped'
  <2>1. << >> \in Seq(Packet) /\ Len(<< >>) = 0 /\ 0 <= BatchSize
    BY UpFacts
  <2>2. pending' \in [Runs -> Seq(Packet)] /\ \A s \in Runs : Len(pending'[s]) <= BatchSize
    BY <1>1, <2>1 DEF ClientTyped
  <2>3. \A s \in Runs : client'[s] \in Emptied => pending'[s] = << >>
    BY <1>1 DEF ClientTyped
  <2>4. client' \in [Runs -> Clients]
    BY <1>1 DEF ClientTyped
  <2>5. QED
    BY <2>2, <2>3, <2>4 DEF ClientTyped
<1>4. Fresh'
  <2>1. client \in [Runs -> Clients] /\ UNCHANGED <<runs, capture, packets>>
    BY <1>1 DEF ClientTyped, runner, captureVars
  <2>2. QED
    BY <1>1, <2>1, FreshKept
<1>5. QED
  BY <1>2, <1>3, <1>4 DEF UpTypeInv

\* A stream that is cut carries nothing.
LEMMA CutTyped ==
    ASSUME ClientTyped, NEW r \in Runs, Cut(r)
    PROVE  stream' \in [Runs -> {"up", "broken"}] /\ wire' \in [Runs -> Seq(Seq(Packet))]
<1>1. << >> \in Seq(Seq(Packet))
  OBVIOUS
<1>2. QED
  BY <1>1 DEF ClientTyped, Cut

\* What is left of the queue.
LEMMA Confirmed ==
    ASSUME QueueTyped, NEW k \in Nat, k <= nextIdx
    PROVE  /\ SubSeq(queue, k + 1, Len(queue)) \in Seq(Packet)
           /\ Len(SubSeq(queue, k + 1, Len(queue))) = Len(queue) - k
           /\ \A i \in 1 .. Len(queue) - k : SubSeq(queue, k + 1, Len(queue))[i] = queue[k + i]
<1>1. /\ queue \in Seq(Packet) /\ Len(queue) \in Nat /\ nextIdx \in Nat /\ nextIdx <= Len(queue)
      /\ k \in Nat /\ k <= nextIdx
  BY DEF QueueTyped
<1>2. PICK a, b \in Int : a = k + 1 /\ b = Len(queue)
  BY <1>1
<1>3. \A i \in a .. b : queue[i] \in Packet
  BY <1>1, <1>2
<1>4. /\ SubSeq(queue, a, b) \in Seq(Packet)
      /\ Len(SubSeq(queue, a, b)) = (IF a <= b THEN b - a + 1 ELSE 0)
      /\ \A i \in 1 .. (b - a + 1) : SubSeq(queue, a, b)[i] = queue[a + i - 1]
  BY <1>2, <1>3, SubSeqProperties
<1>5. (IF a <= b THEN b - a + 1 ELSE 0) = b - k /\ b - a + 1 = b - k /\ \A i \in 1 .. b - k : a + i - 1 = k + i
  BY ONLY <1>1, <1>2
<1>6. QED
  BY <1>2, <1>4, <1>5

\* A confirmation leaves a queue.
LEMMA ConfirmTyped ==
    ASSUME QueueTyped, NEW k \in Nat, k <= nextIdx,
           queue' = SubSeq(queue, k + 1, Len(queue)), nextIdx' = nextIdx - k
    PROVE  QueueTyped'
<1>1. queue \in Seq(Packet) /\ Len(queue) \in Nat /\ nextIdx \in Nat /\ nextIdx <= Len(queue)
      /\ Len(queue) <= Quota /\ Quota \in Nat
  BY UpFacts DEF QueueTyped
<1>2. queue' \in Seq(Packet) /\ Len(queue') = Len(queue) - k
  BY Confirmed
<1>3. nextIdx' \in Nat /\ nextIdx' <= Len(queue') /\ Len(queue') <= Quota
  BY <1>1, <1>2
<1>4. QED
  BY <1>2, <1>3 DEF QueueTyped

\* A packet goes from the channel into the queue, or is dropped.
LEMMA UpTypeSpools ==
    ASSUME UpTypeInv, NEW r \in Runs, SpoolsPacket(r)
    PROVE  UpTypeInv'
<1>1. RunnerTyped /\ ClientTyped /\ ChannelTyped /\ QueueTyped /\ Fresh
  BY DEF UpTypeInv
<1>2. /\ client[r] = "wait" /\ packets[r] # << >>
      /\ packets' = [packets EXCEPT ![r] = Tail(packets[r])]
      /\ ((Len(queue) < Quota /\ queue' = Append(queue, Head(packets[r]))) \/ queue' = queue)
      /\ \/ client' \in {[client EXCEPT ![r] = "wait"], [client EXCEPT ![r] = "topup"]}
         \/ client' = [client EXCEPT ![r] = "poll"] /\ pending[r] = << >>
      /\ UNCHANGED <<runner, cancelled, capture, filter, capEnded, watchVars, pending, stream,
                     wire, nextIdx, captured>>
  BY DEF SpoolsPacket
<1>3. Head(packets[r]) \in Packet /\ Tail(packets[r]) \in Seq(Packet) /\ Len(Tail(packets[r])) <= ChanCap
  <2>1. packets[r] \in Seq(Packet) /\ Len(packets[r]) \in Nat /\ Len(packets[r]) <= ChanCap
    BY <1>1 DEF ChannelTyped
  <2>2. Len(Tail(packets[r])) = Len(packets[r]) - 1 /\ Tail(packets[r]) \in Seq(Packet) /\ Head(packets[r]) \in Packet
    BY ONLY <1>2, <2>1, HeadTailProperties
  <2>3. QED
    BY <2>1, <2>2, UpFacts
<1>4. RunnerTyped' /\ ChannelTyped'
  <2>1. ChannelTyped'
    BY <1>1, <1>2, <1>3 DEF ChannelTyped
  <2>2. QED
    BY <1>1, <1>2, <2>1, RunnerFrame
<1>5. ClientTyped'
  BY <1>1, <1>2 DEF ClientTyped, Clients, Emptied
<1>6. QueueTyped'
  <2>1. queue \in Seq(Packet) /\ Len(queue) \in Nat /\ Len(queue) <= Quota /\ nextIdx \in Nat /\ nextIdx <= Len(queue)
        /\ Quota \in Nat
    BY <1>1, UpFacts DEF QueueTyped
  <2>2. Append(queue, Head(packets[r])) \in Seq(Packet) /\ Len(Append(queue, Head(packets[r]))) = Len(queue) + 1
    BY ONLY <1>3, <2>1, AppendProperties
  <2>3. queue' \in Seq(Packet) /\ Len(queue') \in Nat /\ Len(queue') <= Quota /\ Len(queue) <= Len(queue')
    BY <1>2, <2>1, <2>2
  <2>4. QED
    BY <1>2, <2>1, <2>3 DEF QueueTyped
<1>7. Fresh'
  <2>1. PICK c : client' = [client EXCEPT ![r] = c]
    BY <1>2
  <2>2. client \in [Runs -> Clients] /\ client[r] # "none" /\ UNCHANGED <<runs, capture>>
        /\ \A s \in Runs : s # r => packets'[s] = packets[s]
    BY <1>1, <1>2 DEF ClientTyped, ChannelTyped, runner
  <2>3. QED
    BY ONLY <1>1, <2>1, <2>2, FreshKept
<1>8. QED
  BY <1>4, <1>5, <1>6, <1>7 DEF UpTypeInv

\* So do the client of a run and the network.
LEMMA UpTypeClient ==
    ASSUME UpTypeInv, NEW r \in Runs, Ingesting(r) \/ Connecting(r) \/ Receives(r) \/ Breaks(r)
    PROVE  UpTypeInv'
<1>1. RunnerTyped /\ ClientTyped /\ ChannelTyped /\ QueueTyped /\ Fresh
  BY DEF UpTypeInv
<1>2. /\ stream \in [Runs -> {"up", "broken"}] /\ wire \in [Runs -> Seq(Seq(Packet))]
      /\ pending \in [Runs -> Seq(Packet)] /\ Len(pending[r]) \in Nat /\ Len(pending[r]) <= BatchSize
      /\ client[r] \in Emptied => pending[r] = << >>
      /\ nextIdx \in Nat /\ nextIdx <= Len(queue) /\ [pending EXCEPT ![r] = << >>][r] = << >>
  BY <1>1 DEF ClientTyped, QueueTyped
<1>3. CASE Wakes(r) \/ ConnectFails(r) \/ TimerFires(r) \/ SeesCancel(r)
  <2>1. PICK c \in Clients : client' = [client EXCEPT ![r] = c] /\ (c \in Emptied => pending[r] = << >>)
    BY <1>2, <1>3 DEF Wakes, ConnectFails, TimerFires, SeesCancel, Clients, Emptied
  <2>2. client[r] # "none" /\ UNCHANGED <<runner, cancelled, captureVars, watchVars, captured, pending, stream, wire, spoolVars>>
    BY <1>3 DEF Wakes, ConnectFails, TimerFires, SeesCancel, history
  <2>3. QueueTyped'
    BY <1>1, <2>2, QueueFrame
  <2>4. QED
    BY <1>2, <2>1, <2>2, <2>3, UpTypeMove
<1>4. CASE Connects(r)
  <2>1. /\ client[r] = "connect" /\ client' = [client EXCEPT ![r] = "poll"]
        /\ stream' = [stream EXCEPT ![r] = "up"] /\ wire' = [wire EXCEPT ![r] = << >>] /\ nextIdx' = 0
        /\ UNCHANGED <<runner, cancelled, captureVars, watchVars, pending, queue, captured>>
    BY <1>4 DEF Connects, Requeued, history
  <2>2. QueueTyped'
    BY <1>1, <2>1 DEF QueueTyped
  <2>3. "poll" \in Clients /\ pending[r] = << >> /\ << >> \in Seq(Seq(Packet))
    BY <1>2, <2>1 DEF Clients, Emptied
  <2>4. stream' \in [Runs -> {"up", "broken"}] /\ wire' \in [Runs -> Seq(Seq(Packet))]
    BY <1>2, <2>1, <2>3
  <2>5. QED
    BY <2>1, <2>2, <2>3, <2>4, UpTypeMove
<1>5. CASE Polls(r)
  BY <1>2, <1>5, UpFacts, UpTypeBatch DEF Polls, Emptied
<1>6. CASE TopsUp(r)
  <2>1. Len(pending[r]) \in Nat /\ Len(pending[r]) <= BatchSize /\ BatchSize \in Nat
    BY <1>2, UpFacts
  <2>2. PICK n \in Nat : n = Room(r) /\ n + Len(pending[r]) <= BatchSize
    <3>1. Room(r) \in Nat /\ Room(r) + Len(pending[r]) <= BatchSize
      BY ONLY <2>1 DEF Room
    <3>2. QED
      BY ONLY <3>1
  <2>3. TakesBatch(r, n)
    BY <1>6, <2>2 DEF TopsUp
  <2>4. QED
    BY <1>6, <2>2, <2>3, UpTypeBatch DEF TopsUp
<1>7. CASE SpoolsPacket(r)
  BY <1>7, UpTypeSpools
<1>8. CASE SendFails(r)
  <2>1. PICK c \in Clients : client' = [client EXCEPT ![r] = c]
    BY <1>8 DEF SendFails, Clients
  <2>2. client[r] # "none" /\ UNCHANGED <<runner, cancelled, captureVars, watchVars, captured, stream, wire, spoolVars>>
        /\ pending' = [pending EXCEPT ![r] = << >>]
    BY <1>8 DEF SendFails, history
  <2>3. QueueTyped'
    BY <1>1, <2>2, QueueFrame
  <2>4. QED
    BY <1>2, <2>1, <2>2, <2>3, UpTypeMove
<1>9. CASE Sends(r)
  <2>1. PICK c \in {"ack", "flushack"} : client' = [client EXCEPT ![r] = c]
    BY <1>9 DEF Sends
  <2>2. client[r] # "none" /\ UNCHANGED <<runner, cancelled, captureVars, watchVars, captured, pending, stream, spoolVars>>
        /\ wire' = [wire EXCEPT ![r] = Append(wire[r], pending[r])]
    BY <1>9 DEF Sends
  <2>3. QueueTyped'
    BY <1>1, <2>2, QueueFrame
  <2>4. c \in Clients /\ c \notin Emptied
    BY DEF Clients, Emptied
  <2>5. wire' \in [Runs -> Seq(Seq(Packet))]
    <3>1. wire[r] \in Seq(Seq(Packet)) /\ pending[r] \in Seq(Packet)
      BY <1>2
    <3>2. Append(wire[r], pending[r]) \in Seq(Seq(Packet))
      BY ONLY <3>1, AppendProperties
    <3>3. QED
      BY ONLY <1>2, <2>2, <3>2
  <2>6. QED
    BY <1>2, <2>1, <2>2, <2>3, <2>4, <2>5, UpTypeMove
<1>10. CASE Confirms(r)
  <2>1. PICK k \in Nat : k = Lesser(Len(pending[r]), nextIdx) /\ k <= nextIdx
    BY <1>2 DEF Lesser
  <2>2. PICK c \in {"poll", "closing"} : client' = [client EXCEPT ![r] = c]
    BY <1>10 DEF Confirms
  <2>3. client[r] # "none" /\ UNCHANGED <<runner, cancelled, captureVars, watchVars, captured, stream, wire>>
        /\ pending' = [pending EXCEPT ![r] = << >>]
        /\ queue' = SubSeq(queue, k + 1, Len(queue)) /\ nextIdx' = nextIdx - k
    BY <1>10, <2>1 DEF Confirms
  <2>4. QueueTyped'
    BY <1>1, <2>1, <2>3, ConfirmTyped
  <2>5. c \in Clients
    BY DEF Clients
  <2>6. QED
    BY <1>2, <2>2, <2>3, <2>4, <2>5, UpTypeMove
<1>11. CASE Finishes(r)
  <2>1. client[r] = "closing" /\ client' = [client EXCEPT ![r] = "done"] /\ Cut(r)
        /\ UNCHANGED <<runner, cancelled, captureVars, watchVars, captured, pending, spoolVars>>
    BY <1>11 DEF Finishes
  <2>2. QueueTyped' /\ stream' \in [Runs -> {"up", "broken"}] /\ wire' \in [Runs -> Seq(Seq(Packet))]
    BY <1>1, <2>1, QueueFrame, CutTyped
  <2>3. "done" \in Clients /\ pending[r] = << >>
    BY <1>2, <2>1 DEF Clients, Emptied
  <2>4. QED
    BY <2>1, <2>2, <2>3, UpTypeMove
<1>12. CASE Receives(r) \/ Breaks(r)
  <2>1. UNCHANGED <<runner, cancelled, captureVars, watchVars, client, pending, spoolVars, captured>>
    BY <1>12 DEF Receives, Breaks
  <2>2. stream' \in [Runs -> {"up", "broken"}] /\ wire' \in [Runs -> Seq(Seq(Packet))]
    <3>1. CASE Breaks(r)
      BY <1>1, <3>1, CutTyped DEF Breaks
    <3>2. CASE Receives(r)
      <4>1. wire[r] # << >> /\ wire' = [wire EXCEPT ![r] = Tail(wire[r])] /\ stream' = stream
        BY <3>2 DEF Receives
      <4>2. wire[r] \in Seq(Seq(Packet))
        BY <1>2
      <4>3. Tail(wire[r]) \in Seq(Seq(Packet))
        BY ONLY <4>1, <4>2, HeadTailProperties
      <4>4. QED
        BY <1>2, <4>1, <4>3
    <3>3. QED
      BY <1>12, <3>1, <3>2
  <2>3. ClientTyped'
    BY <1>1, <2>1, <2>2 DEF ClientTyped
  <2>4. RunnerTyped' /\ ChannelTyped' /\ QueueTyped' /\ Fresh'
    BY <1>1, <2>1, RunnerFrame, ChannelFrame, QueueFrame DEF captureVars, Fresh, runner
  <2>5. QED
    BY <2>3, <2>4 DEF UpTypeInv
<1>13. QED
  BY <1>3, <1>4, <1>5, <1>6, <1>7, <1>8, <1>9, <1>10, <1>11, <1>12 DEF Ingesting, Connecting

\* The types hold whatever the number of clients.
LEMMA UpTypeStep ==
    ASSUME UpTypeInv, [UpNext]_upVars
    PROVE  UpTypeInv'
<1>1. CASE UpNext
  BY <1>1, UpTypeControl, UpTypeCapture, UpTypeClient DEF UpNext
<1>2. CASE UNCHANGED upVars
  <2>1. RunnerTyped /\ ClientTyped /\ ChannelTyped /\ QueueTyped /\ Fresh
    BY DEF UpTypeInv
  <2>2. UNCHANGED <<runner, cancelled, captureVars, watchVars, clientVars, spoolVars, captured>>
    BY <1>2 DEF upVars, history
  <2>3. RunnerTyped' /\ ChannelTyped' /\ QueueTyped' /\ ClientTyped'
    BY <2>1, <2>2, RunnerFrame, ChannelFrame, QueueFrame, ClientFrame DEF captureVars
  <2>4. Fresh'
    BY <2>1, <2>2 DEF captureVars, Fresh, runner, clientVars
  <2>5. QED
    BY <2>3, <2>4 DEF UpTypeInv
<1>3. QED
  BY <1>1, <1>2

\* The type part of the property.
LEMMA UpTypeOf ==
    ASSUME UpTypeInv
    PROVE  UpTypeOK
<1>1. RunnerTyped /\ ClientTyped /\ ChannelTyped /\ QueueTyped
  BY DEF UpTypeInv
<1>2. nextIdx \in 0 .. Len(queue)
  BY <1>1 DEF QueueTyped
<1>3. QED
  BY <1>1, <1>2 DEF RunnerTyped, ClientTyped, ChannelTyped, QueueTyped, Packet, Clients, UpTypeOK

(***************************************************************************)
(* The runner tells what its current run does.                             *)
(***************************************************************************)
\* At first there is no run.
LEMMA RunInit == UpInit => RunInv
<1>1. SUFFICES ASSUME UpInit PROVE RunInv
  OBVIOUS
<1>2. MaxUpRuns \in Nat \ {0} /\ \A r \in 1 .. 0 : FALSE
  BY UpFacts
<1>3. RunsTruthful
  BY <1>1, <1>2 DEF UpInit, RunsTruthful, RunningAsReported, NoOrphanRun
<1>4. QED
  BY <1>1, <1>2, <1>3 DEF UpInit, RunInv, States, None

\* The steps that leave the runner and the contexts alone.
LEMMA RunFrame == ASSUME RunInv, UNCHANGED <<runner, cancelled, filter>> PROVE RunInv'
BY DEF RunInv, runner, RunsTruthful, RunningAsReported, NoOrphanRun

\* Starts, failed starts, updates and stops.
LEMMA RunControl ==
    ASSUME RunInv, Control \/ Stop
    PROVE  RunInv'
<1>1. /\ runs \in 0 .. MaxUpRuns /\ cancelFn \in 0 .. runs /\ MaxUpRuns \in Nat \ {0}
      /\ cancelled \in [Runs -> BOOLEAN] /\ filter \in [Runs -> Params \cup {NoParams}]
      /\ \A r \in Runs : r > runs => ~cancelled[r]
      /\ state = "running" => runs # 0 /\ live = runs
      /\ state = "running" => cancelFn = runs /\ ~cancelled[runs] /\ filter[runs] = params
      /\ \A r \in 1 .. runs : cancelled[r] \/ (r = cancelFn /\ state = "running")
  BY UpFacts DEF RunInv, RunsTruthful, RunningAsReported, NoOrphanRun
<1>2. /\ StoppedLocked \in [Runs -> BOOLEAN]
      /\ \A s \in Runs : StoppedLocked[s] = (cancelled[s] \/ s = cancelFn)
  <2>1. cancelFn \in 0 .. MaxUpRuns
    BY <1>1
  <2>2. QED
    BY <1>1, <2>1, StoppedType
<1>3. \A s \in 1 .. runs : s \in Runs /\ StoppedLocked[s]
  <2>1. \A s \in 1 .. runs : s \in Runs
    BY <1>1 DEF Runs
  <2>2. QED
    BY <1>1, <1>2, <2>1
<1>4. ASSUME NEW p \in Params, Start(p)
      PROVE  RunInv'
  <2>1. PICK r : r = runs + 1
    OBVIOUS
  <2>2. /\ runs < MaxUpRuns /\ ~(state = "running" /\ params = p)
        /\ runs' = r /\ params' = p /\ cancelFn' = r /\ live' = r /\ state' = "running"
        /\ cancelled' = StoppedLocked /\ filter' = [filter EXCEPT ![r] = p]
    BY <1>4, <2>1 DEF Start, AlreadyRunning
  <2>3. r \in 0 .. MaxUpRuns /\ r \in Runs /\ r # 0 /\ \A s \in 1 .. r : s = r \/ s \in 1 .. runs
    BY <1>1, <2>1, <2>2 DEF Runs
  <2>4. \A s \in Runs : s >= r => ~StoppedLocked[s]
    <3>1. \A s \in Runs : s >= r => s > runs /\ s # cancelFn
      BY <1>1, <2>1 DEF Runs
    <3>2. QED
      BY <1>1, <1>2, <3>1
  <2>5. QED
    BY <1>1, <1>2, <1>3, <2>2, <2>3, <2>4 DEF RunInv, RunsTruthful, RunningAsReported, NoOrphanRun, States
<1>5. ASSUME NEW p \in Params, StartFails(p)
      PROVE  RunInv'
  <2>1. PICK r : r = runs + 1
    OBVIOUS
  <2>2. /\ runs < MaxUpRuns
        /\ runs' = r /\ params' = p /\ cancelFn' = r /\ live' = None /\ state' = "failed"
        /\ cancelled' = [StoppedLocked EXCEPT ![r] = TRUE] /\ filter' = filter
    BY <1>5, <2>1 DEF StartFails, captureVars
  <2>3. r \in 0 .. MaxUpRuns /\ r \in 0 .. r /\ r \in Runs /\ \A s \in 1 .. r : s = r \/ s \in 1 .. runs
    BY <1>1, <2>1, <2>2 DEF Runs
  <2>4. \A s \in Runs : s > r => ~StoppedLocked[s] /\ s # r
    <3>1. \A s \in Runs : s > r => s > runs /\ s # cancelFn /\ s # r
      BY <1>1, <2>1 DEF Runs
    <3>2. QED
      BY <1>1, <1>2, <3>1
  <2>5. QED
    BY <1>1, <1>2, <1>3, <2>2, <2>3, <2>4 DEF RunInv, RunsTruthful, RunningAsReported, NoOrphanRun, States
<1>6. ASSUME NEW p \in Params, UpdateFilter(p)
      PROVE  RunInv'
  <2>1. /\ state = "running" /\ filter' = [filter EXCEPT ![live] = p] /\ params' = p
        /\ UNCHANGED <<state, cancelFn, live, runs, cancelled>>
    BY <1>6 DEF UpdateFilter, NewParams
  <2>2. runs \in Runs
    BY <1>1, <2>1 DEF Runs
  <2>3. QED
    BY <1>1, <2>1, <2>2 DEF RunInv, RunsTruthful, RunningAsReported, NoOrphanRun
<1>7. ASSUME Stop
      PROVE  RunInv'
  <2>1. /\ cancelled' = StoppedLocked /\ cancelFn' = None /\ live' = None /\ state' = "stopped"
        /\ UNCHANGED <<params, runs, filter>>
    BY <1>7 DEF Stop, captureVars
  <2>2. \A s \in Runs : s > runs => ~StoppedLocked[s]
    <3>1. \A s \in Runs : s > runs => s # cancelFn
      BY <1>1 DEF Runs
    <3>2. QED
      BY <1>1, <1>2, <3>1
  <2>3. QED
    BY <1>1, <1>2, <1>3, <2>1, <2>2 DEF RunInv, RunsTruthful, RunningAsReported, NoOrphanRun, States, None
<1>8. QED
  BY <1>4, <1>5, <1>6, <1>7 DEF Control

\* A watcher fails whichever run is current.
LEMMA RunWatched ==
    ASSUME RunInv, NEW r \in Runs, WatchFails(r)
    PROVE  RunInv'
<1>1. UNCHANGED <<params, cancelFn, live, runs, filter>>
  BY DEF WatchFails, captureVars
<1>2. CASE UNCHANGED <<state, cancelled>>
  BY <1>1, <1>2, RunFrame DEF runner
<1>3. CASE state' = "failed" /\ cancelled' = StoppedLocked /\ state = "running"
  <2>1. /\ runs \in 0 .. MaxUpRuns /\ cancelFn \in 0 .. runs /\ MaxUpRuns \in Nat \ {0}
        /\ cancelled \in [Runs -> BOOLEAN] /\ filter \in [Runs -> Params \cup {NoParams}]
        /\ \A s \in Runs : s > runs => ~cancelled[s]
        /\ cancelFn = runs
        /\ \A s \in 1 .. runs : cancelled[s] \/ s = cancelFn
    BY <1>3, UpFacts DEF RunInv, RunsTruthful, RunningAsReported, NoOrphanRun
  <2>2. /\ StoppedLocked \in [Runs -> BOOLEAN]
        /\ \A s \in Runs : StoppedLocked[s] = (cancelled[s] \/ s = cancelFn)
    <3>1. cancelFn \in 0 .. MaxUpRuns
      BY <2>1
    <3>2. QED
      BY <2>1, <3>1, StoppedType
  <2>3. /\ \A s \in 1 .. runs : s \in Runs /\ StoppedLocked[s]
        /\ \A s \in Runs : s > runs => ~StoppedLocked[s]
    <3>1. \A s \in 1 .. runs : s \in Runs
      BY <2>1 DEF Runs
    <3>2. \A s \in Runs : s > runs => s # cancelFn
      BY <2>1 DEF Runs
    <3>3. QED
      BY <2>1, <2>2, <3>1, <3>2
  <2>4. QED
    BY <1>1, <1>3, <2>1, <2>2, <2>3 DEF RunInv, RunsTruthful, RunningAsReported, NoOrphanRun, States
<1>4. QED
  BY <1>2, <1>3 DEF WatchFails, FailsNow

\* Every step keeps the runner truthful.
LEMMA RunStep ==
    ASSUME RunInv, [UpNext]_upVars
    PROVE  RunInv'
<1>1. CASE UNCHANGED upVars
  BY <1>1, RunFrame DEF upVars, captureVars
<1>2. CASE UpNext
  <2>1. CASE Control \/ Stop
    BY <2>1, RunControl
  <2>2. ASSUME NEW r \in Runs, Capturing(r) \/ Watching(r)
        PROVE  RunInv'
    <3>1. CASE WatchFails(r)
      BY <3>1, RunWatched
    <3>2. CASE ~WatchFails(r)
      BY <2>2, <3>2, RunFrame DEF Capturing, Watching, CapturePacket, CaptureStops, CaptureCloses,
          WatchBegins, WatchDone, WatchGets, captureVars
    <3>3. QED
      BY <3>1, <3>2
  <2>3. ASSUME NEW r \in Runs, Ingesting(r) \/ Connecting(r) \/ Receives(r) \/ Breaks(r)
        PROVE  RunInv'
    <3>1. UNCHANGED <<runner, cancelled, filter>>
      BY <2>3 DEF Ingesting, Connecting, Receives, Breaks, Wakes, Connects, ConnectFails, Polls, TopsUp,
          SpoolsPacket, TimerFires, SeesCancel, SendFails, Sends, Confirms, Finishes, captureVars
    <3>2. QED
      BY <3>1, RunFrame
  <2>4. QED
    BY <1>2, <2>1, <2>2, <2>3 DEF UpNext
<1>3. QED
  BY <1>1, <1>2

\* For any number of runs and updates: while the runner says running, the run
\* it would cancel is the last one, which captures what the runner reports, and
\* every other run is cancelled (captureRunner.Start, UpdateFilter, Stop,
\* watchCapEnded).
THEOREM RunsTruthfulSafe == UpSpec => []RunsTruthful
<1>1. UpInit => RunInv
  BY RunInit
<1>2. RunInv /\ [UpNext]_upVars => RunInv'
  BY RunStep
<1>3. RunInv => RunsTruthful
  BY DEF RunInv
<1>4. QED
  BY <1>1, <1>2, <1>3, PTL DEF UpSpec

(***************************************************************************)
(* Sequences of packets.                                                   *)
(***************************************************************************)
\* The rest of an increasing sequence increases, and all of it comes later.
LEMMA RisingTail ==
    ASSUME NEW S \in SUBSET Nat, NEW s \in Seq(S), s # << >>, Rising(s)
    PROVE  /\ Rising(Tail(s)) /\ Head(s) \in S /\ Head(s) = s[1] /\ Len(Tail(s)) = Len(s) - 1
           /\ \A i \in 1 .. Len(Tail(s)) : Tail(s)[i] = s[i + 1] /\ i + 1 \in 1 .. Len(s) /\ Head(s) < Tail(s)[i]
<1>1. Len(s) \in Nat /\ Len(s) >= 1 /\ \A i \in 1 .. Len(s) : s[i] \in S
  BY EmptySeq
<1>2. /\ Head(s) \in S /\ Head(s) = s[1] /\ Len(Tail(s)) = Len(s) - 1
      /\ \A i \in 1 .. Len(Tail(s)) : Tail(s)[i] = s[i + 1]
  BY HeadTailProperties
<1>3. \A i \in 1 .. Len(Tail(s)) : i + 1 \in 1 .. Len(s) /\ 1 \in 1 .. Len(s) /\ 1 < i + 1 /\ i \in Nat
  BY ONLY <1>1, <1>2
<1>4. \A i \in 1 .. Len(Tail(s)) : Head(s) < Tail(s)[i]
  BY <1>2, <1>3 DEF Rising
<1>5. Rising(Tail(s))
  <2>1. SUFFICES ASSUME NEW i \in 1 .. Len(Tail(s)), NEW j \in 1 .. Len(Tail(s)), i < j
                 PROVE  s[i + 1] < s[j + 1]
    BY <1>2 DEF Rising
  <2>2. i + 1 \in 1 .. Len(s) /\ j + 1 \in 1 .. Len(s) /\ i + 1 < j + 1
    BY <1>3, <2>1
  <2>3. QED
    BY <2>2 DEF Rising
<1>6. QED
  BY <1>2, <1>3, <1>4, <1>5

\* A newer packet at the end.
LEMMA RisingAppend ==
    ASSUME NEW S \in SUBSET Nat, NEW s \in Seq(S), NEW e \in S, Rising(s), \A i \in 1 .. Len(s) : s[i] < e
    PROVE  /\ Rising(Append(s, e)) /\ Len(Append(s, e)) = Len(s) + 1
           /\ \A i \in 1 .. Len(s) : Append(s, e)[i] = s[i]
           /\ Append(s, e)[Len(s) + 1] = e
<1>1. Len(s) \in Nat
  OBVIOUS
<1>2. /\ Len(Append(s, e)) = Len(s) + 1
      /\ \A i \in 1 .. Len(s) : Append(s, e)[i] = s[i]
      /\ Append(s, e)[Len(s) + 1] = e
  BY AppendProperties
<1>3. Rising(Append(s, e))
  <2>1. SUFFICES ASSUME NEW i \in 1 .. Len(s) + 1, NEW j \in 1 .. Len(s) + 1, i < j
                 PROVE  Append(s, e)[i] < Append(s, e)[j]
    BY <1>2 DEF Rising
  <2>2. i \in 1 .. Len(s) /\ (j \in 1 .. Len(s) \/ j = Len(s) + 1)
    BY <1>1, <2>1
  <2>3. QED
    BY <1>2, <2>1, <2>2 DEF Rising
<1>4. QED
  BY <1>2, <1>3

\* What is in a longer sequence.
LEMMA ElemsAppend ==
    ASSUME NEW S, NEW s \in Seq(S), NEW e \in S
    PROVE  Elems(Append(s, e)) = Elems(s) \cup {e}
<1>1. Len(s) \in Nat
  OBVIOUS
<1>2. /\ Len(Append(s, e)) = Len(s) + 1
      /\ \A i \in 1 .. Len(s) : Append(s, e)[i] = s[i]
      /\ Append(s, e)[Len(s) + 1] = e
  BY AppendProperties
<1>3. \A i \in 1 .. Len(s) + 1 : i \in 1 .. Len(s) \/ i = Len(s) + 1
  BY <1>1
<1>4. Len(s) + 1 \in 1 .. Len(s) + 1 /\ \A i \in 1 .. Len(s) : i \in 1 .. Len(s) + 1
  BY <1>1
<1>5. QED
  BY <1>2, <1>3, <1>4 DEF Elems

\* What is in the queue is in what is confirmed of it or in what is left.
LEMMA ElemsSplit ==
    ASSUME QueueTyped, NEW k \in Nat, k <= nextIdx
    PROVE  /\ Elems(queue) = Elems(SubSeq(queue, 1, k)) \cup Elems(SubSeq(queue, k + 1, Len(queue)))
           /\ Len(SubSeq(queue, 1, k)) = k /\ \A i \in 1 .. k : SubSeq(queue, 1, k)[i] = queue[i]
<1>1. queue \in Seq(Packet) /\ Len(queue) \in Nat /\ nextIdx \in Nat /\ nextIdx <= Len(queue)
  BY DEF QueueTyped
<1>2. Len(SubSeq(queue, 1, k)) = k /\ \A i \in 1 .. k : SubSeq(queue, 1, k)[i] = queue[i]
  <2>1. \A i \in 1 .. k : queue[i] \in Packet
    BY <1>1
  <2>2. /\ Len(SubSeq(queue, 1, k)) = (IF 1 <= k THEN k - 1 + 1 ELSE 0)
        /\ \A i \in 1 .. (k - 1 + 1) : SubSeq(queue, 1, k)[i] = queue[1 + i - 1]
    BY <2>1, SubSeqProperties
  <2>3. (IF 1 <= k THEN k - 1 + 1 ELSE 0) = k /\ k - 1 + 1 = k /\ \A i \in 1 .. k : 1 + i - 1 = i
    OBVIOUS
  <2>4. QED
    BY ONLY <2>2, <2>3
<1>3. PICK left : left = SubSeq(queue, k + 1, Len(queue))
  OBVIOUS
<1>4. Len(left) = Len(queue) - k /\ \A i \in 1 .. Len(queue) - k : left[i] = queue[k + i]
  BY <1>3, Confirmed
<1>5. /\ \A i \in 1 .. Len(queue) : i \in 1 .. k \/ (i - k \in 1 .. Len(queue) - k /\ k + (i - k) = i)
      /\ \A i \in 1 .. k : i \in 1 .. Len(queue)
      /\ \A i \in 1 .. Len(queue) - k : k + i \in 1 .. Len(queue)
  BY <1>1
<1>6. PICK first : first = SubSeq(queue, 1, k)
  OBVIOUS
<1>7. Elems(queue) \subseteq Elems(first) \cup Elems(left)
  <2>1. SUFFICES ASSUME NEW i \in 1 .. Len(queue) PROVE queue[i] \in Elems(first) \cup Elems(left)
    BY DEF Elems
  <2>2. CASE i \in 1 .. k
    BY <1>2, <1>6, <2>2 DEF Elems
  <2>3. CASE i - k \in 1 .. Len(queue) - k /\ k + (i - k) = i
    BY <1>4, <2>3 DEF Elems
  <2>4. QED
    BY <1>5, <2>2, <2>3
<1>8. Elems(first) \subseteq Elems(queue) /\ Elems(left) \subseteq Elems(queue)
  BY <1>2, <1>4, <1>5, <1>6 DEF Elems
<1>9. QED
  BY <1>2, <1>3, <1>6, <1>7, <1>8

(***************************************************************************)
(* One client: what is sent, and in what order.                            *)
(***************************************************************************)
\* The parts of the invariant, and the types they rest on.
LEMMA StreamFacts ==
    ASSUME UpTypeInv, StreamInv
    PROVE  /\ client \in [Runs -> Clients] /\ stream \in [Runs -> {"up", "broken"}]
           /\ pending \in [Runs -> Seq(Packet)] /\ wire \in [Runs -> Seq(Seq(Packet))]
           /\ packets \in [Runs -> Seq(Packet)] /\ captured \in Nat
           /\ \A r \in Runs : client[r] \in Emptied => pending[r] = << >>
           /\ \A r \in Runs : Len(wire[r]) \in Nat /\ Len(packets[r]) \in Nat /\ Len(pending[r]) \in Nat
           /\ QueueTyped /\ queue \in Seq(Packet) /\ Len(queue) \in Nat
           /\ nextIdx \in Nat /\ nextIdx <= Len(queue)
           /\ PacketsInOrder /\ QueueHolds /\ InFlight /\ SentFirst /\ Tracked /\ Connected
           /\ ReceivedInOrder /\ WireInOrder
<1>1. ClientTyped /\ ChannelTyped /\ QueueTyped
  BY DEF UpTypeInv
<1>2. captured \in Nat
  BY <1>1, UpFacts DEF ChannelTyped
<1>3. QED
  BY <1>1, <1>2 DEF ClientTyped, ChannelTyped, QueueTyped, StreamInv

\* Of two clients that are neither new nor done there is one.
LEMMA OneOf ==
    ASSUME OneClient, NEW r \in Runs, NEW s \in Runs,
           client[r] \notin {"none", "done"}, client[s] \notin {"none", "done"}
    PROVE  r = s
BY DEF OneClient

\* At first there is nothing.
LEMMA StreamInit == UpInit => StreamInv
<1>1. SUFFICES ASSUME UpInit PROVE StreamInv
  OBVIOUS
<1>2. Len(<< >>) = 0 /\ \A i \in 1 .. 0 : FALSE
  OBVIOUS
<1>3. PacketsInOrder /\ QueueHolds
  BY <1>1, <1>2 DEF UpInit, PacketsInOrder, QueueHolds, Rising, Elems
<1>4. InFlight /\ SentFirst /\ Tracked
  BY <1>1, <1>2 DEF UpInit, InFlight, SentFirst, Tracked, Holding
<1>5. Connected /\ ReceivedInOrder /\ WireInOrder
  BY <1>1, <1>2 DEF UpInit, Connected, ReceivedInOrder, WireInOrder
<1>6. QED
  BY <1>3, <1>4, <1>5 DEF StreamInv

\* The parts that speak of variables a step leaves alone.
LEMMA TrackedFrame == ASSUME Tracked, UNCHANGED <<sent, received, lost, wire>> PROVE Tracked'
BY DEF Tracked, OnWire
\* Likewise for the order of what is under way.
LEMMA WireFrame == ASSUME WireInOrder, UNCHANGED <<wire, spooled, received, acked, lost>> PROVE WireInOrder'
BY DEF WireInOrder, Ahead
\* Likewise for the order of what has arrived.
LEMMA ReceivedFrame == ASSUME ReceivedInOrder, UNCHANGED <<spooled, received, acked, lost>> PROVE ReceivedInOrder'
BY DEF ReceivedInOrder
\* Likewise for the queue.
LEMMA QueueHoldsFrame == ASSUME QueueHolds, UNCHANGED <<queue, spooled, acked, captured>> PROVE QueueHolds'
BY DEF QueueHolds, Rising, Elems
\* What has to hold of what is sent after a step.
LEMMA SentFirstNext ==
    ASSUME acked' \subseteq sent', sent' \subseteq spooled', received' \subseteq sent',
           \A s \in Runs : client'[s] \in {"ack", "flushack"} => Elems(pending'[s]) \subseteq sent',
           \A s \in Runs : \A i \in 1 .. Len(wire'[s]) : Elems(wire'[s][i]) \subseteq sent'
    PROVE  SentFirst'
BY DEF SentFirst, Elems
\* The step leaves the wire alone and confirms or sends nothing.
LEMMA SentFirstFrame ==
    ASSUME SentFirst, UNCHANGED <<wire, sent, received>>, acked' \subseteq sent, spooled \subseteq spooled',
           \A s \in Runs : client'[s] \in {"ack", "flushack"} =>
                               client[s] \in {"ack", "flushack"} /\ pending'[s] = pending[s]
    PROVE  SentFirst'
<1>1. acked' \subseteq sent' /\ sent' \subseteq spooled' /\ received' \subseteq sent'
  BY DEF SentFirst
<1>2. \A s \in Runs : client'[s] \in {"ack", "flushack"} => Elems(pending'[s]) \subseteq sent'
  BY DEF SentFirst
<1>3. \A s \in Runs : \A i \in 1 .. Len(wire'[s]) : Elems(wire'[s][i]) \subseteq sent'
  BY DEF SentFirst
<1>4. QED
  BY <1>1, <1>2, <1>3, SentFirstNext
\* Likewise for the channels.
LEMMA PacketsFrame ==
    ASSUME PacketsInOrder, UNCHANGED <<packets, captured, spooled>>,
           \A r \in Runs : client'[r] \notin {"none", "done"} => client[r] \notin {"none", "done"} \/ packets[r] = << >>
    PROVE  PacketsInOrder'
<1>1. Len(<< >>) = 0 /\ \A i \in 1 .. 0 : FALSE
  OBVIOUS
<1>2. QED
  BY <1>1 DEF PacketsInOrder, Rising

\* A step of the client alone.
LEMMA StreamMove ==
    ASSUME UpTypeInv, StreamInv, NEW r \in Runs, NEW c,
           client' = [client EXCEPT ![r] = c],
           client[r] \notin {"none", "done"} \/ packets[r] = << >>,
           c \in Holding => client[r] \in Holding, c \notin {"ack", "flushack"},
           c \in Detached => stream[r] = "broken",
           UNCHANGED <<pending, stream, wire, packets, captured, queue, nextIdx, spooled, sent, acked, received, lost>>
    PROVE  StreamInv'
<1>1. client \in [Runs -> Clients] /\ PacketsInOrder /\ QueueHolds /\ InFlight /\ SentFirst /\ Tracked /\ Connected
      /\ ReceivedInOrder /\ WireInOrder
  BY StreamFacts
<1>2. PacketsInOrder'
  BY <1>1, PacketsFrame
<1>3. QueueHolds' /\ Tracked' /\ ReceivedInOrder' /\ WireInOrder'
  BY <1>1, QueueHoldsFrame, TrackedFrame, ReceivedFrame, WireFrame
<1>4. InFlight'
  BY <1>1 DEF InFlight
<1>5. SentFirst'
  BY <1>1, SentFirstFrame DEF SentFirst
<1>6. Connected'
  BY <1>1 DEF Connected
<1>7. QED
  BY <1>2, <1>3, <1>4, <1>5, <1>6 DEF StreamInv

\* A packet is captured: it is newer than all before it.
LEMMA StreamCaptures ==
    ASSUME UpTypeInv, StreamInv, NEW r \in Runs, CapturePacket(r)
    PROVE  StreamInv'
<1>1. /\ client \in [Runs -> Clients] /\ packets \in [Runs -> Seq(Packet)] /\ captured \in Nat
      /\ PacketsInOrder /\ QueueHolds /\ InFlight /\ SentFirst /\ Tracked /\ Connected
      /\ ReceivedInOrder /\ WireInOrder
  BY StreamFacts
<1>2. /\ captured < MaxPackets /\ captured' = captured + 1
      /\ packets' = [packets EXCEPT ![r] = Append(packets[r], captured + 1)]
      /\ UNCHANGED <<client, pending, stream, wire, queue, nextIdx, spooled, sent, acked, received, lost>>
  BY DEF CapturePacket, clientVars, spoolVars
<1>3. PICK e : e = captured + 1
  OBVIOUS
<1>4. e \in Packet /\ e \in Nat /\ Packet \in SUBSET Nat
  BY <1>1, <1>2, <1>3, UpFacts DEF Packet
<1>5. packets[r] \in Seq(Packet) /\ Rising(packets[r]) /\ \A i \in 1 .. Len(packets[r]) : packets[r][i] < e
  <2>1. packets[r] \in Seq(Packet) /\ Len(packets[r]) \in Nat
    BY <1>1
  <2>2. \A i \in 1 .. Len(packets[r]) : packets[r][i] \in Packet /\ packets[r][i] <= captured
    BY <1>1, <2>1 DEF PacketsInOrder
  <2>3. \A i \in 1 .. Len(packets[r]) : packets[r][i] \in Nat
    BY <1>4, <2>2
  <2>4. \A i \in 1 .. Len(packets[r]) : packets[r][i] < e
    BY <1>1, <1>3, <2>2, <2>3
  <2>5. QED
    BY <1>1, <2>1, <2>4 DEF PacketsInOrder
<1>6. PICK q : q = Append(packets[r], e)
  OBVIOUS
<1>7. Rising(q) /\ Len(q) = Len(packets[r]) + 1 /\ (\A i \in 1 .. Len(packets[r]) : q[i] = packets[r][i])
      /\ q[Len(packets[r]) + 1] = e /\ Len(packets[r]) \in Nat
  BY ONLY <1>4, <1>5, <1>6, RisingAppend
<1>8. \A i \in 1 .. Len(q) : i \in 1 .. Len(packets[r]) \/ q[i] = e
  BY <1>7
<1>9. packets' = [packets EXCEPT ![r] = q]
  BY <1>2, <1>3, <1>6
<1>10. PacketsInOrder'
  <2>1. SUFFICES ASSUME NEW s \in Runs
        PROVE  /\ Rising(packets'[s]) /\ \A i \in 1 .. Len(packets'[s]) : packets'[s][i] <= captured + 1
               /\ client[s] \notin {"none", "done"} =>
                     \A i \in 1 .. Len(packets'[s]), p \in spooled : p < packets'[s][i]
    BY <1>2 DEF PacketsInOrder
  <2>2. \A i \in 1 .. Len(packets[s]) : packets[s][i] \in Nat
    <3>1. packets[s] \in Seq(Packet)
      BY <1>1
    <3>2. \A i \in 1 .. Len(packets[s]) : packets[s][i] \in Packet
      BY <3>1
    <3>3. QED
      BY <1>4, <3>2
  <2>3. \A i \in 1 .. Len(packets[s]) : packets[s][i] <= captured + 1
    BY <1>1, <2>2 DEF PacketsInOrder
  <2>4. CASE s # r
    BY <1>1, <1>9, <2>3, <2>4 DEF PacketsInOrder
  <2>5. CASE s = r
    <3>1. packets'[s] = q
      BY <1>1, <1>9, <2>5
    <3>2. \A p \in spooled : p < e
      BY <1>1, <1>3 DEF QueueHolds
    <3>3. \A i \in 1 .. Len(q) : q[i] <= captured + 1
      BY <1>1, <1>3, <1>7, <1>8, <2>3, <2>5
    <3>4. client[s] \notin {"none", "done"} => \A i \in 1 .. Len(q), p \in spooled : p < q[i]
      BY <1>1, <1>7, <1>8, <2>5, <3>2 DEF PacketsInOrder
    <3>5. QED
      BY <1>7, <3>1, <3>3, <3>4
  <2>6. QED
    BY <2>4, <2>5
<1>11. QueueHolds'
  <2>1. Rising(queue) /\ spooled = acked \cup Elems(queue) /\ \A p \in spooled : p \in Nat /\ p <= captured
    BY <1>1 DEF QueueHolds
  <2>2. \A p \in spooled : p \in Nat /\ p <= captured'
    BY ONLY <1>1, <1>2, <2>1
  <2>3. queue' = queue /\ spooled' = spooled /\ acked' = acked
    BY <1>2
  <2>4. QED
    BY ONLY <2>1, <2>2, <2>3 DEF QueueHolds, Rising, Elems
<1>12. InFlight' /\ SentFirst' /\ Connected'
  <2>1. InFlight' /\ Connected'
    BY <1>1, <1>2 DEF InFlight, Connected
  <2>2. SentFirst'
    BY <1>1, <1>2, SentFirstFrame DEF SentFirst
  <2>3. QED
    BY <2>1, <2>2
<1>13. Tracked' /\ ReceivedInOrder' /\ WireInOrder'
  BY <1>1, <1>2, TrackedFrame, ReceivedFrame, WireFrame
<1>14. QED
  BY <1>10, <1>11, <1>12, <1>13 DEF StreamInv

\* A stream opens: nothing is in flight.
LEMMA StreamConnects ==
    ASSUME UpTypeInv, StreamInv, OneClient', NEW r \in Runs, Connects(r)
    PROVE  StreamInv'
<1>1. /\ client \in [Runs -> Clients] /\ stream \in [Runs -> {"up", "broken"}]
      /\ wire \in [Runs -> Seq(Seq(Packet))] /\ \A s \in Runs : client[s] \in Emptied => pending[s] = << >>
      /\ PacketsInOrder /\ QueueHolds /\ InFlight /\ SentFirst /\ Tracked /\ Connected
      /\ ReceivedInOrder /\ WireInOrder
  BY StreamFacts
<1>2. /\ client[r] = "connect" /\ client' = [client EXCEPT ![r] = "poll"]
      /\ stream' = [stream EXCEPT ![r] = "up"] /\ wire' = [wire EXCEPT ![r] = << >>] /\ nextIdx' = 0
      /\ UNCHANGED <<pending, queue, packets, captured, spooled, sent, acked, received, lost>>
  BY DEF Connects, Requeued, captureVars, history
<1>3. wire[r] = << >> /\ wire' = wire /\ pending[r] = << >>
  <2>1. wire[r] = << >> /\ pending[r] = << >>
    BY <1>1, <1>2 DEF Connected, Detached, Emptied
  <2>2. [wire EXCEPT ![r] = << >>] = wire
    BY <1>1, <2>1
  <2>3. QED
    BY <1>2, <2>1, <2>2
<1>4. PacketsInOrder'
  BY <1>1, <1>2, PacketsFrame
<1>5. QueueHolds' /\ Tracked' /\ ReceivedInOrder' /\ WireInOrder'
  BY <1>1, <1>2, <1>3, QueueHoldsFrame, TrackedFrame, ReceivedFrame, WireFrame
<1>6. InFlight'
  <2>1. SUFFICES ASSUME NEW s \in Runs, client'[s] \in Holding
                 PROVE  Len(pending[s]) = 0 /\ \A i \in 1 .. 0 : pending[s][i] = queue[i]
    BY <1>2 DEF InFlight
  <2>2. client'[s] \notin {"none", "done"} /\ client'[r] \notin {"none", "done"}
    BY <1>1, <1>2, <2>1 DEF Holding
  <2>3. s = r
    BY <2>2 DEF OneClient
  <2>4. Len(<< >>) = 0 /\ \A i \in 1 .. 0 : FALSE
    OBVIOUS
  <2>5. QED
    BY <1>3, <2>3, <2>4
<1>7. SentFirst'
  <2>1. \A s \in Runs : client'[s] \in {"ack", "flushack"} => client[s] \in {"ack", "flushack"} /\ pending'[s] = pending[s]
    BY <1>1, <1>2
  <2>2. QED
    BY <1>1, <1>2, <1>3, <2>1, SentFirstFrame DEF SentFirst
<1>8. Connected'
  BY <1>1, <1>2, <1>3 DEF Connected, Detached
<1>9. QED
  BY <1>4, <1>5, <1>6, <1>7, <1>8 DEF StreamInv

\* The client takes what the queue has next.
LEMMA StreamBatch ==
    ASSUME UpTypeInv, StreamInv, OneClient, NEW r \in Runs, NEW n \in Nat, TakesBatch(r, n),
           client[r] \in {"poll", "topup"},
           UNCHANGED <<packets, stream, wire, queue, captured, spooled, sent, acked, received, lost>>
    PROVE  StreamInv'
<1>1. /\ client \in [Runs -> Clients] /\ pending \in [Runs -> Seq(Packet)] /\ QueueTyped
      /\ nextIdx \in Nat /\ nextIdx <= Len(queue) /\ Len(queue) \in Nat
      /\ PacketsInOrder /\ QueueHolds /\ InFlight /\ SentFirst /\ Tracked /\ Connected
      /\ ReceivedInOrder /\ WireInOrder
  BY StreamFacts
<1>2. PICK m \in Nat :
        /\ m <= n /\ nextIdx + m <= Len(queue) /\ nextIdx' = nextIdx + m
        /\ SubSeq(queue, nextIdx + 1, nextIdx + m) \in Seq(Packet)
        /\ Len(SubSeq(queue, nextIdx + 1, nextIdx + m)) = m
        /\ \A i \in 1 .. m : SubSeq(queue, nextIdx + 1, nextIdx + m)[i] = queue[nextIdx + i]
        /\ pending' = [pending EXCEPT ![r] = pending[r] \o SubSeq(queue, nextIdx + 1, nextIdx + m)]
        /\ client' = [client EXCEPT ![r] = IF Len(pending'[r]) >= BatchSize THEN "send" ELSE "wait"]
  BY <1>1, BatchTaken DEF UpTypeInv
<1>3. PICK t \in Seq(Packet) : t = SubSeq(queue, nextIdx + 1, nextIdx + m)
  BY <1>2
<1>4. Len(t) = m /\ (\A i \in 1 .. m : t[i] = queue[nextIdx + i]) /\ pending' = [pending EXCEPT ![r] = pending[r] \o t]
  BY <1>2, <1>3
<1>5. PICK c \in {"send", "wait"} : client' = [client EXCEPT ![r] = c]
  BY <1>2
<1>6. /\ client[r] \in Holding /\ client[r] \notin {"none", "done"}
      /\ \A s \in Runs : client'[s] \in Holding /\ s # r => FALSE
  BY <1>1, <1>5 DEF Holding, OneClient
<1>7. PacketsInOrder'
  BY <1>1, <1>5, <1>6, PacketsFrame
<1>8. QueueHolds' /\ Tracked' /\ ReceivedInOrder' /\ WireInOrder'
  BY <1>1, QueueHoldsFrame, TrackedFrame, ReceivedFrame, WireFrame
<1>9. Len(pending'[r]) = nextIdx' /\ \A i \in 1 .. nextIdx' : pending'[r][i] = queue[i]
  <2>1. PICK b \in Seq(Packet) : b = pending[r]
    BY <1>1
  <2>2. Len(b) = nextIdx /\ \A i \in 1 .. nextIdx : b[i] = queue[i]
    BY <1>1, <1>6, <2>1 DEF InFlight
  <2>3. PICK d : d = b \o t
    OBVIOUS
  <2>4. /\ Len(d) = nextIdx + m
        /\ \A i \in 1 .. nextIdx + m : d[i] = IF i <= nextIdx THEN b[i] ELSE t[i - nextIdx]
    <3>1. /\ Len(d) = Len(b) + Len(t)
          /\ \A i \in 1 .. Len(b) + Len(t) : d[i] = IF i <= Len(b) THEN b[i] ELSE t[i - Len(b)]
      BY <2>3, ConcatProperties
    <3>2. QED
      BY ONLY <1>4, <2>2, <3>1
  <2>5. \A i \in 1 .. nextIdx + m :
           i \in 1 .. nextIdx \/ (~(i <= nextIdx) /\ i - nextIdx \in 1 .. m /\ nextIdx + (i - nextIdx) = i)
    BY <1>1
  <2>6. \A i \in 1 .. nextIdx + m : d[i] = queue[i]
    <3>1. SUFFICES ASSUME NEW i \in 1 .. nextIdx + m PROVE d[i] = queue[i]
      OBVIOUS
    <3>2. CASE i \in 1 .. nextIdx
      BY <1>1, <2>2, <2>4, <3>2
    <3>3. CASE ~(i <= nextIdx) /\ i - nextIdx \in 1 .. m /\ nextIdx + (i - nextIdx) = i
      BY ONLY <1>4, <2>4, <3>1, <3>3
    <3>4. QED
      BY <2>5, <3>2, <3>3
  <2>7. pending'[r] = d
    BY <1>1, <1>4, <2>1, <2>3
  <2>8. QED
    BY ONLY <1>2, <2>4, <2>6, <2>7
<1>10. InFlight'
  BY <1>6, <1>9 DEF InFlight
<1>11. SentFirst'
  <2>1. \A s \in Runs : client'[s] \in {"ack", "flushack"} => client[s] \in {"ack", "flushack"} /\ pending'[s] = pending[s]
    BY <1>1, <1>4, <1>5
  <2>2. QED
    BY <1>1, <2>1, SentFirstFrame DEF SentFirst
<1>12. Connected'
  BY <1>1, <1>5, <1>6 DEF Connected, Detached
<1>13. QED
  BY <1>7, <1>8, <1>10, <1>11, <1>12 DEF StreamInv

\* A packet goes from the channel into the queue, or is dropped.
LEMMA StreamSpools ==
    ASSUME UpTypeInv, StreamInv, OneClient, NEW r \in Runs, SpoolsPacket(r)
    PROVE  StreamInv'
<1>1. /\ client \in [Runs -> Clients] /\ pending \in [Runs -> Seq(Packet)]
      /\ packets \in [Runs -> Seq(Packet)] /\ captured \in Nat
      /\ queue \in Seq(Packet) /\ nextIdx \in Nat /\ nextIdx <= Len(queue) /\ Len(queue) \in Nat
      /\ PacketsInOrder /\ QueueHolds /\ InFlight /\ SentFirst /\ Tracked /\ Connected
      /\ ReceivedInOrder /\ WireInOrder
  BY StreamFacts
<1>2. PICK p : p = Head(packets[r])
  OBVIOUS
<1>3. /\ client[r] = "wait" /\ packets[r] # << >>
      /\ packets' = [packets EXCEPT ![r] = Tail(packets[r])]
      /\ \/ queue' = Append(queue, p) /\ spooled' = spooled \cup {p}
         \/ queue' = queue /\ spooled' = spooled
      /\ \E c \in {"poll", "topup", "wait"} : client' = [client EXCEPT ![r] = c]
      /\ UNCHANGED <<pending, stream, wire, nextIdx, captured, sent, acked, received, lost>>
  BY <1>2 DEF SpoolsPacket
<1>4. PICK c \in {"poll", "topup", "wait"} : client' = [client EXCEPT ![r] = c]
  BY <1>3
<1>5. Packet \in SUBSET Nat /\ packets[r] \in Seq(Packet) /\ Rising(packets[r]) /\ Len(packets[r]) \in Nat
  BY <1>1, UpFacts DEF PacketsInOrder
<1>6. PICK t : t = Tail(packets[r])
  OBVIOUS
<1>7. /\ Rising(t) /\ p \in Packet /\ p = packets[r][1] /\ Len(t) = Len(packets[r]) - 1
      /\ \A i \in 1 .. Len(t) : t[i] = packets[r][i + 1] /\ i + 1 \in 1 .. Len(packets[r]) /\ p < t[i]
  BY ONLY <1>2, <1>3, <1>5, <1>6, RisingTail
<1>8. 1 \in 1 .. Len(packets[r])
  BY <1>3, <1>5, EmptySeq
<1>9. p \in Nat /\ p <= captured /\ \A o \in spooled : o \in Nat /\ o < p
  BY <1>1, <1>3, <1>5, <1>7, <1>8 DEF PacketsInOrder, QueueHolds
<1>10. client[r] \in Holding /\ \A s \in Runs : client'[s] \notin {"none", "done"} /\ s # r => FALSE
  BY <1>1, <1>3, <1>4 DEF Holding, OneClient
<1>11. spooled' \subseteq spooled \cup {p} /\ spooled \subseteq spooled'
  BY <1>3
<1>12. PacketsInOrder'
  <2>1. SUFFICES ASSUME NEW s \in Runs
        PROVE  /\ Rising(packets'[s]) /\ \A i \in 1 .. Len(packets'[s]) : packets'[s][i] <= captured
               /\ client'[s] \notin {"none", "done"} =>
                     \A i \in 1 .. Len(packets'[s]), o \in spooled' : o < packets'[s][i]
    BY <1>3 DEF PacketsInOrder
  <2>2. CASE s # r
    BY <1>1, <1>3, <1>10, <2>2 DEF PacketsInOrder
  <2>3. CASE s = r
    <3>1. packets'[s] = t
      BY <1>1, <1>3, <1>6, <2>3
    <3>2. \A i \in 1 .. Len(t) : t[i] <= captured
      BY <1>1, <1>7 DEF PacketsInOrder
    <3>3. \A i \in 1 .. Len(t), o \in spooled' : o < t[i]
      <4>1. \A i \in 1 .. Len(t), o \in spooled : o < t[i]
        BY <1>1, <1>3, <1>7 DEF PacketsInOrder
      <4>2. QED
        BY <1>7, <1>11, <4>1
    <3>4. QED
      BY <1>7, <3>1, <3>2, <3>3
  <2>4. QED
    BY <2>2, <2>3
<1>13. QueueHolds' /\ InFlight'
  <2>1. Len(pending[r]) = nextIdx /\ \A i \in 1 .. nextIdx : pending[r][i] = queue[i]
    BY <1>1, <1>10 DEF InFlight
  <2>2. \A s \in Runs : client'[s] \in Holding => s = r
    BY <1>10 DEF Holding
  <2>3. CASE queue' = queue /\ spooled' = spooled
    BY <1>1, <1>3, <2>1, <2>2, <2>3, QueueHoldsFrame DEF InFlight
  <2>4. CASE queue' = Append(queue, p) /\ spooled' = spooled \cup {p}
    <3>1. \A i \in 1 .. Len(queue) : queue[i] < p
      BY <1>1, <1>9 DEF QueueHolds, Elems
    <3>2. /\ Rising(Append(queue, p)) /\ Len(Append(queue, p)) = Len(queue) + 1
          /\ \A i \in 1 .. Len(queue) : Append(queue, p)[i] = queue[i]
      <4>1. Rising(queue)
        BY <1>1 DEF QueueHolds
      <4>2. QED
        BY ONLY ZenonT(30), <1>1, <1>5, <1>7, <3>1, <4>1, RisingAppend
    <3>3. Elems(Append(queue, p)) = Elems(queue) \cup {p}
      BY ONLY <1>1, <1>7, ElemsAppend
    <3>4. QueueHolds'
      <4>1. Rising(queue') /\ spooled' = acked' \cup Elems(queue')
        BY <1>1, <1>3, <2>4, <3>2, <3>3 DEF QueueHolds
      <4>2. \A o \in spooled' : o \in Nat /\ o <= captured'
        BY <1>1, <1>3, <1>9, <2>4 DEF QueueHolds
      <4>3. QED
        BY ONLY <4>1, <4>2 DEF QueueHolds, Rising, Elems
    <3>5. \A i \in 1 .. nextIdx : queue'[i] = queue[i]
      BY <1>1, <2>4, <3>2
    <3>6. InFlight'
      BY <1>3, <2>1, <2>2, <3>5 DEF InFlight
    <3>7. QED
      BY <3>4, <3>6
  <2>5. QED
    BY <1>3, <2>3, <2>4
<1>14. SentFirst'
  <2>1. \A s \in Runs : client'[s] \in {"ack", "flushack"} => client[s] \in {"ack", "flushack"} /\ pending'[s] = pending[s]
    BY <1>1, <1>3, <1>4
  <2>2. QED
    BY <1>1, <1>3, <1>11, <2>1, SentFirstFrame DEF SentFirst
<1>15. Tracked'
  BY <1>1, <1>3, TrackedFrame
<1>16. Connected'
  BY <1>1, <1>3, <1>4 DEF Connected, Detached
<1>17. ReceivedInOrder'
  <2>1. \A o \in received : o \in Nat /\ ~(p < o)
    BY <1>1, <1>9 DEF SentFirst
  <2>2. QED
    BY <1>1, <1>3, <1>11, <2>1 DEF ReceivedInOrder
<1>18. WireInOrder'
  <2>1. SUFFICES ASSUME NEW s \in Runs, NEW i \in 1 .. Len(wire[s]), NEW o \in Elems(wire[s][i]), NEW q \in spooled', q < o
        PROVE  q \in received \/ q \in acked \cap lost \/ Ahead(q, s, i)
    BY <1>3 DEF WireInOrder, Ahead
  <2>2. o \in spooled
    BY <1>1 DEF SentFirst
  <2>3. q # p
    BY <1>9, <2>1, <2>2
  <2>4. QED
    BY <1>1, <1>11, <2>1, <2>3 DEF WireInOrder
<1>19. QED
  BY <1>12, <1>13, <1>14, <1>15, <1>16, <1>17, <1>18 DEF StreamInv

\* A batch that could not be sent is forgotten, not confirmed.
LEMMA StreamSendFails ==
    ASSUME UpTypeInv, StreamInv, NEW r \in Runs, SendFails(r)
    PROVE  StreamInv'
<1>1. /\ client \in [Runs -> Clients] /\ pending \in [Runs -> Seq(Packet)]
      /\ PacketsInOrder /\ QueueHolds /\ InFlight /\ SentFirst /\ Tracked /\ Connected
      /\ ReceivedInOrder /\ WireInOrder
  BY StreamFacts
<1>2. /\ client[r] \in {"send", "flush"} /\ stream[r] = "broken"
      /\ pending' = [pending EXCEPT ![r] = << >>]
      /\ \E c \in {"retry", "closing"} : client' = [client EXCEPT ![r] = c]
      /\ UNCHANGED <<stream, wire, packets, captured, queue, nextIdx, spooled, sent, acked, received, lost>>
  BY DEF SendFails, captureVars, spoolVars, history
<1>3. PICK c \in {"retry", "closing"} : client' = [client EXCEPT ![r] = c]
  BY <1>2
<1>4. PacketsInOrder'
  BY <1>1, <1>2, <1>3, PacketsFrame
<1>5. QueueHolds' /\ Tracked' /\ ReceivedInOrder' /\ WireInOrder'
  BY <1>1, <1>2, QueueHoldsFrame, TrackedFrame, ReceivedFrame, WireFrame
<1>6. InFlight'
  <2>1. \A s \in Runs : client'[s] \in Holding => client[s] \in Holding /\ pending'[s] = pending[s]
    BY <1>1, <1>2, <1>3 DEF Holding
  <2>2. QED
    BY <1>1, <1>2, <2>1 DEF InFlight
<1>7. SentFirst'
  <2>1. \A s \in Runs : client'[s] \in {"ack", "flushack"} => client[s] \in {"ack", "flushack"} /\ pending'[s] = pending[s]
    BY <1>1, <1>2, <1>3
  <2>2. QED
    BY <1>1, <1>2, <2>1, SentFirstFrame DEF SentFirst
<1>8. Connected'
  BY <1>1, <1>2, <1>3 DEF Connected
<1>9. QED
  BY <1>4, <1>5, <1>6, <1>7, <1>8 DEF StreamInv

\* A batch is sent: what comes before it has arrived, is lost, or is under way
\* on the same stream.
LEMMA StreamSends ==
    ASSUME UpTypeInv, StreamInv, OneClient, NEW r \in Runs, Sends(r)
    PROVE  StreamInv'
<1>1. /\ client \in [Runs -> Clients] /\ pending \in [Runs -> Seq(Packet)] /\ wire \in [Runs -> Seq(Seq(Packet))]
      /\ \A s \in Runs : Len(wire[s]) \in Nat
      /\ queue \in Seq(Packet) /\ nextIdx \in Nat /\ nextIdx <= Len(queue) /\ Len(queue) \in Nat
      /\ PacketsInOrder /\ QueueHolds /\ InFlight /\ SentFirst /\ Tracked /\ Connected
      /\ ReceivedInOrder /\ WireInOrder
  BY StreamFacts
<1>2. PICK b \in Seq(Packet) : b = pending[r]
  BY <1>1
<1>3. /\ client[r] \in {"send", "flush"} /\ stream[r] = "up"
      /\ wire' = [wire EXCEPT ![r] = Append(wire[r], b)] /\ sent' = sent \cup Elems(b)
      /\ \E c \in {"ack", "flushack"} : client' = [client EXCEPT ![r] = c]
      /\ UNCHANGED <<stream, pending, packets, captured, queue, nextIdx, spooled, acked, received, lost>>
  BY <1>2 DEF Sends, captureVars, spoolVars
<1>4. PICK c \in {"ack", "flushack"} : client' = [client EXCEPT ![r] = c]
  BY <1>3
<1>5. PICK w : w = Append(wire[r], b)
  OBVIOUS
<1>6. PICK l \in Nat : l = Len(wire[r])
  BY <1>1
<1>7. Len(w) = l + 1 /\ (\A i \in 1 .. l : w[i] = wire[r][i]) /\ w[l + 1] = b
  <2>1. wire[r] \in Seq(Seq(Packet))
    BY <1>1
  <2>2. QED
    BY ONLY <1>2, <1>5, <1>6, <2>1, AppendProperties
<1>8. wire' = [wire EXCEPT ![r] = w] /\ wire'[r] = w /\ \A s \in Runs : s # r => wire'[s] = wire[s]
  BY <1>1, <1>3, <1>5
<1>9. Len(b) = nextIdx /\ \A i \in 1 .. nextIdx : b[i] = queue[i]
  BY <1>1, <1>2, <1>3 DEF InFlight, Holding
<1>10. Elems(b) \subseteq spooled
  <2>1. \A i \in 1 .. nextIdx : i \in 1 .. Len(queue)
    BY <1>1
  <2>2. Elems(b) \subseteq Elems(queue)
    BY ONLY <1>9, <2>1 DEF Elems
  <2>3. QED
    BY <1>1, <2>2 DEF QueueHolds
<1>11. \A s \in Runs : client[s] \notin Detached /\ s # r => FALSE
  BY <1>1, <1>3 DEF Detached, OneClient
<1>12. \A s \in Runs : s # r => wire[s] = << >> /\ Len(wire[s]) = 0
  BY <1>1, <1>11 DEF Connected
<1>13. PacketsInOrder'
  BY <1>1, <1>3, <1>4, PacketsFrame
<1>14. QueueHolds' /\ ReceivedInOrder'
  BY <1>1, <1>3, QueueHoldsFrame, ReceivedFrame
<1>15. InFlight'
  <2>1. \A s \in Runs : client'[s] \in Holding => client[s] \in Holding
    BY <1>1, <1>3, <1>4 DEF Holding
  <2>2. QED
    BY <1>1, <1>3, <2>1 DEF InFlight
<1>16. SentFirst'
  <2>1. acked \subseteq sent' /\ sent' \subseteq spooled /\ received \subseteq sent'
    BY <1>1, <1>3, <1>10 DEF SentFirst
  <2>2. \A s \in Runs : client'[s] \in {"ack", "flushack"} => Elems(pending[s]) \subseteq sent'
    <3>1. \A s \in Runs : s # r => client'[s] = client[s]
      BY <1>1, <1>4
    <3>2. QED
      BY <1>1, <1>2, <1>3, <3>1 DEF SentFirst
  <2>3. \A s \in Runs : \A i \in 1 .. Len(wire'[s]) : Elems(wire'[s][i]) \subseteq sent'
    <3>1. SUFFICES ASSUME NEW s \in Runs, NEW i \in 1 .. Len(wire'[s]) PROVE Elems(wire'[s][i]) \subseteq sent'
      OBVIOUS
    <3>2. CASE s # r
      BY <1>1, <1>3, <1>8, <3>2 DEF SentFirst
    <3>3. CASE s = r
      <4>1. i \in 1 .. l \/ i = l + 1
        BY <1>7, <1>8, <3>3
      <4>2. QED
        BY <1>1, <1>3, <1>6, <1>7, <1>8, <3>3, <4>1 DEF SentFirst
    <3>4. QED
      BY <3>2, <3>3
  <2>4. QED
    BY SMTT(20), <1>3, <2>1, <2>2, <2>3 DEF SentFirst, Elems
<1>17. /\ \A i \in 1 .. l : i \in 1 .. Len(w)
       /\ l + 1 \in 1 .. Len(w)
       /\ \A i \in 1 .. Len(w) : i \in 1 .. l \/ i = l + 1
  BY <1>6, <1>7
<1>18. Tracked'
  <2>1. SUFFICES ASSUME NEW p \in sent'
        PROVE  p \in received \/ p \in lost \/ \E s \in Runs : \E i \in 1 .. Len(wire'[s]) : p \in Elems(wire'[s][i])
    BY <1>3 DEF Tracked, OnWire, Elems
  <2>2. CASE p \in Elems(b)
    BY <1>7, <1>8, <1>17, <2>2
  <2>3. CASE p \in sent /\ OnWire(p)
    <3>1a. PICK s \in Runs : \E i \in 1 .. Len(wire[s]) : p \in Elems(wire[s][i])
      BY <2>3 DEF OnWire
    <3>1. PICK i \in 1 .. Len(wire[s]) : p \in Elems(wire[s][i])
      BY <3>1a
    <3>2. CASE s # r
      BY <1>8, <3>1, <3>2
    <3>3. CASE s = r
      BY <1>6, <1>7, <1>8, <1>17, <3>1, <3>3
    <3>4. QED
      BY <3>2, <3>3
  <2>4. QED
    BY <1>1, <1>3, <2>1, <2>2, <2>3 DEF Tracked
<1>19. Connected'
  BY <1>1, <1>3, <1>4, <1>8 DEF Connected, Detached
<1>20. WireInOrder'
  <2>0. UNCHANGED <<received, acked, lost, spooled>>
    BY <1>3
  <2>1. SUFFICES ASSUME NEW s \in Runs, NEW i \in 1 .. Len(wire'[s]), NEW p \in Elems(wire'[s][i]), NEW q \in spooled, q < p
        PROVE  q \in received \/ q \in acked \cap lost \/ \E j \in 1 .. i : q \in Elems(wire'[s][j])
    BY SMTT(20), <2>0 DEF WireInOrder, Ahead, Elems
  <2>2. CASE s # r
    BY <1>1, <1>8, <2>1, <2>2 DEF WireInOrder, Ahead
  <2>3. CASE s = r /\ i \in 1 .. l
    <3>1. p \in Elems(wire[r][i]) /\ i \in 1 .. Len(wire[r])
      BY <1>6, <1>7, <1>8, <2>3
    <3>2. q \in received \/ q \in acked \cap lost \/ \E j \in 1 .. i : q \in Elems(wire[r][j])
      BY <1>1, <2>1, <3>1 DEF WireInOrder, Ahead
    <3>3. \A j \in 1 .. i : j \in 1 .. l
      BY <1>6, <2>3
    <3>4. QED
      BY <1>7, <1>8, <2>3, <3>2, <3>3
  <2>4. CASE s = r /\ i = l + 1
    <3>1. p \in Elems(b)
      BY <1>7, <1>8, <2>4
    <3>2. PICK k \in 1 .. nextIdx : p = queue[k]
      BY <1>9, <3>1 DEF Elems
    <3>3. q \in acked \/ q \in Elems(queue)
      BY <1>1 DEF QueueHolds
    <3>4. CASE q \in Elems(queue)
      <4>1. PICK j \in 1 .. Len(queue) : q = queue[j]
        BY <3>4 DEF Elems
      <4>2. k \in 1 .. Len(queue) /\ k \in Nat /\ j \in Nat
        BY <1>1
      <4>3. q \in Nat /\ p \in Nat
        BY <1>1, <1>10, <3>1 DEF QueueHolds
      <4>4. j < k
        <5>1. ~(k < j)
          BY <1>1, <2>1, <3>2, <4>1, <4>2, <4>3 DEF QueueHolds, Rising
        <5>2. k # j
          BY <2>1, <3>2, <4>1, <4>3
        <5>3. QED
          BY ONLY <4>2, <5>1, <5>2
      <4>5. j \in 1 .. nextIdx
        BY <1>1, <4>1, <4>4
      <4>6. q \in Elems(b)
        BY <1>9, <4>1, <4>5 DEF Elems
      <4>7. l + 1 \in 1 .. i
        BY <1>6, <2>4
      <4>8. QED
        BY <1>7, <1>8, <2>4, <4>6, <4>7
    <3>5. CASE q \in acked
      <4>1. q \in received \/ q \in lost \/ OnWire(q)
        BY <1>1, <3>5 DEF Tracked, SentFirst
      <4>2. CASE OnWire(q)
        <5>1a. PICK o \in Runs : \E j \in 1 .. Len(wire[o]) : q \in Elems(wire[o][j])
          BY <4>2 DEF OnWire
        <5>1. PICK j \in 1 .. Len(wire[o]) : q \in Elems(wire[o][j])
          BY <5>1a
        <5>2. o = r
          BY <1>12, <5>1
        <5>3. j \in 1 .. l /\ j \in 1 .. i
          BY <1>6, <2>4, <5>1, <5>2
        <5>4. QED
          BY <1>7, <1>8, <2>4, <5>1, <5>2, <5>3
      <4>3. QED
        BY <3>5, <4>1, <4>2
    <3>6. QED
      BY <3>3, <3>4, <3>5
  <2>5. QED
    BY <1>8, <1>17, <2>2, <2>3, <2>4
<1>21. QED
  BY <1>13, <1>14, <1>15, <1>16, <1>18, <1>19, <1>20 DEF StreamInv

\* AckN confirms what the client has sent.
LEMMA StreamConfirms ==
    ASSUME UpTypeInv, StreamInv, OneClient, NEW r \in Runs, Confirms(r)
    PROVE  StreamInv'
<1>1. /\ client \in [Runs -> Clients] /\ pending \in [Runs -> Seq(Packet)] /\ QueueTyped
      /\ \A s \in Runs : Len(pending[s]) \in Nat
      /\ queue \in Seq(Packet) /\ nextIdx \in Nat /\ nextIdx <= Len(queue) /\ Len(queue) \in Nat
      /\ PacketsInOrder /\ QueueHolds /\ InFlight /\ SentFirst /\ Tracked /\ Connected
      /\ ReceivedInOrder /\ WireInOrder
  BY StreamFacts
<1>2. client[r] \in {"ack", "flushack"}
  BY DEF Confirms
<1>3. Len(pending[r]) = nextIdx /\ \A i \in 1 .. nextIdx : pending[r][i] = queue[i]
  BY <1>1, <1>2 DEF InFlight, Holding
<1>4. Lesser(Len(pending[r]), nextIdx) = nextIdx
  BY <1>3 DEF Lesser
<1>5. PICK first, left : first = SubSeq(queue, 1, nextIdx) /\ left = SubSeq(queue, nextIdx + 1, Len(queue))
  OBVIOUS
<1>6. /\ \E c \in {"poll", "closing"} : client' = [client EXCEPT ![r] = c]
      /\ acked' = acked \cup Elems(first) /\ queue' = left /\ nextIdx' = nextIdx - nextIdx
      /\ pending' = [pending EXCEPT ![r] = << >>]
      /\ UNCHANGED <<stream, wire, packets, captured, spooled, sent, received, lost>>
  BY <1>4, <1>5 DEF Confirms, captureVars
<1>7. PICK c \in {"poll", "closing"} : client' = [client EXCEPT ![r] = c]
  BY <1>6
<1>8. /\ Elems(queue) = Elems(first) \cup Elems(left)
      /\ Len(first) = nextIdx /\ \A i \in 1 .. nextIdx : first[i] = queue[i]
  <2>1. nextIdx \in Nat /\ nextIdx <= nextIdx
    BY <1>1
  <2>2. QED
    BY <1>1, <1>5, <2>1, ElemsSplit
<1>9. /\ left \in Seq(Packet) /\ Len(left) = Len(queue) - nextIdx
      /\ \A i \in 1 .. Len(queue) - nextIdx : left[i] = queue[nextIdx + i]
  <2>1. nextIdx \in Nat /\ nextIdx <= nextIdx
    BY <1>1
  <2>2. QED
    BY <1>1, <1>5, <2>1, Confirmed
<1>10. Elems(first) \subseteq sent
  <2>1. Elems(first) \subseteq Elems(pending[r])
    BY <1>3, <1>8 DEF Elems
  <2>2. QED
    BY <1>1, <1>2, <2>1 DEF SentFirst
<1>11. PacketsInOrder'
  BY <1>1, <1>2, <1>6, <1>7, PacketsFrame
<1>12. QueueHolds'
  <2>1. Rising(left)
    <3>1. SUFFICES ASSUME NEW i \in 1 .. Len(left), NEW j \in 1 .. Len(left), i < j PROVE left[i] < left[j]
      BY DEF Rising
    <3>2. /\ nextIdx + i \in 1 .. Len(queue) /\ nextIdx + j \in 1 .. Len(queue) /\ nextIdx + i < nextIdx + j
          /\ i \in 1 .. Len(queue) - nextIdx /\ j \in 1 .. Len(queue) - nextIdx
      BY <1>1, <1>9, <3>1
    <3>3. QED
      BY <1>1, <1>9, <3>2 DEF QueueHolds, Rising
  <2>2. spooled = acked' \cup Elems(left)
    BY <1>1, <1>6, <1>8 DEF QueueHolds
  <2>3. QED
    BY <1>1, <1>6, <2>1, <2>2 DEF QueueHolds, Rising, Elems
<1>13. InFlight'
  <2>1. \A s \in Runs : client'[s] \in Holding /\ s # r => FALSE
    BY <1>1, <1>2, <1>7 DEF Holding, OneClient
  <2>2. nextIdx' = 0 /\ pending'[r] = << >> /\ Len(<< >>) = 0 /\ \A i \in 1 .. 0 : FALSE
    BY <1>1, <1>6
  <2>3. QED
    BY <2>1, <2>2 DEF InFlight
<1>14. SentFirst'
  <2>1. \A s \in Runs : client'[s] \in {"ack", "flushack"} => client[s] \in {"ack", "flushack"} /\ pending'[s] = pending[s]
    BY <1>1, <1>6, <1>7
  <2>2. QED
    BY <1>1, <1>6, <1>10, <2>1, SentFirstFrame DEF SentFirst
<1>15. Tracked'
  BY <1>1, <1>6, TrackedFrame
<1>16. Connected'
  BY <1>1, <1>2, <1>6, <1>7 DEF Connected, Detached
<1>17. ReceivedInOrder'
  BY <1>1, <1>6 DEF ReceivedInOrder
<1>18. WireInOrder'
  BY <1>1, <1>6 DEF WireInOrder, Ahead
<1>19. QED
  BY <1>11, <1>12, <1>13, <1>14, <1>15, <1>16, <1>17, <1>18 DEF StreamInv

\* A packet on a stream that ends has arrived or is lost.
LEMMA CutLost ==
    ASSUME NEW r, Cut(r)
    PROVE  \A i \in 1 .. Len(wire[r]) : \A p \in Elems(wire[r][i]) : p \notin received => p \in lost'
<1>1. lost' = lost \cup (Carried(r) \ received)
  BY DEF Cut
<1>2. \A i \in 1 .. Len(wire[r]) : \A p \in Elems(wire[r][i]) : p \in Carried(r)
  BY DEF Carried
<1>3. QED
  BY <1>1, <1>2

\* A stream ends: what it carried is lost.
LEMMA StreamCut ==
    ASSUME UpTypeInv, StreamInv, NEW r \in Runs, Cut(r),
           client' \in {client, [client EXCEPT ![r] = "done"]},
           UNCHANGED <<pending, packets, captured, queue, nextIdx, spooled, sent, acked, received>>
    PROVE  StreamInv'
<1>1. /\ client \in [Runs -> Clients] /\ stream \in [Runs -> {"up", "broken"}] /\ wire \in [Runs -> Seq(Seq(Packet))]
      /\ PacketsInOrder /\ QueueHolds /\ InFlight /\ SentFirst /\ Tracked /\ Connected
      /\ ReceivedInOrder /\ WireInOrder
  BY StreamFacts
<1>2. /\ stream' = [stream EXCEPT ![r] = "broken"] /\ wire' = [wire EXCEPT ![r] = << >>]
      /\ lost' = lost \cup (Carried(r) \ received)
  BY DEF Cut
<1>3. /\ wire'[r] = << >> /\ Len(wire'[r]) = 0 /\ \A s \in Runs : s # r => wire'[s] = wire[s]
      /\ \A i \in 1 .. 0 : FALSE
  BY <1>1, <1>2
<1>4. PacketsInOrder'
  BY <1>1, PacketsFrame
<1>5. QueueHolds'
  BY <1>1, QueueHoldsFrame
<1>6. InFlight'
  BY <1>1 DEF InFlight, Holding
<1>7. SentFirst'
  <2>1. \A s \in Runs : client'[s] \in {"ack", "flushack"} => client[s] \in {"ack", "flushack"}
    BY <1>1
  <2>2. \A s \in Runs : \A i \in 1 .. Len(wire'[s]) : Elems(wire'[s][i]) \subseteq sent
    BY <1>1, <1>3 DEF SentFirst
  <2>3. QED
    BY ZenonT(30), <1>1, <2>1, <2>2 DEF SentFirst, Elems
<1>8. Tracked'
  <2>1. SUFFICES ASSUME NEW p \in sent
        PROVE  p \in received \/ p \in lost' \/ \E s \in Runs : \E i \in 1 .. Len(wire'[s]) : p \in Elems(wire'[s][i])
    BY DEF Tracked, OnWire, Elems
  <2>2. CASE OnWire(p)
    <3>1a. PICK s \in Runs : \E i \in 1 .. Len(wire[s]) : p \in Elems(wire[s][i])
      BY <2>2 DEF OnWire
    <3>1. PICK i \in 1 .. Len(wire[s]) : p \in Elems(wire[s][i])
      BY <3>1a
    <3>2. CASE s = r
      <4>1. \A j \in 1 .. Len(wire[r]) : \A o \in Elems(wire[r][j]) : o \notin received => o \in lost'
        BY CutLost
      <4>2. QED
        BY <3>1, <3>2, <4>1
    <3>3. CASE s # r
      BY <1>3, <3>1, <3>3
    <3>4. QED
      BY <3>2, <3>3
  <2>3. QED
    BY <1>1, <1>2, <2>2 DEF Tracked
<1>9. Connected'
  <2>1. \A s \in Runs : client'[s] \in Detached => s = r \/ client[s] \in Detached
    BY <1>1
  <2>2. QED
    BY <1>1, <1>2, <1>3, <2>1 DEF Connected
<1>10. ReceivedInOrder'
  BY <1>1, <1>2 DEF ReceivedInOrder
<1>11. WireInOrder'
  <2>1. SUFFICES ASSUME NEW s \in Runs, NEW i \in 1 .. Len(wire'[s]), NEW p \in Elems(wire'[s][i]), NEW q \in spooled, q < p
        PROVE  q \in received \/ q \in acked \cap lost' \/ \E j \in 1 .. i : q \in Elems(wire'[s][j])
    BY DEF WireInOrder, Ahead, Elems
  <2>2. s # r /\ wire'[s] = wire[s]
    BY <1>3, <2>1
  <2>3. q \in received \/ q \in acked \cap lost \/ \E j \in 1 .. i : q \in Elems(wire[s][j])
    BY <1>1, <2>1, <2>2 DEF WireInOrder, Ahead
  <2>4. QED
    BY <1>2, <2>2, <2>3
<1>12. QED
  BY <1>4, <1>5, <1>6, <1>7, <1>8, <1>9, <1>10, <1>11 DEF StreamInv

\* The server receives the oldest batch of a stream.
LEMMA StreamReceives ==
    ASSUME UpTypeInv, StreamInv, NEW r \in Runs, Receives(r)
    PROVE  StreamInv'
<1>1. /\ client \in [Runs -> Clients] /\ wire \in [Runs -> Seq(Seq(Packet))]
      /\ PacketsInOrder /\ QueueHolds /\ InFlight /\ SentFirst /\ Tracked /\ Connected
      /\ ReceivedInOrder /\ WireInOrder
  BY StreamFacts
<1>2. PICK h, t : h = Head(wire[r]) /\ t = Tail(wire[r])
  OBVIOUS
<1>3. /\ wire[r] # << >> /\ wire' = [wire EXCEPT ![r] = t] /\ received' = received \cup Elems(h)
      /\ UNCHANGED <<client, stream, pending, packets, captured, queue, nextIdx, spooled, sent, acked, lost>>
  BY <1>2 DEF Receives, captureVars, spoolVars
<1>4. wire[r] \in Seq(Seq(Packet))
  BY <1>1
<1>5. PICK l \in Nat : l = Len(wire[r])
  BY <1>4
<1>6. l >= 1 /\ h = wire[r][1] /\ Len(t) = l - 1 /\ \A i \in 1 .. l - 1 : t[i] = wire[r][i + 1]
  BY ONLY <1>2, <1>3, <1>4, <1>5, EmptySeq, HeadTailProperties
<1>7. /\ 1 \in 1 .. l
      /\ \A i \in 1 .. l : i = 1 \/ (i - 1 \in 1 .. l - 1 /\ i - 1 + 1 = i)
      /\ \A i \in 1 .. l - 1 : i + 1 \in 1 .. l
  BY <1>5, <1>6
<1>8. wire'[r] = t /\ \A s \in Runs : s # r => wire'[s] = wire[s]
  BY <1>1, <1>3
<1>9. PacketsInOrder' /\ QueueHolds'
  BY <1>1, <1>3, PacketsFrame, QueueHoldsFrame
<1>10. InFlight'
  BY <1>1, <1>3 DEF InFlight
<1>11. SentFirst'
  <2>1. Elems(h) \subseteq sent
    BY <1>1, <1>5, <1>6, <1>7 DEF SentFirst
  <2>2. \A s \in Runs : \A i \in 1 .. Len(wire'[s]) : Elems(wire'[s][i]) \subseteq sent
    <3>1. SUFFICES ASSUME NEW s \in Runs, NEW i \in 1 .. Len(wire'[s]) PROVE Elems(wire'[s][i]) \subseteq sent
      OBVIOUS
    <3>2. CASE s # r
      BY <1>1, <1>8, <3>2 DEF SentFirst
    <3>3. CASE s = r
      <4>1. i \in 1 .. l - 1 /\ wire'[s][i] = wire[r][i + 1] /\ i + 1 \in 1 .. Len(wire[r])
        BY <1>5, <1>6, <1>7, <1>8, <3>3
      <4>2. QED
        BY <1>1, <4>1 DEF SentFirst
    <3>4. QED
      BY <3>2, <3>3
  <2>3. QED
    <3>1. acked' \subseteq sent' /\ sent' \subseteq spooled' /\ received' \subseteq sent'
          /\ \A s \in Runs : client'[s] \in {"ack", "flushack"} => Elems(pending'[s]) \subseteq sent'
      BY <1>1, <1>3, <2>1 DEF SentFirst
    <3>2. QED
      BY <1>3, <2>2, <3>1, SentFirstNext
<1>12. Tracked'
  <2>1. SUFFICES ASSUME NEW p \in sent
        PROVE  p \in received' \/ p \in lost \/ \E s \in Runs : \E i \in 1 .. Len(wire'[s]) : p \in Elems(wire'[s][i])
    BY <1>3 DEF Tracked, OnWire, Elems
  <2>2. CASE OnWire(p)
    <3>1a. PICK s \in Runs : \E i \in 1 .. Len(wire[s]) : p \in Elems(wire[s][i])
      BY <2>2 DEF OnWire
    <3>1. PICK i \in 1 .. Len(wire[s]) : p \in Elems(wire[s][i])
      BY <3>1a
    <3>2. CASE s # r
      BY <1>8, <3>1, <3>2
    <3>3. CASE s = r /\ i = 1
      BY <1>3, <1>6, <3>1, <3>3
    <3>4. CASE s = r /\ i # 1
      <4>1. i - 1 \in 1 .. Len(t) /\ t[i - 1] = wire[r][i]
        BY <1>5, <1>6, <1>7, <3>1, <3>4
      <4>2. QED
        BY <1>8, <3>1, <3>4, <4>1
    <3>5. QED
      BY <3>2, <3>3, <3>4
  <2>3. QED
    BY <1>1, <1>3, <2>2 DEF Tracked
<1>13. Connected'
  <2>1. stream[r] # "broken"
    BY <1>1, <1>3 DEF Connected
  <2>2. QED
    BY <1>1, <1>3, <1>8, <2>1 DEF Connected
<1>14. ReceivedInOrder'
  <2>1. SUFFICES ASSUME NEW p \in received', NEW q \in spooled, q < p
                 PROVE  q \in received' \/ q \in acked \cap lost
    BY <1>3 DEF ReceivedInOrder
  <2>2. CASE p \in received
    BY <1>1, <1>3, <2>1, <2>2 DEF ReceivedInOrder
  <2>3. CASE p \in Elems(h)
    <3>1. q \in received \/ q \in acked \cap lost \/ \E j \in 1 .. 1 : q \in Elems(wire[r][j])
      BY <1>1, <1>5, <1>6, <1>7, <2>1, <2>3 DEF WireInOrder, Ahead
    <3>2. QED
      BY <1>3, <1>6, <3>1
  <2>4. QED
    BY <1>3, <2>2, <2>3
<1>15. WireInOrder'
  <2>1. SUFFICES ASSUME NEW s \in Runs, NEW i \in 1 .. Len(wire'[s]), NEW p \in Elems(wire'[s][i]), NEW q \in spooled, q < p
        PROVE  q \in received' \/ q \in acked \cap lost \/ \E j \in 1 .. i : q \in Elems(wire'[s][j])
    BY <1>3 DEF WireInOrder, Ahead, Elems
  <2>2. CASE s # r
    BY <1>1, <1>3, <1>8, <2>1, <2>2 DEF WireInOrder, Ahead
  <2>3. CASE s = r
    <3>1. i \in 1 .. l - 1 /\ i + 1 \in 1 .. Len(wire[r]) /\ p \in Elems(wire[r][i + 1])
      BY <1>5, <1>6, <1>7, <1>8, <2>1, <2>3
    <3>2. q \in received \/ q \in acked \cap lost \/ \E j \in 1 .. i + 1 : q \in Elems(wire[r][j])
      BY <1>1, <2>1, <3>1 DEF WireInOrder, Ahead
    <3>3. ASSUME NEW j \in 1 .. i + 1, q \in Elems(wire[r][j])
          PROVE  q \in received' \/ \E k \in 1 .. i : q \in Elems(t[k])
      <4>1. CASE j = 1
        BY <1>3, <1>6, <3>3, <4>1
      <4>2. CASE j # 1
        <5>1. j - 1 \in 1 .. i /\ j - 1 \in 1 .. l - 1 /\ j - 1 + 1 = j
          BY <1>5, <3>1, <4>2
        <5>2. QED
          BY <1>6, <3>3, <5>1
      <4>3. QED
        BY <4>1, <4>2
    <3>4. QED
      BY <1>3, <1>8, <2>3, <3>2, <3>3
  <2>4. QED
    BY <2>2, <2>3
<1>16. QED
  BY <1>9, <1>10, <1>11, <1>12, <1>13, <1>14, <1>15 DEF StreamInv

\* The steps of one client, its stream and its capture keep the order.
LEMMA StreamStep ==
    ASSUME UpTypeInv, StreamInv, OneClient, [UpNext /\ OneClient']_upVars
    PROVE  StreamInv'
<1>1. /\ client \in [Runs -> Clients] /\ PacketsInOrder /\ QueueHolds /\ InFlight /\ SentFirst /\ Tracked
      /\ Connected /\ ReceivedInOrder /\ WireInOrder /\ Fresh
  BY StreamFacts DEF UpTypeInv
<1>2. ASSUME UNCHANGED <<client, pending, stream, wire, packets, captured, queue, nextIdx, spooled, sent,
                         acked, received, lost>>
      PROVE  StreamInv'
  <2>1. PacketsInOrder' /\ QueueHolds' /\ Tracked' /\ ReceivedInOrder' /\ WireInOrder'
    BY <1>1, <1>2, PacketsFrame, QueueHoldsFrame, TrackedFrame, ReceivedFrame, WireFrame
  <2>2. InFlight' /\ SentFirst' /\ Connected'
    <3>1. InFlight' /\ Connected'
      BY <1>1, <1>2 DEF InFlight, Connected
    <3>2. SentFirst'
      BY <1>1, <1>2, SentFirstFrame DEF SentFirst
    <3>3. QED
      BY <3>1, <3>2
  <2>3. QED
    BY <2>1, <2>2 DEF StreamInv
<1>3. CASE UNCHANGED upVars
  BY <1>2, <1>3 DEF upVars, clientVars, captureVars, spoolVars, history
<1>4. ASSUME OneClient', Control \/ Stop
      PROVE  StreamInv'
  <2>1. CASE Stop \/ \E p \in Params : StartFails(p) \/ UpdateFilter(p)
    BY <1>2, <2>1 DEF Stop, StartFails, UpdateFilter, clientVars, captureVars, spoolVars, history
  <2>2. ASSUME NEW p \in Params, Start(p)
        PROVE  StreamInv'
    <3>1. runs \in 0 .. MaxUpRuns /\ MaxUpRuns \in Nat
      BY UpFacts DEF UpTypeInv, RunnerTyped
    <3>2. PICK r : r = runs + 1
      OBVIOUS
    <3>3. /\ runs < MaxUpRuns /\ client' = [client EXCEPT ![r] = "retry"]
          /\ UNCHANGED <<packets, pending, stream, wire, queue, nextIdx, captured, spooled, sent, acked, received, lost>>
      BY <2>2, <3>2 DEF Start, spoolVars, history
    <3>4. r \in Runs /\ r > runs
      BY <3>1, <3>2, <3>3 DEF Runs
    <3>5. client[r] = "none" /\ packets[r] = << >> /\ stream[r] = "broken"
      BY <1>1, <3>4 DEF Fresh, Connected, Detached
    <3>6. QED
      BY ZenonT(30), <3>3, <3>4, <3>5, StreamMove DEF Holding
  <2>3. QED
    BY <1>4, <2>1, <2>2 DEF Control
<1>5. ASSUME NEW r \in Runs, Capturing(r) \/ Watching(r)
      PROVE  StreamInv'
  <2>1. CASE CapturePacket(r)
    BY <2>1, StreamCaptures
  <2>2. CASE ~CapturePacket(r)
    BY <1>2, <1>5, <2>2 DEF Capturing, Watching, CaptureStops, CaptureCloses, WatchBegins, WatchDone,
        WatchGets, WatchFails, clientVars, captureVars, spoolVars, history
  <2>3. QED
    BY <2>1, <2>2
<1>6. ASSUME OneClient', NEW r \in Runs, Ingesting(r) \/ Connecting(r) \/ Receives(r) \/ Breaks(r)
      PROVE  StreamInv'
  <2>1. CASE Wakes(r) \/ ConnectFails(r) \/ TimerFires(r) \/ SeesCancel(r)
    <3>1. PICK c : client' = [client EXCEPT ![r] = c] /\ (c \in Detached => client[r] \in Detached)
                   /\ (c \in Holding => client[r] \in Holding) /\ c \notin {"ack", "flushack"}
      BY <2>1 DEF Wakes, ConnectFails, TimerFires, SeesCancel, Detached, Holding
    <3>2. client[r] \notin {"none", "done"}
          /\ UNCHANGED <<pending, stream, wire, packets, captured, queue, nextIdx, spooled, sent, acked, received, lost>>
      BY <2>1 DEF Wakes, ConnectFails, TimerFires, SeesCancel, captureVars, spoolVars, history
    <3>3. c \in Detached => stream[r] = "broken"
      BY <1>1, <3>1 DEF Connected
    <3>4. QED
      BY <3>1, <3>2, <3>3, StreamMove
  <2>2. CASE Connects(r)
    BY <1>6, <2>2, StreamConnects
  <2>3. CASE Polls(r) \/ TopsUp(r)
    <3>1. /\ client[r] \in {"poll", "topup"} /\ (TakesBatch(r, BatchSize) \/ TakesBatch(r, Room(r)))
          /\ UNCHANGED <<packets, stream, wire, queue, captured, spooled, sent, acked, received, lost>>
      BY <2>3 DEF Polls, TopsUp, captureVars, history
    <3>2. BatchSize \in Nat /\ Room(r) \in Nat
      <4>1. Len(pending[r]) \in Nat /\ Len(pending[r]) <= BatchSize /\ BatchSize \in Nat
        BY StreamFacts, UpFacts DEF UpTypeInv, ClientTyped
      <4>2. QED
        BY <4>1 DEF Room
    <3>3. QED
      BY <3>1, <3>2, StreamBatch
  <2>4. CASE SpoolsPacket(r)
    BY <2>4, StreamSpools
  <2>5. CASE SendFails(r)
    BY <2>5, StreamSendFails
  <2>6. CASE Sends(r)
    BY <2>6, StreamSends
  <2>7. CASE Confirms(r)
    BY <2>7, StreamConfirms
  <2>8. CASE Finishes(r)
    <3>1. Cut(r) /\ client' = [client EXCEPT ![r] = "done"]
          /\ UNCHANGED <<pending, packets, captured, queue, nextIdx, spooled, sent, acked, received>>
      BY <2>8 DEF Finishes, captureVars, spoolVars
    <3>2. QED
      BY <3>1, StreamCut
  <2>9. CASE Receives(r)
    BY <2>9, StreamReceives
  <2>10. CASE Breaks(r)
    <3>1. Cut(r) /\ client' = client
          /\ UNCHANGED <<pending, packets, captured, queue, nextIdx, spooled, sent, acked, received>>
      BY <2>10 DEF Breaks, captureVars, spoolVars
    <3>2. QED
      BY <3>1, StreamCut
  <2>11. QED
    BY <1>6, <2>1, <2>2, <2>3, <2>4, <2>5, <2>6, <2>7, <2>8, <2>9, <2>10 DEF Ingesting, Connecting
<1>7. CASE UpNext /\ OneClient'
  BY <1>4, <1>5, <1>6, <1>7 DEF UpNext
<1>8. QED
  BY <1>3, <1>7

\* For any number of runs, packets, streams and updates, as long as a run's
\* client has ended before that of the next one begins: a packet is confirmed
\* only after it was sent, and the server receives the packets in the order in
\* which they were spooled, but for those that were confirmed and then lost with
\* their stream (ingestClient.pushOnce, sendAndAck, Queue.Requeue).
THEOREM PushedInOrderSafe == OneClientSpec => []PushedInOrder
<1> DEFINE Inv == UpTypeInv /\ StreamInv /\ OneClient
<1>1. UpInit => Inv
  BY UpTypeInit, StreamInit DEF UpInit, OneClient
<1>2. Inv /\ [UpNext /\ OneClient']_upVars => Inv'
  <2>1. SUFFICES ASSUME Inv, [UpNext /\ OneClient']_upVars PROVE Inv'
    OBVIOUS
  <2>2. UpTypeInv'
    BY <2>1, UpTypeStep
  <2>3. StreamInv'
    BY <2>1, StreamStep
  <2>4. OneClient'
    BY <2>1 DEF OneClient, upVars, clientVars
  <2>5. QED
    BY <2>2, <2>3, <2>4
<1>3. Inv => PushedInOrder
  <2>1. SUFFICES ASSUME Inv PROVE PushedInOrder
    OBVIOUS
  <2>2. AckedWereSent
    BY <2>1 DEF StreamInv, SentFirst, AckedWereSent
  <2>3. QED
    BY <2>1, <2>2, UpTypeOf DEF PushedInOrder, StreamInv
<1>4. QED
  BY <1>1, <1>2, <1>3, PTL DEF OneClientSpec

(***************************************************************************)
(* The logical streams of a reverse tunnel, for any sizes of their queues. *)
(***************************************************************************)

\* The receive loop has a response of the stream in hand.
Pending(s) == loop.pc \in {"deliver", "blocked"} /\ s \in loop.on
Reached(s) == Len(got[s]) + Len(respCh[s])
Handed(s) == Reached(s) + (IF Pending(s) THEN 1 ELSE 0)

Numbered(s) ==
    /\ \A i \in DOMAIN got[s] : got[s][i] = i
    /\ \A i \in DOMAIN respCh[s] : respCh[s][i] = Len(got[s]) + i

\* The frames on their way continue what has been handed over, and an end is last.
Queued(s) ==
    /\ Handed(s) <= said[s] /\ (Pending(s) => loop.val = Handed(s))
    /\ \A v \in Handed(s) + 1 .. said[s] :
          \E i \in DOMAIN frames : frames[i].on = s /\ frames[i].kind # "end" /\ frames[i].val = v
    /\ \A i \in DOMAIN frames : frames[i].on = s /\ frames[i].kind # "end" => Handed(s) < frames[i].val /\ frames[i].val <= said[s]
    /\ \A i, j \in DOMAIN frames : i < j /\ frames[i].on = s /\ frames[j].on = s =>
          frames[i].kind # "end" /\ (frames[j].kind # "end" => frames[i].val < frames[j].val)
    /\ \A i \in DOMAIN frames : frames[i].on = s /\ frames[i].kind = "end" => ended[s] = frames[i].err

Complete(s) == ended[s] = "eof" /\ Reached(s) = said[s]
\* It is not the caller who ended the stream.
Upright(s) == ~gaveUp[s] \/ endErr[s] = "eof"

Unopened(s) ==
    call[s] # "open" =>
       /\ said[s] = 0 /\ ended[s] = "no" /\ \A i \in DOMAIN frames : frames[i].on # s
       /\ s \notin table /\ got[s] = <<>> /\ respCh[s] = <<>> /\ fin[s] = "no"
       /\ s \notin loop.on /\ s \notin toFinish /\ watch[s] = "none" /\ rcv[s] = "idle" /\ result[s] = "none"

Flows(s) ==
    /\ fin[s] = "no" /\ s \in table => Queued(s)
    /\ fin[s] = "no" /\ Pending(s) => s \in table
    /\ fin[s] # "no" /\ Upright(s) => s \notin table /\ ~Pending(s)
    /\ Upright(s) => Numbered(s)
    /\ loop.pc = "finish" /\ s \in loop.on => s \notin table /\ (fin[s] = "no" /\ loop.err = "eof" => Complete(s))
    /\ fin[s] # "no" /\ endErr[s] = "eof" => Complete(s)

Tells(s) ==
    /\ fin[s] = "no" => endErr[s] = "eof"
    /\ rcv[s] \in {"ctx", "ctx2"} \/ watch[s] \in {"reset", "finish"} => gaveUp[s] \/ fin[s] # "no"
    /\ endErr[s] = "context" => gaveUp[s]
    /\ rcv[s] = "after" => fin[s] # "no"
    /\ result[s] = "eof" => fin[s] # "no" /\ endErr[s] = "eof" /\ respCh[s] = <<>>
    /\ result[s] = "context" => gaveUp[s]

LoopHolds ==
    /\ loop.err # "context" /\ \A i \in DOMAIN frames : frames[i].err \in {"eof", "plugin"}
    /\ closed => table = {}
    /\ loop.pc = "closing" => closed /\ loop.on = {}
    /\ \A r, s \in loop.on : r = s

Sound(s) == Unopened(s) /\ Flows(s) /\ Tells(s)
MuxInv == MuxTypeOK /\ LoopHolds /\ \A s \in Streams : Sound(s)

(***************************************************************************)
(* What a step at another stream, or of another goroutine, leaves alone.   *)
(***************************************************************************)
Finishing(s) == loop.pc = "finish" /\ s \in loop.on

\* Nothing was delivered to the stream or taken out of order, and its end is the same.
StreamSame(s) ==
    /\ Reached(s)' = Reached(s) /\ (Numbered(s) => Numbered(s)')
    /\ said'[s] = said[s] /\ ended'[s] = ended[s] /\ endErr'[s] = endErr[s]
    /\ fin'[s] = "no" <=> fin[s] = "no"
    /\ gaveUp[s] => gaveUp'[s]

\* The receive loop has no more to do with it than before.
LoopSame(s) ==
    /\ s \in table' => s \in table
    /\ Pending(s)' => Pending(s) /\ loop'.val = loop.val
    /\ fin[s] = "no" /\ Pending(s)' /\ s \in table => s \in table'
    /\ Finishing(s)' => Finishing(s) /\ loop'.err = loop.err

\* Who is upright after such a step was before.
LEMMA UprightWas == ASSUME NEW s, StreamSame(s), Upright(s)' PROVE Upright(s)
  BY DEF StreamSame, Upright

\* What such a step leaves alone still flows.
LEMMA FlowsSame ==
    ASSUME NEW s, StreamSame(s), LoopSame(s), Flows(s), fin[s] = "no" /\ s \in table' /\ Queued(s) => Queued(s)'
    PROVE  Flows(s)'
  <1>1. fin'[s] = "no" /\ s \in table' => Queued(s)'
    BY DEF StreamSame, LoopSame, Flows
  <1>2. Upright(s)' => Upright(s)
    BY UprightWas
  <1>3. Complete(s)' <=> Complete(s)
    BY DEF Complete, StreamSame
  <1>4. fin'[s] = "no" /\ Pending(s)' => s \in table'
    BY DEF StreamSame, LoopSame, Flows
  <1>5. fin'[s] # "no" /\ Upright(s)' => s \notin table' /\ ~Pending(s)'
    BY <1>2 DEF StreamSame, LoopSame, Flows
  <1>6. Upright(s)' => Numbered(s)'
    BY <1>2 DEF StreamSame, Flows
  <1>7. Finishing(s)' => s \notin table' /\ (fin'[s] = "no" /\ loop'.err = "eof" => Complete(s)')
    BY <1>3 DEF StreamSame, LoopSame, Flows, Finishing
  <1>8. fin'[s] # "no" /\ endErr'[s] = "eof" => Complete(s)'
    BY <1>3 DEF StreamSame, Flows
  <1> QED  BY <1>1, <1>4, <1>5, <1>6, <1>7, <1>8 DEF Flows, Finishing

\* The frames are the same and so is what has been handed over.
LEMMA QueuedSame ==
    ASSUME NEW s, StreamSame(s), frames' = frames, Pending(s)' <=> Pending(s), Pending(s) => loop'.val = loop.val,
           Queued(s)
    PROVE  Queued(s)'
  <1>1. Handed(s)' = Handed(s)
    BY DEF Handed, StreamSame
  <1>2. PICK h : h = Handed(s)
    OBVIOUS
  <1> QED  BY <1>1, <1>2 DEF Queued, StreamSame

\* A frame of another stream arrives.
LEMMA QueuedAppend ==
    ASSUME NEW s, NEW F, frames \in Seq(F), NEW f \in F, f.on # s, frames' = Append(frames, f),
           StreamSame(s), loop' = loop, Queued(s)
    PROVE  Queued(s)'
  <1>1. Handed(s)' = Handed(s) /\ (Pending(s)' <=> Pending(s))
    BY DEF Handed, StreamSame, Pending
  <1>2. PICK h : h = Handed(s)
    OBVIOUS
  <1>3. /\ DOMAIN frames' = DOMAIN frames \cup {Len(frames) + 1} /\ frames'[Len(frames) + 1].on # s
        /\ \A i \in DOMAIN frames : frames'[i] = frames[i]
    OBVIOUS
  <1> QED  BY <1>1, <1>2, <1>3 DEF Queued, StreamSame

\* A sequence without its first element.
LEMMA TailIs ==
    ASSUME NEW F, NEW q \in Seq(F), q # <<>>
    PROVE  /\ Tail(q) \in Seq(F) /\ Len(q) \in Nat \ {0} /\ Head(q) = q[1] /\ q[1] \in F
           /\ DOMAIN q = 1 .. Len(q) /\ DOMAIN Tail(q) = 1 .. Len(q) - 1
           /\ \A i \in 1 .. Len(q) - 1 : Tail(q)[i] = q[i + 1]
  OBVIOUS

\* A frame of another stream is taken.
LEMMA QueuedTail ==
    ASSUME NEW s, NEW F, frames \in Seq(F), frames # <<>>, Head(frames).on # s, frames' = Tail(frames),
           StreamSame(s), ~Pending(s), ~Pending(s)', Queued(s)
    PROVE  Queued(s)'
  <1>1. Handed(s)' = Handed(s)
    BY DEF Handed, StreamSame
  <1>2. PICK h : h = Handed(s)
    OBVIOUS
  <1>3. PICK n : n = Len(frames)
    OBVIOUS
  <1>4. /\ n \in Nat \ {0} /\ DOMAIN frames = 1 .. n /\ DOMAIN frames' = 1 .. n - 1 /\ frames[1].on # s
        /\ \A i \in 1 .. n - 1 : frames'[i] = frames[i + 1]
    BY <1>3, TailIs
  <1>5. h <= said[s]
    BY <1>2 DEF Queued
  <1>6. ASSUME NEW v \in h + 1 .. said[s]
        PROVE  \E i \in DOMAIN frames' : frames'[i].on = s /\ frames'[i].kind # "end" /\ frames'[i].val = v
    <2>1. PICK i \in DOMAIN frames : frames[i].on = s /\ frames[i].kind # "end" /\ frames[i].val = v
      BY <1>2 DEF Queued
    <2>2. i # 1 /\ i - 1 \in DOMAIN frames' /\ frames'[i - 1] = frames[i]
      BY <2>1, <1>4
    <2> QED  BY <2>1, <2>2
  <1>7. \A i \in DOMAIN frames' : frames'[i].on = s /\ frames'[i].kind # "end" => h < frames'[i].val /\ frames'[i].val <= said[s]
    BY <1>2, <1>4 DEF Queued
  <1>8. \A i, j \in DOMAIN frames' : i < j /\ frames'[i].on = s /\ frames'[j].on = s =>
           frames'[i].kind # "end" /\ (frames'[j].kind # "end" => frames'[i].val < frames'[j].val)
    BY <1>4 DEF Queued
  <1>9. \A i \in DOMAIN frames' : frames'[i].on = s /\ frames'[i].kind = "end" => ended[s] = frames'[i].err
    BY <1>4 DEF Queued
  <1> QED  BY <1>1, <1>2, <1>5, <1>6, <1>7, <1>8, <1>9 DEF Queued, StreamSame

\* The variables of one stream.
AloneSame(s) ==
    /\ call'[s] = call[s] /\ gaveUp'[s] = gaveUp[s] /\ respCh'[s] = respCh[s] /\ fin'[s] = fin[s]
    /\ endErr'[s] = endErr[s] /\ watch'[s] = watch[s] /\ rcv'[s] = rcv[s] /\ got'[s] = got[s]
    /\ result'[s] = result[s] /\ said'[s] = said[s] /\ ended'[s] = ended[s]

\* A stream none of whose variables changed has received the same.
LEMMA AloneIsSame == ASSUME NEW s, AloneSame(s) PROVE StreamSame(s)
  BY DEF AloneSame, StreamSame, Reached, Numbered

\* What a caller has been told is as true as before.
LEMMA TellsSame == ASSUME NEW s, AloneSame(s), Tells(s) PROVE Tells(s)'
  BY DEF AloneSame, Tells

\* The streams that are not opened are not spoken of.
NotNew(s) ==
    /\ s \in table' => s \in table
    /\ s \in loop'.on => s \in loop.on \/ call[s] = "open"
    /\ s \in toFinish' => s \in toFinish \/ s \in table
    /\ \A i \in DOMAIN frames' : frames'[i].on = s => \E j \in DOMAIN frames : frames[j].on = s

\* A stream that is not open has still come to nothing.
LEMMA UnopenedSame == ASSUME NEW s, AloneSame(s), NotNew(s), Unopened(s) PROVE Unopened(s)'
  BY DEF AloneSame, NotNew, Unopened

\* What a step leaves alone is as sound as before.
LEMMA SoundSame ==
    ASSUME NEW s, Sound(s), AloneSame(s), NotNew(s), LoopSame(s), fin[s] = "no" /\ s \in table' /\ Queued(s) => Queued(s)'
    PROVE  Sound(s)'
  BY AloneIsSame, FlowsSame, TellsSame, UnopenedSame DEF Sound

\* The frames and the receive loop stand still.
LEMMA LoopStands ==
    ASSUME NEW s, frames' = frames, loop' = loop, StreamSame(s), s \in table' <=> s \in table
    PROVE  LoopSame(s) /\ (Queued(s) => Queued(s)')
  <1>1. Pending(s)' <=> Pending(s)
    BY DEF Pending
  <1>2. Queued(s) => Queued(s)'
    BY <1>1, QueuedSame
  <1> QED  BY <1>1, <1>2 DEF LoopSame, Finishing

FrameSet == [on : Streams, kind : {"response", "end"}, val : 0..MaxResponses, err : Errors]

\* A sequence with one more element.
LEMMA AppendIs ==
    ASSUME NEW F, NEW q \in Seq(F), NEW f \in F, NEW p, p = Append(q, f), NEW n, n = Len(q)
    PROVE  /\ p \in Seq(F) /\ n \in Nat /\ DOMAIN q = 1 .. n /\ DOMAIN p = 1 .. n + 1 /\ p[n + 1] = f
           /\ \A i \in 1 .. n : p[i] = q[i] /\ q[i] \in F
  OBVIOUS

\* A frame.
LEMMA FrameIs ==
    ASSUME NEW s \in Streams, NEW e \in {"response", "end"}, NEW v \in 0..MaxResponses, NEW err \in Errors,
           NEW f, f = [on |-> s, kind |-> e, val |-> v, err |-> err]
    PROVE  f \in FrameSet /\ f.on = s /\ f.kind = e /\ f.val = v /\ f.err = err
  BY DEF FrameSet

\* The plugin responds.
LEMMA RespondsStep == ASSUME MuxInv, NEW s \in Streams, PluginResponds(s) PROVE MuxInv'
  <1>1. PICK n : n = said[s] + 1
    OBVIOUS
  <1>2. PICK f : f = [on |-> s, kind |-> "response", val |-> n, err |-> "eof"]
    OBVIOUS
  <1>3. /\ said \in [Streams -> 0..MaxResponses] /\ said[s] \in Nat /\ n \in 0..MaxResponses
        /\ said' = [said EXCEPT ![s] = n] /\ frames' = Append(frames, f)
        /\ call[s] = "open" /\ ended[s] = "no"
        /\ UNCHANGED <<broken, closed, table, loop, toFinish, call, gaveUp, respCh, fin, endErr, watch, rcv, got, result, ended>>
    BY <1>1, <1>2, MuxAssumption DEF PluginResponds, MuxInv, MuxTypeOK, caller
  <1>4. f \in FrameSet /\ f.on = s /\ f.kind # "end" /\ f.val = n /\ f.err = "eof" /\ frames \in Seq(FrameSet)
    <2>1. "response" \in {"response", "end"} /\ "eof" \in Errors
      BY DEF Errors
    <2>2. f \in FrameSet /\ f.on = s /\ f.kind = "response" /\ f.val = n /\ f.err = "eof"
      BY <2>1, <1>2, <1>3, FrameIs
    <2>3. frames \in Seq(FrameSet)
      BY DEF MuxInv, MuxTypeOK, FrameSet
    <2> QED  BY <2>2, <2>3
  <1>5. PICK m : m = Len(frames)
    OBVIOUS
  <1>6. /\ frames' \in Seq(FrameSet) /\ m \in Nat /\ DOMAIN frames = 1 .. m /\ DOMAIN frames' = 1 .. m + 1
        /\ frames'[m + 1] = f /\ \A i \in 1 .. m : frames'[i] = frames[i] /\ frames[i] \in FrameSet
    BY <1>3, <1>4, <1>5, AppendIs
  <1>7. said'[s] = n /\ \A r \in Streams \ {s} : said'[r] = said[r]
    BY <1>3
  <1>8. MuxTypeOK'
    BY <1>3, <1>6 DEF MuxInv, MuxTypeOK, FrameSet
  <1>9. LoopHolds'
    BY <1>3, <1>4, <1>6 DEF MuxInv, LoopHolds
  <1>10. ASSUME NEW r \in Streams \ {s} PROVE Sound(r)'
    <2>1. AloneSame(r)
      BY <1>3, <1>7 DEF AloneSame
    <2>2. StreamSame(r)
      BY <2>1, AloneIsSame
    <2>3. Queued(r) => Queued(r)'
      BY <2>2, <1>3, <1>4, QueuedAppend
    <2>4. NotNew(r) /\ LoopSame(r)
      BY <1>3, <1>4, <1>6 DEF NotNew, LoopSame, Pending, Finishing
    <2> QED  BY <2>1, <2>3, <2>4, SoundSame DEF MuxInv
  <1>11. Sound(s)'
    <2>1. Sound(s)
      BY DEF MuxInv
    <2>2. Unopened(s)' /\ Tells(s)'
      BY <2>1, <1>3 DEF Sound, Unopened, Tells
    <2>3. Pending(s)' <=> Pending(s)
      BY <1>3 DEF Pending
    <2>4. Handed(s)' = Handed(s) /\ Reached(s)' = Reached(s)
      BY <2>3, <1>3 DEF Handed, Reached
    <2>5. PICK h : h = Handed(s)
      OBVIOUS
    <2>6. h \in Nat
      BY <2>5 DEF Handed, Reached, MuxInv, MuxTypeOK
    <2>7. ASSUME Queued(s) PROVE Queued(s)'
      <3>1. h <= said[s] /\ (Pending(s) => loop.val = h)
        BY <2>5, <2>7 DEF Queued
      <3>2. ASSUME NEW v \in h + 1 .. n
            PROVE  \E i \in DOMAIN frames' : frames'[i].on = s /\ frames'[i].kind # "end" /\ frames'[i].val = v
        <4>1. CASE v = n
          BY <4>1, <1>4, <1>6
        <4>2. CASE v # n
          <5>1. v \in h + 1 .. said[s]
            BY <4>2, <3>2, <2>6, <1>1, <1>3
          <5> QED  BY <5>1, <2>5, <2>7, <1>6 DEF Queued
        <4> QED  BY <4>1, <4>2
      <3>3. ASSUME NEW i \in DOMAIN frames', frames'[i].on = s, frames'[i].kind # "end" PROVE h < frames'[i].val /\ frames'[i].val <= n
        <4>1. CASE i \in DOMAIN frames
          <5>1. h < frames[i].val /\ frames[i].val <= said[s] /\ frames[i] \in FrameSet
            BY <4>1, <3>3, <2>5, <2>7, <1>4, <1>6 DEF Queued
          <5>2. frames'[i].val = frames[i].val /\ frames[i].val \in Int
            BY <4>1, <5>1, <1>6 DEF FrameSet
          <5> QED  BY <5>1, <5>2, <1>1, <1>3
        <4>2. CASE i \notin DOMAIN frames
          BY <4>2, <3>1, <2>6, <1>1, <1>3, <1>4, <1>6
        <4> QED  BY <4>1, <4>2
      <3>4. ASSUME NEW i \in DOMAIN frames PROVE frames[i].on = s => frames[i].kind # "end" /\ frames[i].val <= said[s]
        <4>1. frames[i].on = s => frames[i].kind # "end"
          <5>1. frames[i].err \in {"eof", "plugin"}
            BY DEF MuxInv, LoopHolds
          <5> QED  BY <5>1, <2>7, <1>3 DEF Queued
        <4> QED  BY <4>1, <2>7 DEF Queued
      <3>5. ASSUME NEW i \in DOMAIN frames', NEW j \in DOMAIN frames', i < j, frames'[i].on = s, frames'[j].on = s
            PROVE  frames'[i].kind # "end" /\ (frames'[j].kind # "end" => frames'[i].val < frames'[j].val)
        <4>1. CASE j \in DOMAIN frames
          <5>1. i \in DOMAIN frames
            BY <4>1, <3>5, <1>4, <1>6
          <5> QED  BY <5>1, <4>1, <3>5, <2>7, <1>6 DEF Queued
        <4>2. CASE j \notin DOMAIN frames
          <5>1. j = m + 1 /\ i \in DOMAIN frames
            BY <4>2, <3>5, <1>6
          <5>2. frames[i].on = s /\ frames[i] \in FrameSet
            BY <5>1, <3>5, <1>4, <1>6
          <5>3. frames[i].kind # "end" /\ frames[i].val <= said[s] /\ frames[i].val \in Int
            BY <5>1, <5>2, <3>4 DEF FrameSet
          <5> QED  BY <5>1, <5>3, <1>1, <1>3, <1>4, <1>6
        <4> QED  BY <4>1, <4>2
      <3>6. ASSUME NEW i \in DOMAIN frames', frames'[i].on = s, frames'[i].kind = "end" PROVE ended'[s] = frames'[i].err
        <4>1. i \in DOMAIN frames
          BY <3>6, <1>4, <1>6
        <4> QED  BY <4>1, <3>4, <3>6, <1>6
      <3> QED  BY <3>1, <3>2, <3>3, <3>5, <3>6, <2>3, <2>4, <2>5, <2>6, <1>1, <1>3, <1>7 DEF Queued
    <2>8. Flows(s)'
      <3>1. ~Complete(s) /\ ~Complete(s)'
        BY <1>3 DEF Complete
      <3>2. (Upright(s)' <=> Upright(s)) /\ (Numbered(s)' <=> Numbered(s))
        BY <1>3 DEF Upright, Numbered
      <3> QED  BY <3>1, <3>2, <2>1, <2>3, <2>7, <1>3 DEF Sound, Flows
    <2> QED  BY <2>2, <2>8 DEF Sound
  <1> QED  BY <1>8, <1>9, <1>10, <1>11 DEF MuxInv

\* The plugin ends the stream.
LEMMA EndsStep == ASSUME MuxInv, NEW s \in Streams, NEW err \in {"eof", "plugin"}, PluginEnds(s, err) PROVE MuxInv'
  <1>1. PICK f : f = [on |-> s, kind |-> "end", val |-> 0, err |-> err]
    OBVIOUS
  <1>2. /\ ended' = [ended EXCEPT ![s] = err] /\ frames' = Append(frames, f)
        /\ call[s] = "open" /\ ended[s] = "no"
        /\ UNCHANGED <<broken, closed, table, loop, toFinish, call, gaveUp, respCh, fin, endErr, watch, rcv, got, result, said>>
    BY <1>1 DEF PluginEnds, caller
  <1>3. f \in FrameSet /\ f.on = s /\ f.kind = "end" /\ f.err = err /\ frames \in Seq(FrameSet)
    <2>1. "end" \in {"response", "end"} /\ err \in Errors /\ 0 \in 0..MaxResponses
      BY MuxAssumption DEF Errors
    <2>2. f \in FrameSet /\ f.on = s /\ f.kind = "end" /\ f.val = 0 /\ f.err = err
      BY <2>1, <1>1, FrameIs
    <2>3. frames \in Seq(FrameSet)
      BY DEF MuxInv, MuxTypeOK, FrameSet
    <2> QED  BY <2>2, <2>3
  <1>4. PICK m : m = Len(frames)
    OBVIOUS
  <1>5. /\ frames' \in Seq(FrameSet) /\ m \in Nat /\ DOMAIN frames = 1 .. m /\ DOMAIN frames' = 1 .. m + 1
        /\ frames'[m + 1] = f /\ \A i \in 1 .. m : frames'[i] = frames[i] /\ frames[i] \in FrameSet
    BY <1>2, <1>3, <1>4, AppendIs
  <1>6. ended'[s] = err /\ \A r \in Streams \ {s} : ended'[r] = ended[r]
    BY <1>2 DEF MuxInv, MuxTypeOK
  <1>7. MuxTypeOK'
    BY <1>2, <1>5 DEF MuxInv, MuxTypeOK, FrameSet
  <1>8. LoopHolds'
    BY <1>2, <1>3, <1>5 DEF MuxInv, LoopHolds
  <1>9. ASSUME NEW r \in Streams \ {s} PROVE Sound(r)'
    <2>1. AloneSame(r)
      BY <1>2, <1>6 DEF AloneSame
    <2>2. StreamSame(r)
      BY <2>1, AloneIsSame
    <2>3. Queued(r) => Queued(r)'
      BY <2>2, <1>2, <1>3, QueuedAppend
    <2>4. NotNew(r) /\ LoopSame(r)
      BY <1>2, <1>3, <1>5 DEF NotNew, LoopSame, Pending, Finishing
    <2> QED  BY <2>1, <2>3, <2>4, SoundSame DEF MuxInv
  <1>10. Sound(s)'
    <2>1. Sound(s)
      BY DEF MuxInv
    <2>2. Unopened(s)' /\ Tells(s)'
      BY <2>1, <1>2 DEF Sound, Unopened, Tells
    <2>3. Pending(s)' <=> Pending(s)
      BY <1>2 DEF Pending
    <2>4. Handed(s)' = Handed(s) /\ Reached(s)' = Reached(s)
      BY <2>3, <1>2 DEF Handed, Reached
    <2>5. PICK h : h = Handed(s)
      OBVIOUS
    <2>6. ASSUME Queued(s) PROVE Queued(s)'
      <3>1. ASSUME NEW i \in DOMAIN frames, frames[i].on = s PROVE frames[i].kind # "end"
        <4>1. frames[i].err \in {"eof", "plugin"}
          BY DEF MuxInv, LoopHolds
        <4> QED  BY <4>1, <3>1, <2>6, <1>2 DEF Queued
      <3>2. h <= said[s] /\ (Pending(s) => loop.val = h)
        BY <2>5, <2>6 DEF Queued
      <3>3. \A v \in h + 1 .. said[s] :
               \E i \in DOMAIN frames' : frames'[i].on = s /\ frames'[i].kind # "end" /\ frames'[i].val = v
        BY <2>5, <2>6, <1>5 DEF Queued
      <3>4. \A i \in DOMAIN frames' : frames'[i].on = s /\ frames'[i].kind # "end" => h < frames'[i].val /\ frames'[i].val <= said[s]
        BY <2>5, <2>6, <1>3, <1>5 DEF Queued
      <3>5. ASSUME NEW i \in DOMAIN frames', NEW j \in DOMAIN frames', i < j, frames'[i].on = s, frames'[j].on = s
            PROVE  frames'[i].kind # "end" /\ (frames'[j].kind # "end" => frames'[i].val < frames'[j].val)
        <4>1. i \in DOMAIN frames
          BY <3>5, <1>3, <1>5
        <4>2. CASE j \in DOMAIN frames
          BY <4>1, <4>2, <3>5, <2>6, <1>5 DEF Queued
        <4>3. CASE j \notin DOMAIN frames
          BY <4>1, <4>3, <3>1, <3>5, <1>3, <1>5
        <4> QED  BY <4>2, <4>3
      <3>6. ASSUME NEW i \in DOMAIN frames', frames'[i].on = s, frames'[i].kind = "end" PROVE ended'[s] = frames'[i].err
        BY <3>1, <3>6, <1>3, <1>5, <1>6
      <3> QED  BY <3>2, <3>3, <3>4, <3>5, <3>6, <2>3, <2>4, <2>5, <1>2 DEF Queued
    <2>7. Flows(s)'
      <3>1. ~Complete(s)
        BY <1>2 DEF Complete
      <3>2. (Upright(s)' <=> Upright(s)) /\ (Numbered(s)' <=> Numbered(s))
        BY <1>2 DEF Upright, Numbered
      <3> QED  BY <3>1, <3>2, <2>1, <2>3, <2>6, <1>2 DEF Sound, Flows
    <2> QED  BY <2>2, <2>7 DEF Sound
  <1> QED  BY <1>7, <1>8, <1>9, <1>10 DEF MuxInv
(***************************************************************************)
(* The steps that leave the frames and the receive loop alone.             *)
(***************************************************************************)

\* What such a step leaves of a stream alone.
Stands(r) ==
    /\ frames' = frames /\ loop' = loop /\ AloneSame(r)
    /\ r \in table' <=> r \in table
    /\ r \in toFinish' => r \in toFinish

\* A stream that a step has nothing to do with.
LEMMA StandsSound == ASSUME MuxInv, NEW r \in Streams, Stands(r) PROVE Sound(r)'
  <1>1. Sound(r)
    BY DEF MuxInv
  <1>2. StreamSame(r) /\ AloneSame(r)
    BY AloneIsSame DEF Stands
  <1>3. LoopSame(r) /\ (Queued(r) => Queued(r)')
    BY <1>2, LoopStands DEF Stands
  <1>4. NotNew(r)
    BY DEF NotNew, Stands
  <1> QED  BY <1>1, <1>2, <1>3, <1>4, SoundSame

\* The Connect stream breaks.
LEMMA BreaksStep == ASSUME MuxInv, ConnectBreaks PROVE MuxInv'
  <1>1. /\ broken' = TRUE
        /\ UNCHANGED <<closed, table, loop, toFinish, frames, call, gaveUp, respCh, fin, endErr, watch, rcv, got, result, said, ended>>
    BY DEF ConnectBreaks, caller, plugin
  <1>2. MuxTypeOK' /\ LoopHolds'
    BY <1>1 DEF MuxInv, MuxTypeOK, LoopHolds
  <1>3. \A r \in Streams : Stands(r)
    BY <1>1 DEF Stands, AloneSame
  <1> QED  BY <1>2, <1>3, StandsSound DEF MuxInv

\* The close of the session has waited for a stream.
LEMMA CloseFinishedStep == ASSUME MuxInv, NEW s \in Streams, CloseFinished(s) PROVE MuxInv'
  <1>1. /\ toFinish' = toFinish \ {s}
        /\ UNCHANGED <<broken, closed, table, loop, frames, call, gaveUp, respCh, fin, endErr, watch, rcv, got, result, said, ended>>
    BY DEF CloseFinished, LoopUnchanged, caller, plugin
  <1>2. MuxTypeOK' /\ LoopHolds'
    BY <1>1 DEF MuxInv, MuxTypeOK, LoopHolds
  <1>3. \A r \in Streams : Stands(r)
    BY <1>1 DEF Stands, AloneSame
  <1> QED  BY <1>2, <1>3, StandsSound DEF MuxInv

\* A stream that ends without an error, or whose caller has not given up.
Ends(s, err) ==
    /\ call[s] = "open" /\ (err = "context" => gaveUp[s]) /\ (err = "eof" => Complete(s))
    /\ \/ s \notin table /\ ~Pending(s)
       \/ err = "context"

\* The first step of finish.
LEMMA StreamFinishStep ==
    ASSUME MuxInv, NEW s \in Streams, NEW err \in Errors, Finish(s, err), Ends(s, err),
           UNCHANGED <<broken, closed, table, loop, toFinish, frames, call, gaveUp, respCh, watch, rcv, got, result, said, ended>>
    PROVE  MuxInv'
  <1>1. /\ fin[s] = "no" /\ fin' = [fin EXCEPT ![s] = "done"] /\ endErr' = [endErr EXCEPT ![s] = err]
        /\ fin'[s] = "done" /\ endErr'[s] = err
        /\ \A r \in Streams \ {s} : fin'[r] = fin[r] /\ endErr'[r] = endErr[r]
    BY DEF Finish, MuxInv, MuxTypeOK
  <1>2. MuxTypeOK'
    BY <1>1 DEF MuxInv, MuxTypeOK
  <1>3. LoopHolds'
    BY DEF MuxInv, LoopHolds
  <1>4. \A r \in Streams \ {s} : Stands(r)
    BY <1>1 DEF Stands, AloneSame
  <1>5. Sound(s)
    BY DEF MuxInv
  <1>6. Unopened(s)'
    BY DEF Ends, Unopened
  <1>7. Tells(s)'
    BY <1>1, <1>5 DEF Sound, Tells, Ends
  <1>8. endErr[s] = "eof"
    BY <1>1, <1>5 DEF Sound, Tells
  <1>9. Numbered(s)'
    <2>1. Numbered(s)
      BY <1>8, <1>5 DEF Sound, Flows, Upright
    <2> QED  BY <2>1 DEF Numbered
  <1>10. err = "eof" => Complete(s)'
    BY DEF Ends, Complete, Reached
  <1>11. Upright(s)' => s \notin table /\ ~Pending(s)
    BY <1>1 DEF Upright, Ends
  <1>12. Flows(s)'
    <2>1. Pending(s)' <=> Pending(s)
      BY DEF Pending
    <2>2. Finishing(s) => s \notin table
      BY <1>5 DEF Sound, Flows, Finishing
    <2> QED  BY <2>1, <2>2, <1>1, <1>9, <1>10, <1>11 DEF Flows, Finishing
  <1> QED  BY <1>2, <1>3, <1>4, <1>6, <1>7, <1>12, StandsSound DEF MuxInv, Sound

\* The receive loop ends a stream.
LEMMA LoopFinishesStep == ASSUME MuxInv, NEW s \in Streams, LoopFinishes(s) PROVE MuxInv'
  <1>1. Sound(s) /\ fin[s] = "no"
    BY DEF MuxInv, LoopFinishes, Finish
  <1>2. loop.err \in Errors /\ loop.err # "context"
    BY DEF MuxInv, LoopHolds, MuxTypeOK
  <1>3. Ends(s, loop.err)
    BY <1>1, <1>2 DEF Sound, Flows, Unopened, Ends, LoopFinishes, Pending
  <1> QED  BY <1>2, <1>3, StreamFinishStep DEF LoopFinishes, LoopUnchanged, caller, plugin

\* The close of the session ends a stream.
LEMMA CloseFinishesStep == ASSUME MuxInv, NEW s \in Streams, CloseFinishes(s) PROVE MuxInv'
  <1>1. Sound(s) /\ LoopHolds /\ "session" \in Errors
    BY DEF MuxInv, Errors
  <1>2. Ends(s, "session")
    BY <1>1 DEF Sound, Unopened, Ends, CloseFinishes, LoopHolds, Pending
  <1> QED  BY <1>1, <1>2, StreamFinishStep DEF CloseFinishes, LoopUnchanged, caller, plugin

\* The watcher ends its stream.
LEMMA WatcherFinishesStep == ASSUME MuxInv, NEW s \in Streams, WatcherFinishes(s) PROVE MuxInv'
  <1>1. Sound(s) /\ "context" \in Errors /\ fin[s] = "no"
    BY DEF MuxInv, Errors, WatcherFinishes, Finish
  <1>2. Ends(s, "context")
    BY <1>1 DEF Sound, Unopened, Tells, Ends, WatcherFinishes
  <1> QED  BY <1>1, <1>2, StreamFinishStep DEF WatcherFinishes, CallUnchanged, caller, plugin

\* A step that changes nothing of what a stream has received and how it ends.
LEMMA SpokenSound ==
    ASSUME MuxInv, NEW s \in Streams, StreamSame(s), frames' = frames, loop' = loop,
           s \in table' => s \in table, fin[s] = "no" => (s \in table' <=> s \in table),
           Unopened(s)', Tells(s)'
    PROVE  Sound(s)'
  <1>1. Sound(s)
    BY DEF MuxInv
  <1>2. Pending(s)' <=> Pending(s)
    BY DEF Pending
  <1>3. Queued(s) => Queued(s)'
    BY <1>2, QueuedSame
  <1>4. LoopSame(s)
    BY <1>2 DEF LoopSame, Finishing
  <1>5. Flows(s)'
    BY <1>1, <1>3, <1>4, FlowsSame DEF Sound
  <1> QED  BY <1>5 DEF Sound

\* The second step of finish.
LEMMA CancelsStep == ASSUME MuxInv, NEW s \in Streams, Cancels(s) PROVE MuxInv'
  <1>1. /\ fin[s] = "done" /\ fin' = [fin EXCEPT ![s] = "yes"] /\ fin'[s] = "yes"
        /\ \A r \in Streams \ {s} : fin'[r] = fin[r]
        /\ UNCHANGED <<broken, closed, table, loop, toFinish, frames, call, gaveUp, respCh, endErr, watch, rcv, got, result, said, ended>>
    BY DEF Cancels, MuxInv, MuxTypeOK, caller, plugin
  <1>2. MuxTypeOK' /\ LoopHolds'
    BY <1>1 DEF MuxInv, MuxTypeOK, LoopHolds
  <1>3. \A r \in Streams \ {s} : Stands(r)
    BY <1>1 DEF Stands, AloneSame
  <1>4. Sound(s)
    BY DEF MuxInv
  <1>5. Unopened(s)' /\ Tells(s)'
    BY <1>1, <1>4 DEF Sound, Unopened, Tells
  <1>6. StreamSame(s)
    BY <1>1 DEF StreamSame, Reached, Numbered
  <1>7. Sound(s)'
    BY <1>1, <1>5, <1>6, SpokenSound
  <1> QED  BY <1>2, <1>3, <1>7, StandsSound DEF MuxInv

\* DecodeV2 finds the stream of the plugin there or not.
LEMMA RefusesStep ==
    ASSUME MuxInv, NEW s \in Streams, NEW c \in {"checked", "refused"}, call[s] # "open", call' = [call EXCEPT ![s] = c],
           UNCHANGED <<broken, closed, table, loop, toFinish, frames, gaveUp, respCh, fin, endErr, watch, rcv, got, result, said, ended>>
    PROVE  MuxInv'
  <1>1. call'[s] = c /\ \A r \in Streams \ {s} : call'[r] = call[r]
    BY DEF MuxInv, MuxTypeOK
  <1>2. MuxTypeOK' /\ LoopHolds'
    BY DEF MuxInv, MuxTypeOK, LoopHolds
  <1>3. \A r \in Streams \ {s} : Stands(r)
    BY <1>1 DEF Stands, AloneSame
  <1>4. Sound(s)
    BY DEF MuxInv
  <1>5. Unopened(s)' /\ Tells(s)'
    BY <1>1, <1>4 DEF Sound, Unopened, Tells
  <1>6. StreamSame(s)
    BY DEF StreamSame, Reached, Numbered
  <1>7. Sound(s)'
    BY <1>5, <1>6, SpokenSound
  <1> QED  BY <1>2, <1>3, <1>7, StandsSound DEF MuxInv

\* DecodeV2 looks at the Connect stream.
LEMMA ChecksStep == ASSUME MuxInv, NEW s \in Streams, ChecksStream(s) PROVE MuxInv'
  <1>1. PICK c : c = IF broken THEN "refused" ELSE "checked"
    OBVIOUS
  <1>2. c \in {"checked", "refused"} /\ call[s] # "open" /\ call' = [call EXCEPT ![s] = c]
    BY <1>1 DEF ChecksStream
  <1> QED  BY <1>2, RefusesStep DEF ChecksStream, CallUnchanged, caller, plugin

\* DecodeV2 opens the stream, or finds the session closed.
LEMMA OpensStep == ASSUME MuxInv, NEW s \in Streams, Opens(s) PROVE MuxInv'
  <1>1. /\ call[s] = "checked"
        /\ UNCHANGED <<broken, closed, loop, toFinish, frames, gaveUp, respCh, fin, endErr, rcv, got, result, said, ended>>
    BY DEF Opens, CallUnchanged, caller, plugin
  <1>2. CASE closed
    BY <1>1, <1>2, RefusesStep DEF Opens
  <1>3. CASE ~closed
    <2>1. /\ call' = [call EXCEPT ![s] = "open"] /\ table' = table \cup {s} /\ watch' = [watch EXCEPT ![s] = "wait"]
          /\ call'[s] = "open" /\ watch'[s] = "wait"
          /\ \A r \in Streams \ {s} : call'[r] = call[r] /\ watch'[r] = watch[r]
      BY <1>3 DEF Opens, MuxInv, MuxTypeOK
    <2>2. MuxTypeOK'
      BY <1>1, <2>1 DEF MuxInv, MuxTypeOK
    <2>3. LoopHolds'
      BY <1>1, <1>3 DEF MuxInv, LoopHolds
    <2>4. \A r \in Streams \ {s} : Stands(r)
      BY <1>1, <2>1 DEF Stands, AloneSame
    <2>5. Sound(s) /\ call[s] # "open"
      BY <1>1 DEF MuxInv
    <2>6. /\ said[s] = 0 /\ ended[s] = "no" /\ \A i \in DOMAIN frames : frames[i].on # s
          /\ got[s] = <<>> /\ respCh[s] = <<>> /\ fin[s] = "no" /\ endErr[s] = "eof"
          /\ s \notin loop.on /\ rcv[s] = "idle" /\ result[s] = "none"
      BY <2>5 DEF Sound, Unopened, Tells
    <2>7. Unopened(s)' /\ Tells(s)'
      BY <1>1, <2>1, <2>6 DEF Unopened, Tells
    <2>8. ~Pending(s)' /\ Handed(s)' = 0 /\ Numbered(s)'
      BY <1>1, <2>6 DEF Pending, Handed, Reached, Numbered
    <2>9. Queued(s)'
      BY <1>1, <2>6, <2>8 DEF Queued
    <2>10. Flows(s)'
      BY <1>1, <2>1, <2>6, <2>8, <2>9 DEF Flows
    <2> QED  BY <2>2, <2>3, <2>4, <2>7, <2>10, StandsSound DEF MuxInv, Sound
  <1> QED  BY <1>2, <1>3

\* The caller gives up.
LEMMA CallerCancelsStep == ASSUME MuxInv, NEW s \in Streams, CallerCancels(s) PROVE MuxInv'
  <1>1. /\ gaveUp' = [gaveUp EXCEPT ![s] = TRUE]
        /\ UNCHANGED <<broken, closed, table, loop, toFinish, frames, call, respCh, fin, endErr, watch, rcv, got, result, said, ended>>
    BY DEF CallerCancels, CallUnchanged, caller, plugin
  <1>2. gaveUp'[s] /\ \A r \in Streams \ {s} : gaveUp'[r] = gaveUp[r]
    BY <1>1 DEF MuxInv, MuxTypeOK
  <1>3. MuxTypeOK' /\ LoopHolds'
    BY <1>1 DEF MuxInv, MuxTypeOK, LoopHolds
  <1>4. \A r \in Streams \ {s} : Stands(r)
    BY <1>1, <1>2 DEF Stands, AloneSame
  <1>5. Sound(s)
    BY DEF MuxInv
  <1>6. Unopened(s)' /\ Tells(s)'
    BY <1>1, <1>2, <1>5 DEF Sound, Unopened, Tells
  <1>7. StreamSame(s)
    BY <1>1, <1>2 DEF StreamSame, Reached, Numbered
  <1>8. Sound(s)'
    BY <1>1, <1>6, <1>7, SpokenSound
  <1> QED  BY <1>3, <1>4, <1>8, StandsSound DEF MuxInv

\* What the watcher of a stream may do next, and that the stream is off the table only if it has ended.
Watches(s, w) ==
    /\ watch[s] # "none" /\ watch' = [watch EXCEPT ![s] = w] /\ w \in {"reset", "finish", "off"}
    /\ w \in {"reset", "finish"} => gaveUp[s] \/ fin[s] # "no"
    /\ table' = table \/ (table' = table \ {s} /\ fin[s] # "no")

\* The watcher goes on.
LEMMA WatchStep ==
    ASSUME MuxInv, NEW s \in Streams, NEW w, Watches(s, w),
           UNCHANGED <<broken, closed, loop, toFinish, frames, call, gaveUp, respCh, fin, endErr, rcv, got, result, said, ended>>
    PROVE  MuxInv'
  <1>1. /\ watch' = [watch EXCEPT ![s] = w] /\ watch'[s] = w /\ w \in {"reset", "finish", "off"} /\ watch[s] # "none"
        /\ \A r \in Streams \ {s} : watch'[r] = watch[r]
        /\ w \in {"reset", "finish"} => gaveUp[s] \/ fin[s] # "no"
        /\ table' = table \/ (table' = table \ {s} /\ fin[s] # "no")
    BY DEF MuxInv, MuxTypeOK, Watches
  <1>2. MuxTypeOK' /\ LoopHolds'
    BY <1>1 DEF MuxInv, MuxTypeOK, LoopHolds
  <1>3. \A r \in Streams \ {s} : Stands(r)
    BY <1>1 DEF Stands, AloneSame
  <1>4. Sound(s)
    BY DEF MuxInv
  <1>5. Unopened(s)' /\ Tells(s)'
    BY <1>1, <1>4 DEF Sound, Unopened, Tells
  <1>6. StreamSame(s)
    BY <1>1 DEF StreamSame, Reached, Numbered
  <1>7. Sound(s)'
    BY <1>1, <1>5, <1>6, SpokenSound
  <1> QED  BY <1>2, <1>3, <1>7, StandsSound DEF MuxInv

\* The watcher wakes, sends the reset frame, or takes the stream off the table.
LEMMA WatcherStep == ASSUME MuxInv, NEW s \in Streams, WatcherWakes(s) \/ WatcherResets(s) \/ WatcherDeletes(s) PROVE MuxInv'
  <1>1. UNCHANGED <<broken, closed, loop, toFinish, frames, call, gaveUp, respCh, fin, endErr, rcv, got, result, said, ended>>
    BY DEF WatcherWakes, WatcherResets, WatcherDeletes, CallUnchanged, caller, plugin
  <1>2. ASSUME WatcherWakes(s) PROVE \E w : Watches(s, w)
    <2>1. watch[s] # "none" /\ table' = table
      BY <1>2 DEF WatcherWakes
    <2>2. CASE CtxDone(s) /\ watch' = [watch EXCEPT ![s] = "reset"]
      <3>1. gaveUp[s] \/ fin[s] # "no"
        BY <2>2 DEF CtxDone
      <3>2. Watches(s, "reset")
        BY <3>1, <2>1, <2>2 DEF Watches
      <3> QED  BY <3>2
    <2>3. CASE watch' = [watch EXCEPT ![s] = "off"]
      <3>1. Watches(s, "off")
        BY <2>1, <2>3 DEF Watches
      <3> QED  BY <3>1
    <2> QED  BY <1>2, <2>2, <2>3 DEF WatcherWakes
  <1>3. ASSUME WatcherResets(s) PROVE \E w : Watches(s, w)
    <2>1. watch[s] = "reset" /\ table' = table /\ watch' = [watch EXCEPT ![s] = "finish"]
      BY <1>3 DEF WatcherResets
    <2>2. gaveUp[s] \/ fin[s] # "no"
      BY <2>1 DEF MuxInv, Sound, Tells
    <2>3. Watches(s, "finish")
      BY <2>1, <2>2 DEF Watches
    <2> QED  BY <2>3
  <1>4. ASSUME WatcherDeletes(s) PROVE \E w : Watches(s, w)
    <2>1. watch[s] = "finish" /\ fin[s] # "no" /\ table' = table \ {s} /\ watch' = [watch EXCEPT ![s] = "off"]
      BY <1>4 DEF WatcherDeletes
    <2>2. Watches(s, "off")
      BY <2>1 DEF Watches
    <2> QED  BY <2>2
  <1>5. PICK w : Watches(s, w)
    BY <1>2, <1>3, <1>4
  <1> QED  BY <1>1, <1>5, WatchStep
\* The caller takes a response.
LEMMA TakesStep == ASSUME MuxInv, NEW s \in Streams, call[s] = "open", Takes(s) PROVE MuxInv'
  <1>1. PICK q : q = respCh[s]
    OBVIOUS
  <1>2. PICK g : g = got[s]
    OBVIOUS
  <1>3. PICK v : v = Head(q)
    OBVIOUS
  <1>4. PICK h : h = Append(g, v)
    OBVIOUS
  <1>5. PICK t : t = Tail(q)
    OBVIOUS
  <1>6. q \in Seq(0..MaxResponses) /\ g \in Seq(0..MaxResponses) /\ Len(q) <= QueueSize /\ q # <<>>
    BY <1>1, <1>2 DEF MuxInv, MuxTypeOK, Takes
  <1>7. /\ got' = [got EXCEPT ![s] = h] /\ respCh' = [respCh EXCEPT ![s] = t] /\ rcv' = [rcv EXCEPT ![s] = "idle"]
        /\ UNCHANGED <<broken, closed, table, loop, toFinish, frames, call, gaveUp, fin, endErr, watch, result, said, ended>>
    BY <1>1, <1>2, <1>3, <1>4, <1>5 DEF Takes, RecvUnchanged, plugin, MuxInv, MuxTypeOK
  <1>8. /\ got'[s] = h /\ respCh'[s] = t /\ rcv'[s] = "idle"
        /\ \A r \in Streams \ {s} : got'[r] = got[r] /\ respCh'[r] = respCh[r] /\ rcv'[r] = rcv[r]
    BY <1>7 DEF MuxInv, MuxTypeOK
  <1>9. /\ t \in Seq(0..MaxResponses) /\ Len(q) \in Nat \ {0} /\ v = q[1] /\ v \in 0..MaxResponses
        /\ DOMAIN q = 1 .. Len(q) /\ DOMAIN t = 1 .. Len(q) - 1
        /\ \A i \in 1 .. Len(q) - 1 : t[i] = q[i + 1]
    <2>1. PICK F : F = 0..MaxResponses
      OBVIOUS
    <2>2. q \in Seq(F) /\ q # <<>>
      BY <2>1, <1>6
    <2>3. /\ Tail(q) \in Seq(F) /\ Len(q) \in Nat \ {0} /\ Head(q) = q[1] /\ q[1] \in F
          /\ DOMAIN q = 1 .. Len(q) /\ DOMAIN Tail(q) = 1 .. Len(q) - 1
          /\ \A i \in 1 .. Len(q) - 1 : Tail(q)[i] = q[i + 1]
      BY <2>2, TailIs
    <2> QED  BY <2>1, <2>3, <1>3, <1>5
  <1>10. /\ h \in Seq(0..MaxResponses) /\ Len(g) \in Nat /\ DOMAIN g = 1 .. Len(g) /\ DOMAIN h = 1 .. Len(g) + 1
         /\ h[Len(g) + 1] = v /\ \A i \in 1 .. Len(g) : h[i] = g[i]
    BY <1>4, <1>6, <1>9, AppendIs
  <1>11. Len(t) = Len(q) - 1 /\ Len(h) = Len(g) + 1
    BY <1>4, <1>5, <1>6, <1>9
  <1>12. MuxTypeOK'
    <2>1. respCh' \in [Streams -> Seq(0..MaxResponses)] /\ got' \in [Streams -> Seq(0..MaxResponses)]
      BY <1>7, <1>9, <1>10 DEF MuxInv, MuxTypeOK
    <2>2. \A r \in Streams : Len(respCh'[r]) <= QueueSize
      <3>1. Len(t) <= QueueSize
        BY <1>6, <1>9, <1>11, MuxAssumption
      <3> QED  BY <3>1, <1>8 DEF MuxInv, MuxTypeOK
    <2> QED  BY <2>1, <2>2, <1>7 DEF MuxInv, MuxTypeOK
  <1>13. LoopHolds'
    BY <1>7 DEF MuxInv, LoopHolds
  <1>14. \A r \in Streams \ {s} : Stands(r)
    BY <1>7, <1>8 DEF Stands, AloneSame
  <1>15. Sound(s)
    BY DEF MuxInv
  <1>16. Unopened(s)'
    BY <1>7 DEF Unopened
  <1>17. Tells(s)'
    BY <1>1, <1>6, <1>7, <1>8, <1>15 DEF Sound, Tells
  <1>18. StreamSame(s)
    <2>1. Reached(s)' = Reached(s)
      <3>1. Reached(s) = Len(g) + Len(q) /\ Reached(s)' = Len(h) + Len(t)
        BY <1>1, <1>2, <1>8 DEF Reached
      <3>2. Len(g) \in Nat /\ Len(q) \in Nat
        BY <1>9, <1>10
      <3> QED  BY <3>1, <3>2, <1>11
    <2>2. ASSUME Numbered(s) PROVE Numbered(s)'
      <3>1. (\A i \in 1 .. Len(g) : g[i] = i) /\ \A i \in 1 .. Len(q) : q[i] = Len(g) + i
        BY <2>2, <1>1, <1>2, <1>9, <1>10 DEF Numbered
      <3>2. v = Len(g) + 1
        BY <3>1, <1>9
      <3>3. \A i \in 1 .. Len(g) + 1 : h[i] = i
        BY <3>1, <3>2, <1>10
      <3>4. \A i \in 1 .. Len(q) - 1 : t[i] = Len(h) + i
        BY <3>1, <1>9, <1>10, <1>11
      <3> QED  BY <3>3, <3>4, <1>8, <1>9, <1>10 DEF Numbered
    <2> QED  BY <2>1, <2>2, <1>7 DEF StreamSame
  <1>19. Sound(s)'
    BY <1>7, <1>16, <1>17, <1>18, SpokenSound
  <1> QED  BY <1>12, <1>13, <1>14, <1>19, StandsSound DEF MuxInv

\* The caller goes on in Recv, which it may do to a place that what it saw allows.
LEMMA GoesStep ==
    ASSUME MuxInv, NEW s \in Streams, NEW p \in {"polled", "select", "ctx", "ctx2", "after"}, call[s] = "open", Goes(s, p),
           p \in {"ctx", "ctx2"} => gaveUp[s] \/ fin[s] # "no", p = "after" => fin[s] # "no"
    PROVE  MuxInv'
  <1>1. /\ rcv' = [rcv EXCEPT ![s] = p] /\ rcv'[s] = p /\ \A r \in Streams \ {s} : rcv'[r] = rcv[r]
        /\ UNCHANGED <<broken, closed, table, loop, toFinish, frames, call, gaveUp, respCh, fin, endErr, watch, got, result, said, ended>>
    BY DEF Goes, RecvUnchanged, plugin, MuxInv, MuxTypeOK
  <1>2. MuxTypeOK' /\ LoopHolds'
    BY <1>1 DEF MuxInv, MuxTypeOK, LoopHolds
  <1>3. \A r \in Streams \ {s} : Stands(r)
    BY <1>1 DEF Stands, AloneSame
  <1>4. Sound(s)
    BY DEF MuxInv
  <1>5. Unopened(s)' /\ Tells(s)'
    BY <1>1, <1>4 DEF Sound, Unopened, Tells
  <1>6. StreamSame(s)
    BY <1>1 DEF StreamSame, Reached, Numbered
  <1>7. Sound(s)'
    BY <1>1, <1>5, <1>6, SpokenSound
  <1> QED  BY <1>2, <1>3, <1>7, StandsSound DEF MuxInv

\* Recv returns the error of the stream, its responses all taken, or that the caller gave up.
LEMMA ReturnsStep ==
    ASSUME MuxInv, NEW s \in Streams, NEW err, call[s] = "open", RecvReturns(s, err),
           (fin[s] # "no" /\ err = endErr[s] /\ respCh[s] = <<>>) \/ (err = "context" /\ gaveUp[s])
    PROVE  MuxInv'
  <1>1. Sound(s)
    BY DEF MuxInv
  <1>2. err \in Errors
    <2>1. endErr[s] \in Errors /\ "context" \in Errors
      BY DEF MuxInv, MuxTypeOK, Errors
    <2> QED  BY <2>1
  <1>3. /\ rcv' = [rcv EXCEPT ![s] = "over"] /\ rcv'[s] = "over" /\ result' = [result EXCEPT ![s] = err] /\ result'[s] = err
        /\ \A r \in Streams \ {s} : rcv'[r] = rcv[r] /\ result'[r] = result[r]
        /\ UNCHANGED <<broken, closed, table, loop, toFinish, frames, call, gaveUp, respCh, fin, endErr, watch, got, said, ended>>
    BY DEF RecvReturns, RecvUnchanged, plugin, MuxInv, MuxTypeOK
  <1>4. MuxTypeOK' /\ LoopHolds'
    BY <1>2, <1>3 DEF MuxInv, MuxTypeOK, LoopHolds
  <1>5. \A r \in Streams \ {s} : Stands(r)
    BY <1>3 DEF Stands, AloneSame
  <1>6. Unopened(s)'
    BY <1>3 DEF Unopened
  <1>7. Tells(s)'
    BY <1>1, <1>3 DEF Sound, Tells
  <1>8. StreamSame(s)
    BY <1>3 DEF StreamSame, Reached, Numbered
  <1>9. Sound(s)'
    BY <1>3, <1>6, <1>7, <1>8, SpokenSound
  <1> QED  BY <1>4, <1>5, <1>9, StandsSound DEF MuxInv

\* A call of Recv, and each of its selects and polls.
LEMMA RecvStep == ASSUME MuxInv, NEW s \in Streams, Recv(s) \/ InRecv(s) PROVE MuxInv'
  <1>1. Sound(s)
    BY DEF MuxInv
  <1>2. rcv[s] # "idle" => call[s] = "open"
    BY <1>1 DEF Sound, Unopened
  <1>3. CASE Recv(s)
    BY <1>3, TakesStep, GoesStep DEF Recv
  <1>4. CASE RecvChecksDone(s)
    <2>1. call[s] = "open"
      BY <1>2, <1>4 DEF RecvChecksDone
    <2>2. CASE fin[s] # "no"
      BY <2>1, <2>2, <1>4, GoesStep DEF RecvChecksDone, Done
    <2>3. CASE fin[s] = "no"
      BY <2>1, <2>3, <1>4, GoesStep DEF RecvChecksDone, Done
    <2> QED  BY <2>2, <2>3
  <1>5. CASE RecvSelects(s)
    <2>1. call[s] = "open"
      BY <1>2, <1>5 DEF RecvSelects
    <2>2. CASE Takes(s)
      BY <2>1, <2>2, TakesStep
    <2>3. CASE Done(s) /\ Goes(s, "after")
      BY <2>1, <2>3, GoesStep DEF Done
    <2>4. CASE CtxDone(s) /\ Goes(s, "ctx")
      BY <2>1, <2>4, GoesStep DEF CtxDone
    <2> QED  BY <2>2, <2>3, <2>4, <1>5 DEF RecvSelects
  <1>6. CASE RecvCtx(s)
    <2>1. call[s] = "open" /\ (gaveUp[s] \/ fin[s] # "no")
      BY <1>1, <1>2, <1>6 DEF RecvCtx, Sound, Tells
    <2>2. CASE Takes(s)
      BY <2>1, <2>2, TakesStep
    <2>3. CASE Goes(s, "ctx2")
      BY <2>1, <2>3, GoesStep
    <2> QED  BY <2>2, <2>3, <1>6 DEF RecvCtx
  <1>7. CASE RecvCtxChecks(s)
    <2>1. call[s] = "open" /\ (gaveUp[s] \/ fin[s] # "no")
      BY <1>1, <1>2, <1>7 DEF RecvCtxChecks, Sound, Tells
    <2>2. CASE Done(s)
      BY <2>1, <2>2, <1>7, GoesStep DEF RecvCtxChecks, Done
    <2>3. CASE ~Done(s)
      <3>1. gaveUp[s] /\ RecvReturns(s, "context")
        BY <2>1, <2>3, <1>7 DEF RecvCtxChecks, Done
      <3> QED  BY <3>1, <2>1, ReturnsStep
    <2> QED  BY <2>2, <2>3
  <1>8. CASE recvAfterDone(s)
    <2>1. call[s] = "open" /\ fin[s] # "no"
      BY <1>1, <1>2, <1>8 DEF recvAfterDone, Sound, Tells
    <2>2. CASE Takes(s)
      BY <2>1, <2>2, TakesStep
    <2>3. CASE respCh[s] = <<>> /\ RecvReturns(s, endErr[s])
      BY <2>1, <2>3, ReturnsStep
    <2> QED  BY <2>2, <2>3, <1>8 DEF recvAfterDone
  <1> QED  BY <1>3, <1>4, <1>5, <1>6, <1>7, <1>8 DEF InRecv
(***************************************************************************)
(* The steps of the receive loop.                                          *)
(***************************************************************************)

\* A stream the loop is not at, when the loop goes on without a frame.
NotAt(r) ==
    /\ frames' = frames /\ AloneSame(r) /\ r \notin loop.on /\ r \notin loop'.on
    /\ r \in table' => r \in table
    /\ r \in toFinish' => r \in toFinish \/ r \in table

\* A stream the loop is not at stays sound.
LEMMA NotAtSound == ASSUME MuxInv, NEW r \in Streams, NotAt(r) PROVE Sound(r)'
  <1>1. Sound(r)
    BY DEF MuxInv
  <1>2. ~Pending(r) /\ ~Pending(r)' /\ ~Finishing(r)'
    BY DEF Pending, Finishing, NotAt
  <1>3. StreamSame(r) /\ AloneSame(r) /\ NotNew(r) /\ LoopSame(r)
    BY <1>2, AloneIsSame DEF NotAt, NotNew, LoopSame
  <1>4. Queued(r) => Queued(r)'
    BY <1>2, <1>3, QueuedSame DEF NotAt
  <1> QED  BY <1>1, <1>3, <1>4, SoundSame

\* The stream the loop is at, and no other.
LEMMA OnlyOne == ASSUME MuxInv, NEW s \in loop.on PROVE \A r \in Streams \ {s} : r \notin loop.on
  BY DEF MuxInv, LoopHolds

\* The loop delivers a response.
LEMMA DeliversStep == ASSUME MuxInv, NEW s \in Streams, Delivers(s) PROVE MuxInv'
  <1>1. PICK q : q = respCh[s]
    OBVIOUS
  <1>2. PICK v : v = loop.val
    OBVIOUS
  <1>3. PICK p : p = Append(q, v)
    OBVIOUS
  <1>4. /\ respCh' = [respCh EXCEPT ![s] = p] /\ respCh'[s] = p /\ \A r \in Streams \ {s} : respCh'[r] = respCh[r]
        /\ loop' = Idle /\ s \in loop.on /\ Pending(s) /\ Len(q) < QueueSize
        /\ UNCHANGED <<broken, closed, table, toFinish, frames, call, gaveUp, fin, endErr, watch, rcv, got, result, said, ended>>
    BY <1>1, <1>2, <1>3 DEF Delivers, LoopUnchanged, RespRoom, Pending, caller, plugin, MuxInv, MuxTypeOK
  <1>5. q \in Seq(0..MaxResponses) /\ v \in 0..MaxResponses
    BY <1>1, <1>2 DEF MuxInv, MuxTypeOK
  <1>6. /\ p \in Seq(0..MaxResponses) /\ Len(q) \in Nat /\ DOMAIN q = 1 .. Len(q) /\ DOMAIN p = 1 .. Len(q) + 1
        /\ p[Len(q) + 1] = v /\ \A i \in 1 .. Len(q) : p[i] = q[i]
    BY <1>3, <1>5, AppendIs
  <1>7. Len(p) = Len(q) + 1
    BY <1>3, <1>5
  <1>8. loop'.pc = "recv" /\ loop'.on = {} /\ loop'.err = "eof"
    BY <1>4 DEF Idle
  <1>9. MuxTypeOK'
    <2>1. respCh' \in [Streams -> Seq(0..MaxResponses)]
      BY <1>4, <1>6 DEF MuxInv, MuxTypeOK
    <2>2. \A r \in Streams : Len(respCh'[r]) <= QueueSize
      <3>1. Len(p) <= QueueSize
        BY <1>4, <1>6, <1>7, MuxAssumption
      <3> QED  BY <3>1, <1>4 DEF MuxInv, MuxTypeOK
    <2>3. loop' \in [pc : {"recv", "deliver", "blocked", "finish", "closing"}, on : SUBSET Streams, val : 0..MaxResponses, err : Errors]
      BY <1>4, MuxAssumption DEF Idle, Errors
    <2> QED  BY <2>1, <2>2, <2>3, <1>4 DEF MuxInv, MuxTypeOK
  <1>10. LoopHolds'
    BY <1>4, <1>8 DEF MuxInv, LoopHolds
  <1>11. \A r \in Streams \ {s} : NotAt(r)
    BY <1>4, <1>8, OnlyOne DEF NotAt, AloneSame
  <1>12. Sound(s)
    BY DEF MuxInv
  <1>13. ~Upright(s) \/ fin[s] = "no"
    BY <1>4, <1>12 DEF Sound, Flows
  <1>14. Unopened(s)'
    BY <1>4, <1>12 DEF Sound, Unopened
  <1>15. Tells(s)'
    <2>1. result[s] # "eof"
      BY <1>13, <1>12 DEF Sound, Tells, Upright
    <2> QED  BY <2>1, <1>4, <1>12 DEF Sound, Tells
  <1>16. ~Pending(s)' /\ ~Finishing(s)' /\ (Upright(s)' <=> Upright(s))
    BY <1>4, <1>8 DEF Pending, Finishing, Upright
  <1>17. CASE fin[s] = "no"
    <2>1. s \in table /\ Queued(s) /\ endErr[s] = "eof"
      BY <1>4, <1>12, <1>17 DEF Sound, Flows, Tells
    <2>2. Numbered(s)
      BY <2>1, <1>12 DEF Sound, Flows, Upright
    <2>3. Len(got[s]) \in Nat
      BY DEF MuxInv, MuxTypeOK
    <2>4. Handed(s) = Len(got[s]) + Len(q) + 1 /\ v = Handed(s)
      BY <2>1, <1>1, <1>2, <1>4 DEF Queued, Handed, Reached
    <2>5. Reached(s)' = Len(got[s]) + Len(p)
      BY <1>4 DEF Reached
    <2>6. Handed(s)' = Handed(s)
      <3>1. Handed(s)' = Reached(s)'
        BY <1>16, <2>3, <2>5, <1>6, <1>7 DEF Handed
      <3>2. PICK n \in Nat : n = Len(got[s])
        BY <2>3
      <3>3. PICK k \in Nat : k = Len(q)
        BY <1>6
      <3>4. Handed(s)' = n + (k + 1) /\ Handed(s) = n + k + 1
        BY <3>1, <3>2, <3>3, <2>4, <2>5, <1>7
      <3> QED  BY <3>4
    <2>7. Queued(s)'
      <3>1. PICK h : h = Handed(s)
        OBVIOUS
      <3> QED  BY <3>1, <2>1, <2>6, <1>4, <1>16 DEF Queued
    <2>8. Numbered(s)'
      <3>1. \A i \in 1 .. Len(q) + 1 : p[i] = Len(got[s]) + i
        <4>1. \A i \in 1 .. Len(q) : q[i] = Len(got[s]) + i
          BY <2>2, <1>1, <1>6 DEF Numbered
        <4>2. PICK n \in Nat : n = Len(got[s])
          BY <2>3
        <4>3. PICK k \in Nat : k = Len(q)
          BY <1>6
        <4>4. v = n + k + 1
          BY <4>2, <4>3, <2>4
        <4>5. /\ \A i \in 1 .. k : p[i] = n + i
              /\ p[k + 1] = n + (k + 1)
          <5>1. p[k + 1] = v
            BY <4>3, <1>6
          <5>2. \A i \in 1 .. k : p[i] = n + i
            BY <4>1, <4>2, <4>3, <1>6
          <5> QED  BY <5>1, <5>2, <4>4
        <4>6. \A i \in 1 .. k + 1 : p[i] = n + i
          BY <4>5
        <4> QED  BY <4>2, <4>3, <4>6
      <3> QED  BY <3>1, <2>2, <1>4, <1>6 DEF Numbered
    <2>9. Flows(s)'
      BY <2>1, <2>7, <2>8, <1>4, <1>16, <1>17 DEF Flows, Finishing
    <2> QED  BY <2>9, <1>14, <1>15, <1>9, <1>10, <1>11, NotAtSound DEF MuxInv, Sound
  <1>18. CASE fin[s] # "no"
    <2>1. ~Upright(s) /\ endErr[s] # "eof"
      BY <1>13, <1>18 DEF Upright
    <2>2. Flows(s)'
      BY <2>1, <1>4, <1>16, <1>18 DEF Flows, Finishing
    <2> QED  BY <2>2, <1>14, <1>15, <1>9, <1>10, <1>11, NotAtSound DEF MuxInv, Sound
  <1> QED  BY <1>17, <1>18

\* The loop gives a response up, or is done with the stream it ended.
LEMMA IdlesStep == ASSUME MuxInv, NEW s \in Streams, Discards(s) \/ LoopFinished(s) PROVE MuxInv'
  <1>1. /\ loop' = Idle /\ s \in loop.on /\ fin[s] # "no"
        /\ UNCHANGED <<broken, closed, table, toFinish, frames, call, gaveUp, respCh, fin, endErr, watch, rcv, got, result, said, ended>>
    BY DEF Discards, LoopFinished, LoopUnchanged, Done, caller, plugin
  <1>2. loop'.pc = "recv" /\ loop'.on = {} /\ loop'.err = "eof"
    BY <1>1 DEF Idle
  <1>3. MuxTypeOK'
    <2>1. loop' \in [pc : {"recv", "deliver", "blocked", "finish", "closing"}, on : SUBSET Streams, val : 0..MaxResponses, err : Errors]
      BY <1>1, MuxAssumption DEF Idle, Errors
    <2> QED  BY <2>1, <1>1 DEF MuxInv, MuxTypeOK
  <1>4. LoopHolds'
    BY <1>1, <1>2 DEF MuxInv, LoopHolds
  <1>5. \A r \in Streams \ {s} : NotAt(r)
    BY <1>1, <1>2, OnlyOne DEF NotAt, AloneSame
  <1>6. Sound(s)
    BY DEF MuxInv
  <1>7. AloneSame(s) /\ NotNew(s) /\ LoopSame(s)
    BY <1>1, <1>2 DEF AloneSame, NotNew, LoopSame, Pending, Finishing
  <1>8. Sound(s)'
    BY <1>1, <1>6, <1>7, SoundSame
  <1> QED  BY <1>3, <1>4, <1>5, <1>8, NotAtSound DEF MuxInv

\* The loop waits for room.
LEMMA BlocksStep == ASSUME MuxInv, NEW s \in Streams, Blocks(s) PROVE MuxInv'
  <1>1. /\ loop' = [loop EXCEPT !.pc = "blocked"] /\ s \in loop.on /\ loop.pc = "deliver"
        /\ UNCHANGED <<broken, closed, table, toFinish, frames, call, gaveUp, respCh, fin, endErr, watch, rcv, got, result, said, ended>>
    BY DEF Blocks, LoopUnchanged, caller, plugin
  <1>2. loop'.pc = "blocked" /\ loop'.on = loop.on /\ loop'.err = loop.err /\ loop'.val = loop.val
    BY <1>1 DEF MuxInv, MuxTypeOK
  <1>3. MuxTypeOK'
    <2>1. loop' \in [pc : {"recv", "deliver", "blocked", "finish", "closing"}, on : SUBSET Streams, val : 0..MaxResponses, err : Errors]
      BY <1>1 DEF MuxInv, MuxTypeOK
    <2> QED  BY <2>1, <1>1 DEF MuxInv, MuxTypeOK
  <1>4. LoopHolds'
    BY <1>1, <1>2 DEF MuxInv, LoopHolds
  <1>5. ASSUME NEW r \in Streams PROVE Sound(r)'
    <2>1. Sound(r)
      BY DEF MuxInv
    <2>2. Pending(r)' <=> Pending(r)
      BY <1>1, <1>2 DEF Pending
    <2>3. AloneSame(r) /\ NotNew(r) /\ LoopSame(r)
      BY <2>2, <1>1, <1>2 DEF AloneSame, NotNew, LoopSame, Finishing
    <2>4. Queued(r) => Queued(r)'
      BY <2>2, <2>3, <1>1, <1>2, AloneIsSame, QueuedSame
    <2> QED  BY <2>1, <2>3, <2>4, SoundSame
  <1> QED  BY <1>3, <1>4, <1>5 DEF MuxInv

\* The wait for room has run out.
LEMMA TimesOutStep == ASSUME MuxInv, NEW s \in Streams, TimesOut(s) PROVE MuxInv'
  <1>1. /\ table' = table \ {s} /\ s \in loop.on /\ Pending(s) /\ loop.pc = "blocked"
        /\ UNCHANGED <<broken, closed, toFinish, frames, call, gaveUp, respCh, fin, endErr, watch, rcv, got, result, said, ended>>
    BY DEF TimesOut, LoopUnchanged, Pending, caller, plugin
  <1>2. /\ loop' \in [pc : {"recv", "deliver", "blocked", "finish", "closing"}, on : SUBSET Streams, val : 0..MaxResponses, err : Errors]
        /\ loop'.pc \in {"finish", "recv"} /\ loop'.on \subseteq loop.on /\ loop'.err # "context"
        /\ loop'.pc = "finish" => loop'.err = "overflow"
    <2>1. CASE s \in table
      <3>1. loop' = [loop EXCEPT !.pc = "finish", !.err = "overflow"]
        BY <2>1 DEF TimesOut
      <3> QED  BY <3>1 DEF MuxInv, MuxTypeOK, Errors
    <2>2. CASE s \notin table
      <3>1. loop' = Idle
        BY <2>2 DEF TimesOut
      <3> QED  BY <3>1, MuxAssumption DEF Idle, Errors
    <2> QED  BY <2>1, <2>2
  <1>3. MuxTypeOK'
    BY <1>1, <1>2 DEF MuxInv, MuxTypeOK
  <1>4. LoopHolds'
    BY <1>1, <1>2 DEF MuxInv, LoopHolds
  <1>5. \A r \in Streams \ {s} : NotAt(r)
    BY <1>1, <1>2, OnlyOne DEF NotAt, AloneSame
  <1>6. Sound(s)
    BY DEF MuxInv
  <1>7. AloneSame(s) /\ StreamSame(s)
    <2>1. AloneSame(s)
      BY <1>1 DEF AloneSame
    <2> QED  BY <2>1, AloneIsSame
  <1>8. Tells(s)' /\ Unopened(s)'
    <2>1. Unopened(s)'
      BY <1>1, <1>6 DEF Sound, Unopened
    <2> QED  BY <2>1, <1>6, <1>7, TellsSame DEF Sound
  <1>9. Flows(s)'
    <2>1. s \notin table' /\ ~Pending(s)'
      BY <1>1, <1>2 DEF Pending
    <2>2. (Upright(s)' <=> Upright(s)) /\ (Numbered(s)' <=> Numbered(s)) /\ (Complete(s)' <=> Complete(s))
      BY <1>1 DEF Upright, Numbered, Complete, Reached
    <2> QED  BY <2>1, <2>2, <1>1, <1>2, <1>6 DEF Sound, Flows
  <1> QED  BY <1>3, <1>4, <1>5, <1>8, <1>9, NotAtSound DEF MuxInv, Sound

\* The loop closes the session.
LEMMA ClosesStep == ASSUME MuxInv, CloseSession PROVE MuxInv'
  <1>1. /\ loop.pc = "recv" /\ closed' = TRUE /\ toFinish' = table /\ table' = {} /\ loop' = [Idle EXCEPT !.pc = "closing"]
        /\ UNCHANGED <<broken, frames, call, gaveUp, respCh, fin, endErr, watch, rcv, got, result, said, ended>>
    BY DEF CloseSession, LoopUnchanged, caller, plugin
  <1>2. /\ loop' \in [pc : {"recv", "deliver", "blocked", "finish", "closing"}, on : SUBSET Streams, val : 0..MaxResponses, err : Errors]
        /\ loop'.pc = "closing" /\ loop'.on = {} /\ loop'.err = "eof"
    BY <1>1, MuxAssumption DEF Idle, Errors
  <1>3. MuxTypeOK'
    BY <1>1, <1>2 DEF MuxInv, MuxTypeOK
  <1>4. LoopHolds'
    BY <1>1, <1>2 DEF MuxInv, LoopHolds
  <1>5. ASSUME NEW r \in Streams PROVE Sound(r)'
    <2>1. Sound(r)
      BY DEF MuxInv
    <2>2. AloneSame(r) /\ NotNew(r) /\ LoopSame(r)
      BY <1>1, <1>2 DEF AloneSame, NotNew, LoopSame, Pending, Finishing
    <2> QED  BY <2>1, <2>2, <1>1, SoundSame
  <1> QED  BY <1>3, <1>4, <1>5 DEF MuxInv
\* What the loop takes, and what is left.
Dispatched(f, n) ==
    /\ loop.pc = "recv" /\ n \in Nat /\ n = Len(frames) - 1 /\ frames' = Tail(frames) /\ frames' \in Seq(FrameSet)
    /\ f \in FrameSet /\ f = Head(frames) /\ frames \in Seq(FrameSet) /\ frames # <<>>
    /\ DOMAIN frames = 1 .. n + 1 /\ frames[1] = f /\ DOMAIN frames' = 1 .. n
    /\ \A i \in 1 .. n : frames'[i] = frames[i + 1]
    /\ UNCHANGED <<broken, closed, toFinish, call, gaveUp, respCh, fin, endErr, watch, rcv, got, result, said, ended>>

\* The loop takes a frame.
LEMMA DispatchIs == ASSUME MuxInv, Dispatches PROVE \E f, n : Dispatched(f, n)
  <1>1. PICK F : F = FrameSet
    OBVIOUS
  <1>2. frames \in Seq(F) /\ frames # <<>> /\ frames' = Tail(frames)
    BY <1>1 DEF Dispatches, MuxInv, MuxTypeOK, FrameSet
  <1>3. /\ Tail(frames) \in Seq(F) /\ Len(frames) \in Nat \ {0} /\ Head(frames) = frames[1] /\ frames[1] \in F
        /\ DOMAIN frames = 1 .. Len(frames) /\ DOMAIN Tail(frames) = 1 .. Len(frames) - 1
        /\ \A i \in 1 .. Len(frames) - 1 : Tail(frames)[i] = frames[i + 1]
    BY <1>2, TailIs
  <1>4. PICK n : n = Len(frames) - 1
    OBVIOUS
  <1>5. n \in Nat /\ Len(frames) = n + 1
    BY <1>3, <1>4
  <1>6. loop.pc = "recv" /\ UNCHANGED <<broken, closed, toFinish, call, gaveUp, respCh, fin, endErr, watch, rcv, got, result, said, ended>>
    BY DEF Dispatches, LoopUnchanged, caller, plugin
  <1>7. Dispatched(frames[1], n)
    BY <1>1, <1>2, <1>3, <1>4, <1>5, <1>6 DEF Dispatched
  <1> QED  BY <1>7

\* What the next frame of a stream is, when the loop has nothing of it in hand.
LEMMA HeadIs ==
    ASSUME MuxInv, NEW s \in Streams, NEW f, NEW n, Dispatched(f, n), f.on = s, Queued(s)
    PROVE  /\ Handed(s) = Reached(s) /\ Reached(s) \in Nat
           /\ f.kind = "end" => Complete(s) \/ f.err # "eof"
           /\ f.kind # "end" => f.val = Reached(s) + 1
  <1>1. Handed(s) = Reached(s) /\ Reached(s) \in Nat
    <2>1. ~Pending(s)
      BY DEF Pending, Dispatched
    <2>2. Len(got[s]) \in Nat /\ Len(respCh[s]) \in Nat
      BY DEF MuxInv, MuxTypeOK
    <2>3. Reached(s) \in Nat
      <3>1. PICK a \in Nat : a = Len(got[s])
        BY <2>2
      <3>2. PICK b \in Nat : b = Len(respCh[s])
        BY <2>2
      <3>3. Reached(s) = a + b
        BY <3>1, <3>2 DEF Reached
      <3> QED  BY <3>3
    <2>4. Handed(s) = Reached(s) + 0
      BY <2>1 DEF Handed
    <2> QED  BY <2>3, <2>4
  <1>2. PICK h : h = Handed(s)
    OBVIOUS
  <1>3. h \in Nat /\ h <= said[s] /\ said[s] \in Nat /\ n \in Nat /\ DOMAIN frames = 1 .. n + 1 /\ frames[1] = f
    BY <1>1, <1>2, MuxAssumption DEF Queued, MuxInv, MuxTypeOK, Dispatched
  <1>4. ASSUME f.kind = "end" PROVE h = said[s] /\ ended[s] = f.err
    <2>1. ended[s] = f.err
      BY <1>3, <1>4 DEF Queued
    <2>2. SUFFICES ASSUME h < said[s] PROVE FALSE
      BY <2>1, <1>3
    <2>3. PICK i \in DOMAIN frames : frames[i].on = s /\ frames[i].kind # "end"
      <3>1. h + 1 \in h + 1 .. said[s]
        BY <2>2, <1>3
      <3> QED  BY <3>1, <1>2 DEF Queued
    <2>4. 1 < i /\ 1 \in DOMAIN frames
      BY <2>3, <1>3, <1>4
    <2> QED  BY <2>3, <2>4, <1>3, <1>4 DEF Queued
  <1>5. ASSUME f.kind # "end" PROVE f.val = h + 1
    <2>1. h < f.val /\ f.val <= said[s] /\ f.val \in Int
      <3>1. h < f.val /\ f.val <= said[s]
        BY <1>2, <1>3, <1>5 DEF Queued
      <3> QED  BY <3>1 DEF Dispatched, FrameSet
    <2>2. PICK i \in DOMAIN frames : frames[i].on = s /\ frames[i].kind # "end" /\ frames[i].val = h + 1
      <3>1. h + 1 \in h + 1 .. said[s]
        BY <2>1, <1>3
      <3> QED  BY <3>1, <1>2 DEF Queued
    <2>3. CASE i = 1
      BY <2>2, <2>3, <1>3
    <2>4. CASE i # 1
      <3>1. 1 < i /\ 1 \in DOMAIN frames
        BY <2>4, <1>3
      <3>2. f.val < h + 1
        BY <3>1, <2>2, <1>3 DEF Queued
      <3> QED  BY <3>2, <2>1, <1>3
    <2> QED  BY <2>3, <2>4
  <1> QED  BY <1>1, <1>2, <1>4, <1>5 DEF Complete

\* The other streams, when the loop takes a frame.
LEMMA DispatchAside ==
    ASSUME MuxInv, NEW r \in Streams, NEW f, NEW n, Dispatched(f, n), f.on # r \/ r \notin table, ~Pending(r)', ~Finishing(r)',
           r \in table' => r \in table, r \notin loop'.on \/ r = f.on
    PROVE  Sound(r)'
  <1>1. Sound(r)
    BY DEF MuxInv
  <1>2. ~Pending(r)
    BY DEF Pending, Dispatched
  <1>3. AloneSame(r)
    BY DEF AloneSame, Dispatched
  <1>4. NotNew(r)
    <2>1. r \in loop'.on => call[r] = "open"
      BY <1>1 DEF Sound, Unopened, Dispatched
    <2> QED  BY <2>1 DEF NotNew, Dispatched
  <1>5. StreamSame(r) /\ LoopSame(r)
    BY <1>2, <1>3, AloneIsSame DEF LoopSame
  <1>6. r \in table' /\ Queued(r) => Queued(r)'
    <2>1. r \in table' => Head(frames).on # r
      BY DEF Dispatched
    <2>2. PICK F : F = FrameSet
      OBVIOUS
    <2>3. frames \in Seq(F) /\ frames # <<>> /\ frames' = Tail(frames)
      BY <2>2 DEF Dispatched
    <2> QED  BY <2>1, <2>3, <1>2, <1>5, QueuedTail
  <1> QED  BY <1>1, <1>3, <1>4, <1>5, <1>6, SoundSame

\* A response is in the loop's hands.
LEMMA QueuedInHand ==
    ASSUME MuxInv, NEW s \in Streams, NEW f, NEW n, Dispatched(f, n), f.on = s, f.kind # "end", Queued(s),
           Pending(s)', loop'.val = f.val
    PROVE  Queued(s)'
  <1>1. PICK h : h = Reached(s)
    OBVIOUS
  <1>2. h \in Nat /\ Handed(s) = h /\ f.val = h + 1 /\ said[s] \in Nat /\ n \in Nat /\ DOMAIN frames = 1 .. n + 1 /\ frames[1] = f
    <2>1. said[s] \in Nat
      BY MuxAssumption DEF MuxInv, MuxTypeOK
    <2> QED  BY <2>1, <1>1, HeadIs DEF Dispatched
  <1>3. DOMAIN frames' = 1 .. n /\ (\A i \in 1 .. n : frames'[i] = frames[i + 1]) /\ said'[s] = said[s] /\ ended'[s] = ended[s]
    BY DEF Dispatched
  <1>4. Handed(s)' = h + 1
    <2>1. Reached(s)' = Reached(s)
      BY DEF Reached, Dispatched
    <2> QED  BY <2>1, <1>1 DEF Handed
  <1>5. h + 1 <= said[s]
    BY <1>2 DEF Queued
  <1>6. ASSUME NEW v \in h + 2 .. said[s]
        PROVE  \E i \in DOMAIN frames' : frames'[i].on = s /\ frames'[i].kind # "end" /\ frames'[i].val = v
    <2>1. v \in h + 1 .. said[s] /\ v # h + 1
      BY <1>2
    <2>2. PICK i \in DOMAIN frames : frames[i].on = s /\ frames[i].kind # "end" /\ frames[i].val = v
      BY <2>1, <1>2 DEF Queued
    <2>3. i - 1 \in DOMAIN frames' /\ frames'[i - 1] = frames[i]
      BY <2>1, <2>2, <1>2, <1>3
    <2> QED  BY <2>2, <2>3
  <1>7. ASSUME NEW i \in DOMAIN frames', frames'[i].on = s, frames'[i].kind # "end" PROVE h + 1 < frames'[i].val /\ frames'[i].val <= said[s]
    <2>1. i + 1 \in DOMAIN frames /\ 1 \in DOMAIN frames /\ 1 < i + 1 /\ frames'[i] = frames[i + 1]
      BY <1>2, <1>3
    <2> QED  BY <2>1, <1>2, <1>7 DEF Queued
  <1>8. \A i, j \in DOMAIN frames' : i < j /\ frames'[i].on = s /\ frames'[j].on = s =>
           frames'[i].kind # "end" /\ (frames'[j].kind # "end" => frames'[i].val < frames'[j].val)
    <2>1. ASSUME NEW i \in DOMAIN frames', NEW j \in DOMAIN frames', i < j, frames'[i].on = s, frames'[j].on = s
          PROVE  frames'[i].kind # "end" /\ (frames'[j].kind # "end" => frames'[i].val < frames'[j].val)
      <3>1. /\ i + 1 \in DOMAIN frames /\ j + 1 \in DOMAIN frames /\ i + 1 < j + 1
            /\ frames'[i] = frames[i + 1] /\ frames'[j] = frames[j + 1]
        BY <2>1, <1>2, <1>3
      <3> QED  BY <3>1, <2>1 DEF Queued
    <2> QED  BY <2>1
  <1>9. ASSUME NEW i \in DOMAIN frames', frames'[i].on = s, frames'[i].kind = "end" PROVE ended[s] = frames'[i].err
    <2>1. i + 1 \in DOMAIN frames /\ frames'[i] = frames[i + 1]
      BY <1>2, <1>3
    <2> QED  BY <2>1, <1>9 DEF Queued
  <1>10. \A v \in h + 1 + 1 .. said[s] : v \in h + 2 .. said[s]
    BY <1>2
  <1>11. Pending(s)' => loop'.val = h + 1
    BY <1>2
  <1> QED  BY <1>3, <1>4, <1>5, <1>6, <1>7, <1>8, <1>9, <1>10, <1>11 DEF Queued

\* The stream a frame is for.
LEMMA DispatchSound ==
    ASSUME MuxInv, NEW s \in Streams, NEW f, NEW n, Dispatched(f, n), f.on = s, s \in table,
           f.kind = "end" => s \notin table', f.kind # "end" => s \in table',
           loop'.pc = (IF f.kind = "end" THEN "finish" ELSE "deliver"), loop'.on = {s}, loop'.val = f.val, loop'.err = f.err
    PROVE  Sound(s)'
  <1>1. Sound(s) /\ call[s] = "open"
    BY DEF MuxInv, Sound, Unopened
  <1>2. AloneSame(s)
    BY DEF AloneSame, Dispatched
  <1>3. Unopened(s)' /\ Tells(s)'
    BY <1>1, <1>2, TellsSame DEF Sound, Unopened, AloneSame
  <1>4. fin[s] = "no" \/ ~Upright(s)
    BY <1>1 DEF Sound, Flows
  <1>5. fin[s] = "no" => Queued(s)
    BY <1>1 DEF Sound, Flows
  <1>6. /\ (Upright(s)' <=> Upright(s)) /\ (Numbered(s)' <=> Numbered(s)) /\ (Complete(s)' <=> Complete(s)) /\ fin'[s] = fin[s]
        /\ endErr'[s] = endErr[s]
    BY <1>2 DEF AloneSame, Upright, Numbered, Complete, Reached
  <1>7. Upright(s)' => Numbered(s)'
    BY <1>1, <1>6 DEF Sound, Flows
  <1>8. fin'[s] # "no" => ~Upright(s)' /\ endErr'[s] # "eof"
    BY <1>4, <1>6 DEF Upright
  <1>9. CASE f.kind = "end"
    <2>1. ~Pending(s)' /\ s \notin table' /\ Finishing(s)'
      BY <1>9 DEF Pending, Finishing
    <2>2. fin'[s] = "no" /\ loop'.err = "eof" => Complete(s)'
      BY <1>5, <1>6, <1>9, HeadIs
    <2>3. Flows(s)'
      BY <2>1, <2>2, <1>6, <1>7, <1>8 DEF Flows
    <2> QED  BY <2>3, <1>3 DEF Sound
  <1>10. CASE f.kind # "end"
    <2>1. Pending(s)' /\ s \in table' /\ loop'.pc # "finish"
      BY <1>10 DEF Pending
    <2>2. fin'[s] = "no" => Queued(s)'
      BY <2>1, <1>5, <1>6, <1>10, QueuedInHand
    <2>3. Flows(s)'
      BY <2>1, <2>2, <1>6, <1>7, <1>8 DEF Flows
    <2> QED  BY <2>3, <1>3 DEF Sound
  <1> QED  BY <1>9, <1>10

\* The loop takes a frame.
LEMMA DispatchesStep == ASSUME MuxInv, Dispatches PROVE MuxInv'
  <1>1. PICK f, n : Dispatched(f, n)
    BY DispatchIs
  <1>2. /\ f \in FrameSet /\ f = Head(frames) /\ loop.pc = "recv"
        /\ UNCHANGED <<broken, closed, toFinish, call, gaveUp, respCh, fin, endErr, watch, rcv, got, result, said, ended>>
    BY <1>1 DEF Dispatched
  <1>3. f.on \in Streams /\ f.val \in 0..MaxResponses /\ f.err \in {"eof", "plugin"} /\ f.err \in Errors
    <2>1. f.err \in {"eof", "plugin"}
      BY <1>1 DEF Dispatched, MuxInv, LoopHolds
    <2> QED  BY <2>1, <1>2 DEF FrameSet, Errors
  <1>4. table' = (IF f.kind = "end" THEN table \ {f.on} ELSE table)
    BY <1>2 DEF Dispatches
  <1>5. /\ loop' \in [pc : {"recv", "deliver", "blocked", "finish", "closing"}, on : SUBSET Streams, val : 0..MaxResponses, err : Errors]
        /\ loop'.pc # "closing" /\ loop'.on \subseteq {f.on} /\ loop'.err # "context"
        /\ f.on \notin table => loop'.on = {}
        /\ f.on \in table => /\ loop'.pc = (IF f.kind = "end" THEN "finish" ELSE "deliver")
                             /\ loop'.on = {f.on} /\ loop'.val = f.val /\ loop'.err = f.err
    <2>1. CASE f.on \notin table
      <3>1. loop' = Idle
        BY <2>1, <1>2 DEF Dispatches
      <3> QED  BY <3>1, <2>1, MuxAssumption DEF Idle, Errors
    <2>2. CASE f.on \in table
      <3>1. PICK p \in {"finish", "deliver"} : p = (IF f.kind = "end" THEN "finish" ELSE "deliver")
        OBVIOUS
      <3>2. loop' = [pc |-> p, on |-> {f.on}, val |-> f.val, err |-> f.err]
        BY <3>1, <2>2, <1>2 DEF Dispatches
      <3> QED  BY <3>1, <3>2, <2>2, <1>3
    <2> QED  BY <2>1, <2>2
  <1>6. MuxTypeOK'
    <2>1. frames' \in Seq(FrameSet)
      BY <1>1 DEF Dispatched
    <2>2. table' \subseteq Streams
      BY <1>4 DEF MuxInv, MuxTypeOK
    <2> QED  BY <2>1, <2>2, <1>2, <1>5 DEF MuxInv, MuxTypeOK, FrameSet
  <1>7. LoopHolds'
    <2>1. \A i \in DOMAIN frames' : frames'[i].err \in {"eof", "plugin"}
      <3>1. n \in Nat /\ DOMAIN frames = 1 .. n + 1 /\ DOMAIN frames' = 1 .. n /\ \A i \in 1 .. n : frames'[i] = frames[i + 1]
        BY <1>1 DEF Dispatched
      <3>2. \A i \in DOMAIN frames' : i + 1 \in DOMAIN frames /\ frames'[i] = frames[i + 1]
        BY <3>1
      <3> QED  BY <3>2 DEF MuxInv, LoopHolds
    <2>2. closed' => table' = {}
      BY <1>2, <1>4 DEF MuxInv, LoopHolds
    <2> QED  BY <2>1, <2>2, <1>5 DEF LoopHolds
  <1>8. ASSUME NEW r \in Streams, r # f.on \/ r \notin table PROVE Sound(r)'
    <2>1. r \notin loop'.on
      BY <1>5, <1>8
    <2>2. ~Pending(r)' /\ ~Finishing(r)' /\ (r \in table' => r \in table)
      BY <2>1, <1>4 DEF Pending, Finishing
    <2> QED  BY <2>1, <2>2, <1>1, <1>8, DispatchAside
  <1>9. ASSUME f.on \in table PROVE Sound(f.on)'
    <2>1. PICK s \in Streams : s = f.on
      BY <1>3
    <2>2. /\ s \in table /\ f.on = s /\ (f.kind = "end" => s \notin table') /\ (f.kind # "end" => s \in table')
          /\ loop'.pc = (IF f.kind = "end" THEN "finish" ELSE "deliver") /\ loop'.on = {s} /\ loop'.val = f.val /\ loop'.err = f.err
      BY <2>1, <1>4, <1>5, <1>9
    <2> QED  BY <2>1, <2>2, <1>1, DispatchSound
  <1> QED  BY <1>6, <1>7, <1>8, <1>9 DEF MuxInv

\* The invariant holds at the start.
LEMMA MuxStarts == MuxInit => MuxInv
  <1> SUFFICES ASSUME MuxInit PROVE MuxInv
    OBVIOUS
  <1>1. MuxTypeOK
    <2>1. loop \in [pc : {"recv", "deliver", "blocked", "finish", "closing"}, on : SUBSET Streams, val : 0..MaxResponses, err : Errors]
      BY MuxAssumption DEF MuxInit, Idle, Errors
    <2>2. respCh \in [Streams -> Seq(0..MaxResponses)] /\ \A s \in Streams : Len(respCh[s]) <= QueueSize
      BY MuxAssumption DEF MuxInit
    <2>3. endErr \in [Streams -> Errors] /\ said \in [Streams -> 0..MaxResponses]
      BY MuxAssumption DEF MuxInit, Errors
    <2>4. frames \in Seq([on : Streams, kind : {"response", "end"}, val : 0..MaxResponses, err : Errors])
      BY DEF MuxInit
    <2> QED  BY <2>1, <2>2, <2>3, <2>4 DEF MuxInit, MuxTypeOK
  <1>2. LoopHolds
    BY DEF MuxInit, LoopHolds, Idle
  <1>3. ASSUME NEW s \in Streams PROVE Sound(s)
    <2>1. loop.on = {} /\ loop.pc = "recv"
      BY DEF MuxInit, Idle
    <2>2. Unopened(s) /\ Tells(s)
      BY <2>1 DEF MuxInit, Unopened, Tells
    <2>3. Numbered(s)
      BY DEF MuxInit, Numbered
    <2>4. Flows(s)
      BY <2>1, <2>3 DEF MuxInit, Flows, Pending
    <2> QED  BY <2>2, <2>4 DEF Sound
  <1> QED  BY <1>1, <1>2, <1>3 DEF MuxInv

\* Every step keeps the invariant.
LEMMA MuxStep == ASSUME MuxInv, [MuxNext]_muxVars PROVE MuxInv'
  <1>1. CASE UNCHANGED muxVars
    <2>1. UNCHANGED <<broken, closed, table, loop, toFinish, frames, call, gaveUp, respCh, fin, endErr, watch, rcv, got, result, said, ended>>
      BY <1>1 DEF muxVars, caller, plugin
    <2>2. MuxTypeOK' /\ LoopHolds'
      BY <2>1 DEF MuxInv, MuxTypeOK, LoopHolds
    <2>3. \A r \in Streams : Stands(r)
      BY <2>1 DEF Stands, AloneSame
    <2> QED  BY <2>2, <2>3, StandsSound DEF MuxInv
  <1>2. CASE MuxNext
    <2>1. CASE ConnectBreaks \/ Dispatches \/ CloseSession
      BY <2>1, BreaksStep, DispatchesStep, ClosesStep
    <2>2. ASSUME NEW s \in Streams,
                 \/ PluginResponds(s) \/ \E err \in {"eof", "plugin"} : PluginEnds(s, err)
                 \/ Cancels(s) \/ Loop(s)
                 \/ ChecksStream(s) \/ Opens(s) \/ CallerCancels(s)
                 \/ Watcher(s) \/ WatcherResets(s)
                 \/ Recv(s) \/ InRecv(s)
          PROVE  MuxInv'
      <3>1. CASE Loop(s)
        BY <3>1, DeliversStep, IdlesStep, BlocksStep, TimesOutStep, LoopFinishesStep, CloseFinishesStep, CloseFinishedStep DEF Loop
      <3>2. CASE Watcher(s) \/ WatcherResets(s)
        BY <3>2, WatcherStep, WatcherFinishesStep DEF Watcher
      <3>3. CASE PluginResponds(s) \/ \E err \in {"eof", "plugin"} : PluginEnds(s, err)
        BY <3>3, RespondsStep, EndsStep
      <3>4. CASE ChecksStream(s) \/ Opens(s) \/ CallerCancels(s) \/ Cancels(s)
        BY <3>4, ChecksStep, OpensStep, CallerCancelsStep, CancelsStep
      <3>5. CASE Recv(s) \/ InRecv(s)
        BY <3>5, RecvStep
      <3> QED  BY <2>2, <3>1, <3>2, <3>3, <3>4, <3>5
    <2> QED  BY <1>2, <2>1, <2>2 DEF MuxNext
  <1> QED  BY <1>1, <1>2

\* What a caller of Recv is handed is what the plugin sent, and the end it is
\* told is the end there was: every response before io.EOF, no gap before a
\* caller gives up, and a context error only if it did.
THEOREM ResponsesSafe == MuxSpec => []ResponsesIntact
  <1>1. ASSUME MuxInv PROVE ResponsesIntact
    <2>1. ASSUME NEW s \in Streams, Numbered(s) PROVE got[s] = [i \in 1 .. Len(got[s]) |-> i]
      <3>1. PICK g : g = got[s]
        OBVIOUS
      <3>2. g \in Seq(0..MaxResponses) /\ \A i \in DOMAIN g : g[i] = i
        BY <3>1, <1>1, <2>1 DEF Numbered, MuxInv, MuxTypeOK
      <3>3. g = [i \in 1 .. Len(g) |-> i]
        BY <3>2
      <3> QED  BY <3>1, <3>3
    <2>2. ASSUME NEW s \in Streams, ~gaveUp[s] PROVE Numbered(s)
      BY <1>1, <2>2 DEF MuxInv, Sound, Flows, Upright
    <2>3. ASSUME NEW s \in Streams, result[s] = "eof" PROVE ended[s] = "eof" /\ got[s] = [i \in 1 .. said[s] |-> i]
      <3>1. fin[s] # "no" /\ endErr[s] = "eof" /\ respCh[s] = <<>>
        BY <1>1, <2>3 DEF MuxInv, Sound, Tells
      <3>2. Numbered(s) /\ Complete(s)
        BY <3>1, <1>1 DEF MuxInv, Sound, Flows, Upright
      <3>3. Len(got[s]) \in Nat /\ Len(respCh[s]) = 0
        BY <3>1, <1>1 DEF MuxInv, MuxTypeOK
      <3>4. ended[s] = "eof" /\ Len(got[s]) = said[s]
        BY <3>2, <3>3 DEF Complete, Reached
      <3> QED  BY <3>2, <3>4, <2>1
    <2>4. \A s \in Streams : result[s] = "context" => gaveUp[s]
      BY <1>1 DEF MuxInv, Sound, Tells
    <2> QED  BY <2>1, <2>2, <2>3, <2>4 DEF ResponsesIntact, EofIsComplete, NoGap, NoFalseCancel
  <1> QED  BY <1>1, MuxStarts, MuxStep, PTL DEF MuxSpec
=============================================================================
