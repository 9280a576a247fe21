---------------------------- MODULE ProbeProofs ----------------------------
(***************************************************************************)
(* Theorems about the control plane of a probe, for any finite or infinite *)
(* number of streams, sessions and calls and any channel size: answers      *)
(* belong to their commands, the online state is true, and what a call      *)
(* makes is accounted for.                                                  *)
(*                                                                         *)
(* What a stream carries is typed by what holds of it: a command on its way *)
(* is one whose id leads to the call that made it, and a good result is one *)
(* whose call was carried out.  A step that changes calls has to keep these *)
(* sets growing.                                                            *)
(***************************************************************************)
EXTENDS ProbeControl, TLAPS, SequenceTheorems

Kinds == {"start", "import", "stop", "filter", "retry", "revoke", "archive"}
Places == {"idle", "create", "manager", "wait", "rollback", "stopping", "report", "stuck"}
Users == {Owner, Admin, Stranger}
OptSession == Sessions \cup {NoSession}
Makers == {"start", "import"}

CallRec == [op : Kinds, who : Users, at : Places, session : OptSession, id : Nat, n : Nat,
            done : BOOLEAN, answer : {"none", "ok", "refused"}]

\* What holds of a call wherever it is.
SoundCall(r) ==
    /\ r.at \in {"create", "rollback", "report"} => r.op \in Makers
    /\ r.at = "wait" => r.op \in {"filter", "import"}
    /\ r.op \in Makers /\ r.at \notin {"idle", "create"} => r.session \in Sessions
    /\ r.at = "stopping" => r.session \in Sessions
    /\ r.answer = "ok" => r.done
GoodCalls == {r \in CallRec : SoundCall(r)}

\* A command whose id is the one of the call that it was made for, ...
Commands ==
    {cmd \in [id : Nat, n : Nat, op : Kinds, session : OptSession] :
        cmd.id \in 1 .. seq /\ \A c \in Calls : calls[c].id = cmd.id => calls[c].n = cmd.n}
\* ... and a result that says ok only of a command that was carried out.
Results ==
    {res \in [id : Nat, ok : BOOLEAN] :
        res.id \in 1 .. seq /\ (res.ok => \A c \in Calls : calls[c].id = res.id => calls[c].done)}

StreamOf(C, R) ==
    [at : {"none", "checked", "open", "closing", "closed"}, link : BOOLEAN, cancelled : BOOLEAN,
     sender : BOOLEAN, send : Seq(C), down : Seq(C), up : Seq(R)]

RunRec == [on : BOOLEAN, session : OptSession, changes : Nat]
SessionRec == [st : {"none", "running", "stopped"}, owner : Users, listed : BOOLEAN]

ProbeTyped ==
    /\ conns \in Streams \cup {NoStream} /\ seq \in Nat /\ made \in Nat
    /\ latest \in [on : BOOLEAN, session : OptSession] /\ runner \in RunRec
    /\ session \in [Sessions -> SessionRec]
    /\ calls \in [Calls -> GoodCalls]
    /\ \A c \in Calls : calls[c].id <= seq
    /\ wedged \in BOOLEAN
    /\ stream \in [Streams -> StreamOf(Commands, Results)]

\* A stream that was not entered yet has a live context.
FreshAlive == \A s \in Streams : stream[s].at \in {"none", "checked"} => ~stream[s].cancelled

\* A call that deals with the session it made.
Deals(r, x) == r.session = x /\ r.op \in Makers /\ r.at \notin {"idle", "create"}
Claimed ==
    \A x \in Sessions : session[x].st = "running" /\ ~session[x].listed => \E c \in Calls : Deals(calls[c], x)

\* What was imported went into a session that exists and is the owner's.
ImportsMade == \A x \in Sessions : <<x, TRUE>> \in imported => session[x].st # "none" /\ session[x].owner = Owner

ProbeInv == ProbeTyped /\ FreshAlive /\ OnlineTruthful /\ Claimed /\ ImportsMade

(***************************************************************************)
(* Calls.                                                                  *)
(***************************************************************************)
\* NoCall is a call that says nothing.
LEMMA NoCallGood == NoCall \in GoodCalls /\ NoCall.id = 0 /\ NoCall.at = "idle" /\ NoCall.answer = "none"
BY ProbeAssumption DEF NoCall, GoodCalls, CallRec, SoundCall, Kinds, Places, Users, OptSession, Makers

\* A call that goes on keeps everything but its place.
LEMMA MovesOn ==
    ASSUME NEW r \in CallRec, NEW a \in Places
    PROVE  /\ [r EXCEPT !.at = a] \in CallRec
           /\ [r EXCEPT !.at = a].at = a
           /\ [r EXCEPT !.at = a].op = r.op /\ [r EXCEPT !.at = a].session = r.session
           /\ [r EXCEPT !.at = a].id = r.id /\ [r EXCEPT !.at = a].n = r.n
           /\ [r EXCEPT !.at = a].done = r.done /\ [r EXCEPT !.at = a].answer = r.answer
BY DEF CallRec

\* What is on its way stays good as long as calls keep their numbers, forget them, or
\* take new ones.
LEMMA WireGrows ==
    ASSUME seq \in Nat, seq' \in Nat, seq <= seq',
           \A c \in Calls : \/ /\ calls'[c].id = calls[c].id /\ calls'[c].n = calls[c].n
                               /\ calls[c].done => calls'[c].done
                            \/ calls'[c].id = 0
                            \/ calls'[c].id = seq' /\ seq' > seq
    PROVE  Commands \subseteq Commands' /\ Results \subseteq Results'
<1>1. ASSUME NEW cmd \in Commands PROVE cmd \in Commands'
  <2>1. cmd.id \in 1 .. seq /\ cmd.id \in 1 .. seq'
    BY <1>1 DEF Commands
  <2>2. ASSUME NEW c \in Calls, calls'[c].id = cmd.id PROVE calls'[c].n = cmd.n
    BY <1>1, <2>1, <2>2 DEF Commands
  <2>3. QED
    BY <1>1, <2>1, <2>2 DEF Commands
<1>2. ASSUME NEW res \in Results PROVE res \in Results'
  <2>1. res.id \in 1 .. seq /\ res.id \in 1 .. seq'
    BY <1>2 DEF Results
  <2>2. ASSUME res.ok, NEW c \in Calls, calls'[c].id = res.id PROVE calls'[c].done
    BY <1>2, <2>1, <2>2 DEF Results
  <2>3. QED
    BY <1>2, <2>1, <2>2 DEF Results
<1>3. QED
  BY <1>1, <1>2

\* The streams stay good with the sets.
LEMMA StreamsGrow ==
    ASSUME NEW C, NEW D, C \subseteq D, NEW R, NEW S, R \subseteq S
    PROVE  StreamOf(C, R) \subseteq StreamOf(D, S)
<1>1. Seq(C) \subseteq Seq(D) /\ Seq(R) \subseteq Seq(S)
  <2>1. ASSUME NEW A, NEW B, A \subseteq B, NEW q \in Seq(A) PROVE q \in Seq(B)
    <3>1. Len(q) \in Nat /\ DOMAIN q = 1 .. Len(q) /\ \A i \in 1 .. Len(q) : q[i] \in A
      BY <2>1, LenProperties, ElementOfSeq
    <3>2. q = [i \in 1 .. Len(q) |-> q[i]]
      BY <2>1, <3>1
    <3>3. QED
      BY <2>1, <3>1, <3>2, IsASeq
  <2>2. QED
    BY <2>1
<1>2. QED
  BY <1>1 DEF StreamOf

\* A step that changes one call, numbers nothing and leaves the streams alone.
LEMMA OneCall ==
    ASSUME ProbeTyped, NEW c \in Calls, NEW r \in GoodCalls,
           \/ r.id = 0
           \/ r.id = calls[c].id /\ r.n = calls[c].n /\ r.done = calls[c].done,
           calls' = [calls EXCEPT ![c] = r], seq' = seq
    PROVE  /\ calls' \in [Calls -> GoodCalls]
           /\ \A d \in Calls : calls'[d].id <= seq'
           /\ StreamOf(Commands, Results) \subseteq StreamOf(Commands', Results')
<1>1. calls' \in [Calls -> GoodCalls] /\ calls'[c] = r /\ \A d \in Calls \ {c} : calls'[d] = calls[d]
  BY DEF ProbeTyped
<1>2. seq \in Nat /\ seq' \in Nat /\ seq <= seq'
  BY DEF ProbeTyped
<1>3. \A d \in Calls : \/ /\ calls'[d].id = calls[d].id /\ calls'[d].n = calls[d].n
                          /\ calls[d].done => calls'[d].done
                       \/ calls'[d].id = 0
                       \/ calls'[d].id = seq' /\ seq' > seq
  BY <1>1
<1>4. Commands \subseteq Commands' /\ Results \subseteq Results'
  BY <1>2, <1>3, WireGrows
<1>5. \A d \in Calls : calls'[d].id <= seq'
  BY <1>1, <1>2 DEF ProbeTyped
<1>6. QED
  BY <1>1, <1>4, <1>5, StreamsGrow

\* A session that still needs somebody to deal with it finds the same call again, unless
\* that call changed; then it must still deal with it.
LEMMA StillClaimed ==
    ASSUME ProbeTyped, Claimed, NEW c \in Calls, NEW r, calls' = [calls EXCEPT ![c] = r],
           \A x \in Sessions : session'[x].st = "running" /\ ~session'[x].listed =>
               \/ Deals(r, x)
               \/ session[x].st = "running" /\ ~session[x].listed /\ ~Deals(calls[c], x)
    PROVE  Claimed'
<1>1. calls'[c] = r /\ \A d \in Calls \ {c} : calls'[d] = calls[d]
  BY DEF ProbeTyped
<1>2. ASSUME NEW x \in Sessions, session'[x].st = "running", ~session'[x].listed
      PROVE  \E d \in Calls : Deals(calls'[d], x)
  <2>1. CASE Deals(r, x)
    BY <2>1, <1>1
  <2>2. CASE session[x].st = "running" /\ ~session[x].listed /\ ~Deals(calls[c], x)
    <3>1. PICK d \in Calls : Deals(calls[d], x)
      BY <2>2 DEF Claimed
    <3>2. d # c
      BY <3>1, <2>2
    <3>3. QED
      BY <3>1, <3>2, <1>1
  <2>3. QED
    BY <1>2, <2>1, <2>2
<1>3. QED
  BY <1>2 DEF Claimed

(***************************************************************************)
(* Streams.                                                                *)
(***************************************************************************)
\* The place, link and context of a stream may change as they like.
LEMMA StreamForms ==
    ASSUME NEW C, NEW R, NEW r \in StreamOf(C, R),
           NEW a \in {"none", "checked", "open", "closing", "closed"}, NEW b \in BOOLEAN
    PROVE  /\ [r EXCEPT !.at = a] \in StreamOf(C, R)
           /\ [r EXCEPT !.at = a, !.link = b] \in StreamOf(C, R)
           /\ [r EXCEPT !.at = a, !.sender = b] \in StreamOf(C, R)
           /\ [r EXCEPT !.at = a, !.cancelled = b] \in StreamOf(C, R)
           /\ [r EXCEPT !.cancelled = b] \in StreamOf(C, R)
           /\ [r EXCEPT !.sender = b] \in StreamOf(C, R)
           /\ [r EXCEPT !.link = b, !.down = <<>>] \in StreamOf(C, R)
BY EmptySeq DEF StreamOf

\* What Next hands on in these sequences.
LEMMA Queued ==
    ASSUME NEW C, NEW q \in Seq(C), NEW x \in C
    PROVE  Append(q, x) \in Seq(C) /\ (q # <<>> => Tail(q) \in Seq(C) /\ Head(q) \in C)
BY AppendProperties, HeadTailProperties

\* What stays in force when neither calls nor sessions are touched.
LEMMA OnlyStreams ==
    ASSUME ProbeInv, UNCHANGED <<calls, seq, made, session, imported>>
    PROVE  /\ Commands' = Commands /\ Results' = Results
           /\ Claimed' /\ ImportsMade'
           /\ calls' \in [Calls -> GoodCalls] /\ \A c \in Calls : calls'[c].id <= seq'
BY DEF ProbeInv, ProbeTyped, Commands, Results, Claimed, ImportsMade, Deals

\* Steps on one stream that leave connections, calls and places alone.
LEMMA QuietStep ==
    ASSUME ProbeInv, UNCHANGED <<calls, seq, made, session, imported, conns, wedged, latest, runner>>,
           stream' \in [Streams -> StreamOf(Commands, Results)],
           \A t \in Streams : stream'[t].at = stream[t].at /\ stream'[t].cancelled = stream[t].cancelled
    PROVE  ProbeInv'
<1>1. /\ Commands' = Commands /\ Results' = Results
      /\ Claimed' /\ ImportsMade'
      /\ calls' \in [Calls -> GoodCalls] /\ \A c \in Calls : calls'[c].id <= seq'
  BY OnlyStreams
<1>2. ProbeTyped'
  BY <1>1 DEF ProbeInv, ProbeTyped
<1>3. FreshAlive' /\ OnlineTruthful'
  BY DEF ProbeInv, FreshAlive, OnlineTruthful
<1>4. QED
  BY <1>1, <1>2, <1>3 DEF ProbeInv

\* Connect: the stream is there, its handler has not entered it yet.
LEMMA ConnectStep == ASSUME ProbeInv, NEW s \in Streams, Connect(s) PROVE ProbeInv'
<1> DEFINE r == [stream[s] EXCEPT !.at = "checked", !.link = TRUE]
<1>1. /\ stream' = [stream EXCEPT ![s] = r] /\ stream[s].at = "none"
      /\ UNCHANGED <<calls, seq, made, session, imported, conns, wedged, latest, runner>>
  BY DEF Connect, connectOnce, manager
<1>2. stream \in [Streams -> StreamOf(Commands, Results)]
  BY DEF ProbeInv, ProbeTyped
<1>3. r \in StreamOf(Commands, Results)
  BY <1>2, StreamForms
<1>4. r.at = "checked" /\ r.cancelled = stream[s].cancelled
  BY <1>2 DEF StreamOf
<1> HIDE DEF r
<1>5. /\ Commands' = Commands /\ Results' = Results
      /\ Claimed' /\ ImportsMade'
      /\ calls' \in [Calls -> GoodCalls] /\ \A c \in Calls : calls'[c].id <= seq'
  BY <1>1, OnlyStreams
<1>6. stream' \in [Streams -> StreamOf(Commands, Results)]
  BY <1>1, <1>2, <1>3
<1>7. ProbeTyped'
  BY <1>1, <1>5, <1>6 DEF ProbeInv, ProbeTyped
<1>8. FreshAlive' /\ OnlineTruthful'
  BY <1>1, <1>2, <1>4 DEF ProbeInv, FreshAlive, OnlineTruthful
<1>9. QED
  BY <1>5, <1>7, <1>8 DEF ProbeInv

\* openConn: the stream is entered, and the one before it loses its context.
LEMMA OpenStep == ASSUME ProbeInv, NEW s \in Streams, openConn(s) PROVE ProbeInv'
<1> DEFINE Cut(t) == [stream[t] EXCEPT !.cancelled = TRUE]
           r == [stream[s] EXCEPT !.at = "open", !.sender = ~wedged']
<1>1. /\ stream' = [t \in Streams |-> IF t = s THEN r ELSE IF t = conns THEN Cut(t) ELSE stream[t]]
      /\ stream[s].at = "checked" /\ conns' = s /\ wedged' = syncSends(s, desired, FALSE)
      /\ UNCHANGED <<calls, seq, made, session, imported, latest, runner>>
  BY DEF openConn
<1>2. stream \in [Streams -> StreamOf(Commands, Results)]
  BY DEF ProbeInv, ProbeTyped
<1>3. wedged' \in BOOLEAN
  BY <1>1 DEF syncSends, ProbeInv, ProbeTyped
<1>4. r \in StreamOf(Commands, Results) /\ \A t \in Streams : Cut(t) \in StreamOf(Commands, Results)
  BY <1>2, <1>3, StreamForms
<1>5. /\ r.at = "open" /\ r.cancelled = stream[s].cancelled
      /\ \A t \in Streams : Cut(t).at = stream[t].at /\ Cut(t).cancelled = TRUE
  BY <1>2 DEF StreamOf
<1> HIDE DEF r, Cut
<1>6. /\ Commands' = Commands /\ Results' = Results
      /\ Claimed' /\ ImportsMade'
      /\ calls' \in [Calls -> GoodCalls] /\ \A c \in Calls : calls'[c].id <= seq'
  BY <1>1, OnlyStreams
<1>7. stream' \in [Streams -> StreamOf(Commands, Results)]
  BY <1>1, <1>2, <1>4
<1>8. ProbeTyped'
  BY <1>1, <1>3, <1>6, <1>7 DEF ProbeInv, ProbeTyped
<1>9. FreshAlive' /\ OnlineTruthful'
  <2>1. conns \in Streams => stream[conns].at \in {"open", "closing"}
    BY DEF ProbeInv, OnlineTruthful
  <2>2. ~stream[s].cancelled
    BY <1>1 DEF ProbeInv, FreshAlive
  <2>3. ASSUME NEW t \in Streams
        PROVE  /\ stream'[t].at \in {"none", "checked"} => ~stream'[t].cancelled
               /\ conns' = t <=> stream'[t].at \in {"open", "closing"} /\ ~stream'[t].cancelled
    <3>1. CASE t = s
      BY <3>1, <2>2, <1>1, <1>5
    <3>2. CASE t # s /\ t = conns
      BY <3>2, <2>1, <1>1, <1>5
    <3>3. CASE t # s /\ t # conns
      BY <3>3, <1>1 DEF ProbeInv, FreshAlive, OnlineTruthful
    <3>4. QED
      BY <3>1, <3>2, <3>3
  <2>4. QED
    BY <2>3 DEF FreshAlive, OnlineTruthful
<1>10. QED
  BY <1>6, <1>8, <1>9 DEF ProbeInv

\* closeConn: its own stream is closed, and whichever was entered loses its context.
LEMMA CloseStep == ASSUME ProbeInv, NEW s \in Streams, closeConn(s) PROVE ProbeInv'
<1> DEFINE Cut(t) == [stream[t] EXCEPT !.cancelled = TRUE]
           r == [stream[s] EXCEPT !.at = "closed", !.cancelled = TRUE]
<1>1. /\ stream' = [t \in Streams |-> IF t = s THEN r ELSE IF t = conns THEN Cut(t) ELSE stream[t]]
      /\ conns' = NoStream
      /\ UNCHANGED <<calls, seq, made, session, imported, latest, runner, wedged>>
  BY DEF closeConn
<1>2. stream \in [Streams -> StreamOf(Commands, Results)]
  BY DEF ProbeInv, ProbeTyped
<1>3. r \in StreamOf(Commands, Results) /\ \A t \in Streams : Cut(t) \in StreamOf(Commands, Results)
  BY <1>2, StreamForms
<1>4. r.at = "closed" /\ \A t \in Streams : Cut(t).at = stream[t].at /\ Cut(t).cancelled = TRUE
  BY <1>2 DEF StreamOf
<1> HIDE DEF r, Cut
<1>5. /\ Commands' = Commands /\ Results' = Results
      /\ Claimed' /\ ImportsMade'
      /\ calls' \in [Calls -> GoodCalls] /\ \A c \in Calls : calls'[c].id <= seq'
  BY <1>1, OnlyStreams
<1>6. stream' \in [Streams -> StreamOf(Commands, Results)]
  BY <1>1, <1>2, <1>3
<1>7. ProbeTyped'
  BY <1>1, <1>5, <1>6 DEF ProbeInv, ProbeTyped
<1>8. FreshAlive' /\ OnlineTruthful'
  <2>1. conns \in Streams => stream[conns].at \in {"open", "closing"}
    BY DEF ProbeInv, OnlineTruthful
  <2>2. ASSUME NEW t \in Streams
        PROVE  /\ stream'[t].at \in {"none", "checked"} => ~stream'[t].cancelled
               /\ conns' = t <=> stream'[t].at \in {"open", "closing"} /\ ~stream'[t].cancelled
    <3>0. conns' # t
      BY <1>1, ProbeAssumption DEF NoStream
    <3>1. CASE t = s
      BY <3>0, <3>1, <1>1, <1>4
    <3>2. CASE t # s /\ t = conns
      BY <3>0, <3>2, <2>1, <1>1, <1>4
    <3>3. CASE t # s /\ t # conns
      BY <3>0, <3>3, <1>1 DEF ProbeInv, FreshAlive, OnlineTruthful
    <3>4. QED
      BY <3>1, <3>2, <3>3
  <2>3. QED
    BY <2>2 DEF FreshAlive, OnlineTruthful
<1>9. QED
  BY <1>5, <1>7, <1>8 DEF ProbeInv

\* RecvFails: a handler that was entered is about to run closeConn, the other has returned.
LEMMA RecvFailsStep == ASSUME ProbeInv, NEW s \in Streams, RecvFails(s) PROVE ProbeInv'
<1> DEFINE a == IF stream[s].at = "open" THEN "closing" ELSE "closed"
           r == [stream[s] EXCEPT !.at = a]
<1>1. /\ stream' = [stream EXCEPT ![s] = r] /\ stream[s].at \in {"checked", "open"}
      /\ UNCHANGED <<calls, seq, made, session, imported, conns, wedged, latest, runner>>
  BY DEF RecvFails, manager
<1>2. stream \in [Streams -> StreamOf(Commands, Results)]
  BY DEF ProbeInv, ProbeTyped
<1>3. r \in StreamOf(Commands, Results)
  BY <1>2, StreamForms
<1>4. r.at = a /\ r.cancelled = stream[s].cancelled
  BY <1>2 DEF StreamOf
<1> HIDE DEF r
<1>5. /\ Commands' = Commands /\ Results' = Results
      /\ Claimed' /\ ImportsMade'
      /\ calls' \in [Calls -> GoodCalls] /\ \A c \in Calls : calls'[c].id <= seq'
  BY <1>1, OnlyStreams
<1>6. stream' \in [Streams -> StreamOf(Commands, Results)]
  BY <1>1, <1>2, <1>3
<1>7. ProbeTyped'
  BY <1>1, <1>5, <1>6 DEF ProbeInv, ProbeTyped
<1>8. FreshAlive' /\ OnlineTruthful'
  <2>1. \A t \in Streams \ {s} : stream'[t] = stream[t]
    BY <1>1, <1>2
  <2>2. stream'[s].at = a /\ stream'[s].cancelled = stream[s].cancelled
    BY <1>1, <1>2, <1>4
  <2>3. a \notin {"none", "checked"} /\ (a \in {"open", "closing"} <=> stream[s].at \in {"open", "closing"})
    BY <1>1
  <2>4. FreshAlive'
    BY <2>1, <2>2, <2>3 DEF ProbeInv, FreshAlive
  <2>5. OnlineTruthful'
    BY <1>1, <2>1, <2>2, <2>3 DEF ProbeInv, OnlineTruthful
  <2>6. QED
    BY <2>4, <2>5
<1>9. QED
  BY <1>5, <1>7, <1>8 DEF ProbeInv

\* LinkBreaks and SenderQuits: the link or the sender goroutine of a stream is gone.
LEMMA LinkStep == ASSUME ProbeInv, NEW s \in Streams, LinkBreaks(s) \/ SenderQuits(s) PROVE ProbeInv'
<1> DEFINE Down == [stream[s] EXCEPT !.link = FALSE, !.down = <<>>]
           Quit == [stream[s] EXCEPT !.sender = FALSE]
<1>1. /\ stream' = [stream EXCEPT ![s] = Down] \/ stream' = [stream EXCEPT ![s] = Quit]
      /\ UNCHANGED <<calls, seq, made, session, imported, conns, wedged, latest, runner>>
  BY DEF LinkBreaks, SenderQuits, manager
<1>2. stream \in [Streams -> StreamOf(Commands, Results)]
  BY DEF ProbeInv, ProbeTyped
<1>3. Down \in StreamOf(Commands, Results) /\ Quit \in StreamOf(Commands, Results)
  BY <1>2, StreamForms
<1>4. /\ Down.at = stream[s].at /\ Down.cancelled = stream[s].cancelled
      /\ Quit.at = stream[s].at /\ Quit.cancelled = stream[s].cancelled
  BY <1>2 DEF StreamOf
<1> HIDE DEF Down, Quit
<1>5. stream' \in [Streams -> StreamOf(Commands, Results)]
  BY <1>1, <1>2, <1>3
<1>6. \A t \in Streams : stream'[t].at = stream[t].at /\ stream'[t].cancelled = stream[t].cancelled
  BY <1>1, <1>2, <1>4
<1>7. QED
  BY <1>1, <1>5, <1>6, QuietStep

\* SenderSends: a command moves from the channel of one stream to the wire of another.
LEMMA SenderStep == ASSUME ProbeInv, NEW s \in Streams, SenderSends(s) PROVE ProbeInv'
<1> DEFINE Moved(t, u) ==
               [stream[u] EXCEPT !.send = IF u = t THEN Tail(@) ELSE @,
                                 !.down = IF u = s /\ stream[s].link THEN Append(@, Head(stream[t].send)) ELSE @,
                                 !.sender = IF u = s THEN stream[s].link ELSE @]
<1>1. stream \in [Streams -> StreamOf(Commands, Results)] /\ conns \in Streams \cup {NoStream}
  BY DEF ProbeInv, ProbeTyped
<1>0. PICK t \in {s, conns} \ {NoStream} : stream[t].send # <<>> /\ stream' = [u \in Streams |-> Moved(t, u)]
  BY Zenon DEF SenderSends
<1>2. t \in Streams /\ stream[t].send # <<>> /\ stream' = [u \in Streams |-> Moved(t, u)]
  BY <1>0, <1>1
<1>3. UNCHANGED <<calls, seq, made, session, imported, conns, wedged, latest, runner>>
  BY DEF SenderSends, manager
<1>4. /\ stream[t].send \in Seq(Commands) /\ stream[s].link \in BOOLEAN
      /\ \A u \in Streams : stream[u].down \in Seq(Commands) /\ stream[u].sender \in BOOLEAN
                            /\ stream[u].send \in Seq(Commands)
  BY <1>1 DEF StreamOf
<1>5. Tail(stream[t].send) \in Seq(Commands) /\ Head(stream[t].send) \in Commands
  BY <1>2, <1>4, HeadTailProperties
<1>6. \A u \in Streams : Append(stream[u].down, Head(stream[t].send)) \in Seq(Commands)
  BY <1>4, <1>5, AppendProperties
<1>7. ASSUME NEW u \in Streams
      PROVE  /\ Moved(t, u) \in StreamOf(Commands, Results)
             /\ Moved(t, u).at = stream[u].at /\ Moved(t, u).cancelled = stream[u].cancelled
  <2> DEFINE a == IF u = t THEN Tail(stream[u].send) ELSE stream[u].send
             b == IF u = s /\ stream[s].link THEN Append(stream[u].down, Head(stream[t].send)) ELSE stream[u].down
             d == IF u = s THEN stream[s].link ELSE stream[u].sender
  <2>1. a \in Seq(Commands) /\ b \in Seq(Commands) /\ d \in BOOLEAN
    BY <1>4, <1>5, <1>6
  <2>2. Moved(t, u) = [stream[u] EXCEPT !.send = a, !.down = b, !.sender = d]
    OBVIOUS
  <2> HIDE DEF a, b, d, Moved
  <2>3. stream[u] \in StreamOf(Commands, Results)
    BY <1>1
  <2>4. QED
    BY <2>1, <2>2, <2>3 DEF StreamOf
<1> HIDE DEF Moved
<1>8. stream' \in [Streams -> StreamOf(Commands, Results)]
  BY <1>2, <1>7
<1>9. \A u \in Streams : stream'[u].at = stream[u].at /\ stream'[u].cancelled = stream[u].cancelled
  BY <1>2, <1>7
<1>10. QED
  BY <1>3, <1>8, <1>9, QuietStep

\* applyHeartbeat: what the probe does is a session or none.
LEMMA HeartbeatStep == ASSUME ProbeInv, NEW s \in Streams, applyHeartbeat(s) PROVE ProbeInv'
<1>1. latest' = heartbeat /\ UNCHANGED <<calls, seq, made, session, imported, conns, wedged, stream, runner>>
  BY DEF applyHeartbeat
<1>2. latest' \in [on : BOOLEAN, session : OptSession]
  BY <1>1 DEF heartbeat, ProbeInv, ProbeTyped, RunRec
<1>3. /\ Commands' = Commands /\ Results' = Results
      /\ Claimed' /\ ImportsMade'
      /\ calls' \in [Calls -> GoodCalls] /\ \A c \in Calls : calls'[c].id <= seq'
  BY <1>1, OnlyStreams
<1>4. ProbeTyped'
  BY <1>1, <1>2, <1>3 DEF ProbeInv, ProbeTyped
<1>5. QED
  BY <1>1, <1>3, <1>4 DEF ProbeInv, FreshAlive, OnlineTruthful

(***************************************************************************)
(* The probe carries commands out, and answers arrive.                     *)
(***************************************************************************)
\* A step that lets calls learn something, but neither their place nor their session.
LEMMA Learning ==
    ASSUME ProbeInv, UNCHANGED <<seq, made, session, imported, conns, wedged, latest, runner>>,
           calls' \in [Calls -> GoodCalls],
           \A c \in Calls : /\ calls'[c].id = calls[c].id /\ calls'[c].n = calls[c].n
                            /\ calls[c].done => calls'[c].done
                            /\ calls'[c].at = calls[c].at /\ calls'[c].op = calls[c].op
                            /\ calls'[c].session = calls[c].session,
           stream' \in [Streams -> StreamOf(Commands', Results')],
           \A t \in Streams : stream'[t].at = stream[t].at /\ stream'[t].cancelled = stream[t].cancelled
    PROVE  ProbeInv'
<1>1. ProbeTyped'
  BY DEF ProbeInv, ProbeTyped
<1>2. FreshAlive' /\ OnlineTruthful'
  BY DEF ProbeInv, FreshAlive, OnlineTruthful
<1>3. Claimed'
  BY DEF ProbeInv, Claimed, Deals
<1>4. ImportsMade'
  BY DEF ProbeInv, ImportsMade
<1>5. QED
  BY <1>1, <1>2, <1>3, <1>4 DEF ProbeInv

\* What a call learns keeps it a good one.
LEMMA Learns ==
    ASSUME NEW r \in GoodCalls
    PROVE  /\ [r EXCEPT !.done = TRUE] \in GoodCalls
           /\ [r EXCEPT !.answer = "refused"] \in GoodCalls
           /\ r.done => [r EXCEPT !.answer = "ok"] \in GoodCalls
<1>1. ASSUME NEW v \in {"ok", "refused"}
      PROVE  /\ [r EXCEPT !.answer = v] \in CallRec
             /\ [r EXCEPT !.answer = v].answer = v /\ [r EXCEPT !.answer = v].done = r.done
             /\ [r EXCEPT !.answer = v].at = r.at /\ [r EXCEPT !.answer = v].op = r.op
             /\ [r EXCEPT !.answer = v].session = r.session
  BY DEF GoodCalls, CallRec
<1>2. /\ [r EXCEPT !.done = TRUE] \in CallRec
      /\ [r EXCEPT !.done = TRUE].done = TRUE
      /\ [r EXCEPT !.done = TRUE].at = r.at /\ [r EXCEPT !.done = TRUE].op = r.op
      /\ [r EXCEPT !.done = TRUE].session = r.session
  BY DEF GoodCalls, CallRec
<1>3. [r EXCEPT !.done = TRUE] \in GoodCalls
  BY <1>2 DEF GoodCalls, SoundCall
<1>4. [r EXCEPT !.answer = "refused"] \in GoodCalls
  BY <1>1 DEF GoodCalls, SoundCall
<1>5. ASSUME r.done PROVE [r EXCEPT !.answer = "ok"] \in GoodCalls
  BY <1>1, <1>5 DEF GoodCalls, SoundCall
<1>6. QED
  BY <1>3, <1>4, <1>5

\* execute: the calls that learn are the ones whose number the command carries, and
\* the command's id leads to them.
LEMMA ExecuteStep == ASSUME ProbeInv, NEW s \in Streams, execute(s) PROVE ProbeInv'
<1> DEFINE cmd == Head(stream[s].down)
           ok == cmd.op = "import" \/ runner.on
           res == [id |-> cmd.id, ok |-> ok]
           r == [stream[s] EXCEPT !.down = Tail(@), !.up = Append(@, res)]
           Told(c) == IF ok /\ calls[c].n = cmd.n THEN [calls[c] EXCEPT !.done = TRUE] ELSE calls[c]
<1>1. /\ stream[s].down # <<>> /\ calls' = [c \in Calls |-> Told(c)]
      /\ stream' = [stream EXCEPT ![s] = r]
      /\ UNCHANGED <<seq, made, session, imported, conns, wedged, latest, runner>>
  BY DEF execute, manager
<1>2. /\ stream \in [Streams -> StreamOf(Commands, Results)] /\ calls \in [Calls -> GoodCalls]
      /\ runner.on \in BOOLEAN /\ seq \in Nat
  BY DEF ProbeInv, ProbeTyped, RunRec
<1>3. stream[s].down \in Seq(Commands) /\ stream[s].up \in Seq(Results)
  BY <1>2 DEF StreamOf
<1>4. cmd \in Commands /\ Tail(stream[s].down) \in Seq(Commands)
  BY <1>1, <1>3, HeadTailProperties
<1>5. cmd.id \in Nat /\ cmd.id \in 1 .. seq /\ \A c \in Calls : calls[c].id = cmd.id => calls[c].n = cmd.n
  BY <1>4 DEF Commands
<1>6. ok \in BOOLEAN
  BY <1>2
<1>7. ASSUME NEW c \in Calls
      PROVE  /\ Told(c) \in GoodCalls
             /\ Told(c).id = calls[c].id /\ Told(c).n = calls[c].n
             /\ calls[c].done => Told(c).done
             /\ Told(c).at = calls[c].at /\ Told(c).op = calls[c].op /\ Told(c).session = calls[c].session
             /\ ok /\ calls[c].id = cmd.id => Told(c).done
  <2>1. calls[c] \in GoodCalls /\ calls[c] \in CallRec
    BY <1>2 DEF GoodCalls
  <2>2. [calls[c] EXCEPT !.done = TRUE] \in GoodCalls
    BY <2>1, Learns
  <2>3. /\ [calls[c] EXCEPT !.done = TRUE].id = calls[c].id /\ [calls[c] EXCEPT !.done = TRUE].n = calls[c].n
        /\ [calls[c] EXCEPT !.done = TRUE].done = TRUE
        /\ [calls[c] EXCEPT !.done = TRUE].at = calls[c].at /\ [calls[c] EXCEPT !.done = TRUE].op = calls[c].op
        /\ [calls[c] EXCEPT !.done = TRUE].session = calls[c].session
    BY <2>1 DEF CallRec
  <2>4. CASE ok /\ calls[c].n = cmd.n
    <3>1. Told(c) = [calls[c] EXCEPT !.done = TRUE]
      BY <2>4
    <3> HIDE DEF Told
    <3>2. QED
      BY <3>1, <2>2, <2>3
  <2>5. CASE ~(ok /\ calls[c].n = cmd.n)
    <3>1. Told(c) = calls[c]
      BY <2>5
    <3> HIDE DEF Told, ok, cmd
    <3>2. QED
      BY <3>1, <2>1, <2>5, <1>5
  <2>6. QED
    BY <2>4, <2>5
<1> HIDE DEF Told
<1>8. /\ calls' \in [Calls -> GoodCalls]
      /\ \A c \in Calls : /\ calls'[c].id = calls[c].id /\ calls'[c].n = calls[c].n
                          /\ calls[c].done => calls'[c].done
                          /\ calls'[c].at = calls[c].at /\ calls'[c].op = calls[c].op
                          /\ calls'[c].session = calls[c].session
                          /\ ok /\ calls[c].id = cmd.id => calls'[c].done
  BY <1>1, <1>7
<1>9. Commands \subseteq Commands' /\ Results \subseteq Results'
  BY <1>1, <1>2, <1>8, WireGrows
<1>10. res \in Results'
  <2>1. res \in [id : Nat, ok : BOOLEAN] /\ res.id = cmd.id /\ res.ok = ok
    BY <1>5, <1>6
  <2>2. \A c \in Calls : calls'[c].id = cmd.id /\ ok => calls'[c].done
    BY <1>8
  <2> HIDE DEF res, ok, cmd
  <2>3. QED
    BY <2>1, <2>2, <1>1, <1>5 DEF Results
<1> HIDE DEF res
<1>11. StreamOf(Commands, Results) \subseteq StreamOf(Commands', Results')
  BY <1>9, StreamsGrow
<1>12. r \in StreamOf(Commands', Results') /\ r.at = stream[s].at /\ r.cancelled = stream[s].cancelled
  <2>1. stream[s] \in StreamOf(Commands', Results')
    BY <1>2, <1>11
  <2>2. stream[s].down \in Seq(Commands') /\ stream[s].up \in Seq(Results')
    BY <2>1 DEF StreamOf
  <2>3. Tail(stream[s].down) \in Seq(Commands') /\ Append(stream[s].up, res) \in Seq(Results')
    BY <1>1, <1>10, <2>2, HeadTailProperties, AppendProperties
  <2>4. QED
    BY <2>1, <2>3 DEF StreamOf
<1> HIDE DEF r
<1>13. stream' \in [Streams -> StreamOf(Commands', Results')]
  BY <1>1, <1>2, <1>11, <1>12
<1>14. \A t \in Streams : stream'[t].at = stream[t].at /\ stream'[t].cancelled = stream[t].cancelled
  BY <1>1, <1>2, <1>12
<1>15. QED
  BY <1>1, <1>8, <1>13, <1>14, Learning

\* handleEvent: a call is told ok only of what was carried out.
LEMMA EventStep == ASSUME ProbeInv, NEW s \in Streams, handleEvent(s) PROVE ProbeInv'
<1> DEFINE res == Head(stream[s].up)
           r == [stream[s] EXCEPT !.up = Tail(@)]
           Waits(c) == res.id \in pending /\ calls[c].at = "wait" /\ calls[c].id = res.id /\ calls[c].answer = "none"
           Told(c) == IF Waits(c) THEN [calls[c] EXCEPT !.answer = IF res.ok THEN "ok" ELSE "refused"] ELSE calls[c]
<1>1. /\ stream[s].up # <<>> /\ calls' = [c \in Calls |-> Told(c)]
      /\ stream' = [stream EXCEPT ![s] = r]
      /\ UNCHANGED <<seq, made, session, imported, conns, wedged, latest, runner>>
  BY DEF handleEvent, manager
<1>2. /\ stream \in [Streams -> StreamOf(Commands, Results)] /\ calls \in [Calls -> GoodCalls] /\ seq \in Nat
  BY DEF ProbeInv, ProbeTyped
<1>3. stream[s].up \in Seq(Results)
  BY <1>2 DEF StreamOf
<1>4. res \in Results /\ Tail(stream[s].up) \in Seq(Results)
  BY <1>1, <1>3, HeadTailProperties
<1>5. res.ok \in BOOLEAN /\ (res.ok => \A c \in Calls : calls[c].id = res.id => calls[c].done)
  BY <1>4 DEF Results
<1>6. ASSUME NEW c \in Calls
      PROVE  /\ Told(c) \in GoodCalls
             /\ Told(c).id = calls[c].id /\ Told(c).n = calls[c].n /\ Told(c).done = calls[c].done
             /\ Told(c).at = calls[c].at /\ Told(c).op = calls[c].op /\ Told(c).session = calls[c].session
  <2>1. calls[c] \in GoodCalls /\ calls[c] \in CallRec
    BY <1>2 DEF GoodCalls
  <2>2. ASSUME NEW v \in {"ok", "refused"}
        PROVE  /\ [calls[c] EXCEPT !.answer = v].id = calls[c].id /\ [calls[c] EXCEPT !.answer = v].n = calls[c].n
               /\ [calls[c] EXCEPT !.answer = v].done = calls[c].done
               /\ [calls[c] EXCEPT !.answer = v].at = calls[c].at /\ [calls[c] EXCEPT !.answer = v].op = calls[c].op
               /\ [calls[c] EXCEPT !.answer = v].session = calls[c].session
    BY <2>1 DEF CallRec
  <2>3. CASE Waits(c) /\ res.ok
    <3>1. Told(c) = [calls[c] EXCEPT !.answer = "ok"]
      BY <2>3
    <3>2. calls[c].done
      BY <2>3, <1>5
    <3>3. [calls[c] EXCEPT !.answer = "ok"] \in GoodCalls
      BY <2>1, <3>2, Learns
    <3> HIDE DEF Told
    <3>4. QED
      BY <3>1, <3>3, <2>2
  <2>4. CASE Waits(c) /\ ~res.ok
    <3>1. Told(c) = [calls[c] EXCEPT !.answer = "refused"]
      BY <2>4
    <3>3. [calls[c] EXCEPT !.answer = "refused"] \in GoodCalls
      BY <2>1, Learns
    <3> HIDE DEF Told
    <3>4. QED
      BY <3>1, <3>3, <2>2
  <2>5. CASE ~Waits(c)
    <3>1. Told(c) = calls[c]
      BY <2>5
    <3> HIDE DEF Told
    <3>2. QED
      BY <3>1, <2>1
  <2>6. QED
    BY <2>3, <2>4, <2>5
<1> HIDE DEF Told
<1>7. /\ calls' \in [Calls -> GoodCalls]
      /\ \A c \in Calls : /\ calls'[c].id = calls[c].id /\ calls'[c].n = calls[c].n
                          /\ calls[c].done => calls'[c].done
                          /\ calls'[c].at = calls[c].at /\ calls'[c].op = calls[c].op
                          /\ calls'[c].session = calls[c].session
  BY <1>1, <1>6
<1>8. Commands \subseteq Commands' /\ Results \subseteq Results'
  BY <1>1, <1>2, <1>7, WireGrows
<1>9. StreamOf(Commands, Results) \subseteq StreamOf(Commands', Results')
  BY <1>8, StreamsGrow
<1>10. r \in StreamOf(Commands, Results) /\ r.at = stream[s].at /\ r.cancelled = stream[s].cancelled
  <2>1. stream[s] \in StreamOf(Commands, Results)
    BY <1>2
  <2>2. QED
    BY <2>1, <1>4 DEF StreamOf
<1> HIDE DEF r
<1>11. stream' \in [Streams -> StreamOf(Commands', Results')]
  BY <1>1, <1>2, <1>9, <1>10
<1>12. \A t \in Streams : stream'[t].at = stream[t].at /\ stream'[t].cancelled = stream[t].cancelled
  BY <1>1, <1>2, <1>10
<1>13. QED
  BY <1>1, <1>7, <1>11, <1>12, Learning

(***************************************************************************)
(* The steps of a call.                                                    *)
(***************************************************************************)
\* A step that changes one call, and sessions so that each that still needs a call has one.
LEMMA CallKeeps ==
    ASSUME ProbeInv, NEW c \in Calls, NEW r \in GoodCalls,
           \/ r.id = 0
           \/ r.id = calls[c].id /\ r.n = calls[c].n /\ r.done = calls[c].done,
           calls' = [calls EXCEPT ![c] = r], made' \in Nat, wedged' \in BOOLEAN,
           UNCHANGED <<seq, latest, runner, conns, stream, imported>>,
           session' \in [Sessions -> SessionRec],
           \A x \in Sessions : session[x].st # "none" => session'[x].st # "none" /\ session'[x].owner = session[x].owner,
           \A x \in Sessions : session'[x].st = "running" /\ ~session'[x].listed =>
               \/ Deals(r, x)
               \/ session[x].st = "running" /\ ~session[x].listed /\ ~Deals(calls[c], x)
    PROVE  ProbeInv'
<1>1. /\ calls' \in [Calls -> GoodCalls]
      /\ \A d \in Calls : calls'[d].id <= seq'
      /\ StreamOf(Commands, Results) \subseteq StreamOf(Commands', Results')
  BY OneCall DEF ProbeInv
<1>2. stream' \in [Streams -> StreamOf(Commands', Results')]
  BY <1>1 DEF ProbeInv, ProbeTyped
<1>3. ProbeTyped'
  BY <1>1, <1>2 DEF ProbeInv, ProbeTyped
<1>4. FreshAlive' /\ OnlineTruthful'
  BY DEF ProbeInv, FreshAlive, OnlineTruthful
<1>5. Claimed'
  BY StillClaimed DEF ProbeInv
<1>6. ImportsMade'
  BY DEF ProbeInv, ImportsMade
<1>7. QED
  BY <1>3, <1>4, <1>5, <1>6 DEF ProbeInv

\* The same when no session changes.
LEMMA CallMoves ==
    ASSUME ProbeInv, NEW c \in Calls, NEW r \in GoodCalls,
           \/ r.id = 0
           \/ r.id = calls[c].id /\ r.n = calls[c].n /\ r.done = calls[c].done,
           calls' = [calls EXCEPT ![c] = r], made' \in Nat, wedged' \in BOOLEAN,
           UNCHANGED <<seq, latest, runner, conns, stream, imported, session>>,
           \A x \in Sessions : Deals(calls[c], x) => Deals(r, x)
    PROVE  ProbeInv'
<1>1. session' \in [Sessions -> SessionRec]
  BY DEF ProbeInv, ProbeTyped
<1>2. \A x \in Sessions : session[x].st # "none" => session'[x].st # "none" /\ session'[x].owner = session[x].owner
  OBVIOUS
<1>3. \A x \in Sessions : session'[x].st = "running" /\ ~session'[x].listed =>
               \/ Deals(r, x)
               \/ session[x].st = "running" /\ ~session[x].listed /\ ~Deals(calls[c], x)
  OBVIOUS
<1>4. QED
  BY <1>1, <1>2, <1>3, CallKeeps

\* syncLocked says whether it has something to send.
LEMMA SyncSays ==
    ASSUME ProbeInv, NEW cn, NEW d, NEW force \in BOOLEAN
    PROVE  syncSends(cn, d, force) \in BOOLEAN
BY DEF syncSends, ProbeInv, ProbeTyped

\* A call that goes on to a place where it may be, with what it had.
LEMMA GoesOn ==
    ASSUME NEW r \in GoodCalls, NEW a \in Places,
           r.at \notin {"idle", "create"}, a \notin {"wait", "create"},
           a \in {"rollback", "report"} => r.op \in Makers,
           a = "stopping" => r.session \in Sessions
    PROVE  /\ [r EXCEPT !.at = a] \in GoodCalls
           /\ [r EXCEPT !.at = a].id = r.id /\ [r EXCEPT !.at = a].n = r.n /\ [r EXCEPT !.at = a].done = r.done
           /\ [r EXCEPT !.at = a].at = a /\ [r EXCEPT !.at = a].op = r.op /\ [r EXCEPT !.at = a].session = r.session
<1>1. r \in CallRec /\ SoundCall(r)
  BY DEF GoodCalls
<1>2. /\ [r EXCEPT !.at = a] \in CallRec
      /\ [r EXCEPT !.at = a].at = a
      /\ [r EXCEPT !.at = a].op = r.op /\ [r EXCEPT !.at = a].session = r.session
      /\ [r EXCEPT !.at = a].id = r.id /\ [r EXCEPT !.at = a].n = r.n
      /\ [r EXCEPT !.at = a].done = r.done /\ [r EXCEPT !.at = a].answer = r.answer
  BY <1>1, MovesOn
<1>3. SoundCall([r EXCEPT !.at = a])
  BY <1>1, <1>2 DEF SoundCall
<1>4. QED
  BY <1>1, <1>2, <1>3 DEF GoodCalls

\* A call that made nothing returns.
LEMMA ReturnStep ==
    ASSUME ProbeInv, NEW c \in Calls, calls' = Returned(c),
           calls[c].op \notin Makers \/ calls[c].at = "create",
           wedged' \in BOOLEAN,
           UNCHANGED <<seq, made, latest, runner, conns, stream, imported, session>>
    PROVE  ProbeInv'
<1>1. calls' = [calls EXCEPT ![c] = NoCall] /\ made' \in Nat
  BY DEF Returned, ProbeInv, ProbeTyped
<1>2. \A x \in Sessions : ~Deals(calls[c], x)
  BY DEF Deals
<1>3. QED
  BY <1>1, <1>2, NoCallGood, CallMoves

\* A call that goes on, with what it made.
LEMMA GoStep ==
    ASSUME ProbeInv, NEW c \in Calls, NEW a \in Places, calls' = Goes(c, a),
           calls[c].at \notin {"idle", "create"}, a \notin {"wait", "idle", "create"},
           a \in {"rollback", "report"} => calls[c].op \in Makers,
           a = "stopping" => calls[c].session \in Sessions,
           wedged' \in BOOLEAN,
           UNCHANGED <<seq, made, latest, runner, conns, stream, imported, session>>
    PROVE  ProbeInv'
<1> DEFINE r == [calls[c] EXCEPT !.at = a]
<1>1. calls' = [calls EXCEPT ![c] = r] /\ made' \in Nat
  BY DEF Goes, ProbeInv, ProbeTyped
<1>2. calls[c] \in GoodCalls
  BY DEF ProbeInv, ProbeTyped
<1>3. /\ r \in GoodCalls
      /\ r.id = calls[c].id /\ r.n = calls[c].n /\ r.done = calls[c].done
      /\ r.at = a /\ r.op = calls[c].op /\ r.session = calls[c].session
  BY <1>2, GoesOn
<1> HIDE DEF r
<1>4. \A x \in Sessions : Deals(calls[c], x) => Deals(r, x)
  BY <1>3 DEF Deals
<1>5. QED
  BY <1>1, <1>3, <1>4, CallMoves

\* StartCapture, Retry and QueryArchive: the section ends, or never does.
LEMMA SectionStep ==
    ASSUME ProbeInv, NEW c \in Calls, StartCapture(c) \/ Retry(c) \/ QueryArchive(c)
    PROVE  ProbeInv'
<1>1. /\ calls[c].at = "manager"
      /\ UNCHANGED <<seq, made, latest, runner, conns, stream, imported, session>>
  BY DEF StartCapture, Retry, QueryArchive, manager
<1>2. wedged' \in BOOLEAN
  <2>1. CASE StartCapture(c)
    BY <2>1, SyncSays DEF StartCapture
  <2>2. CASE Retry(c)
    <3>1. syncSends(conns, desired, TRUE) \in BOOLEAN
      BY SyncSays
    <3>2. QED
      BY <2>2, <3>1 DEF Retry
  <2>3. CASE QueryArchive(c)
    BY <2>3 DEF QueryArchive
  <2>4. QED
    BY <2>1, <2>2, <2>3
<1>3. \/ calls' = Goes(c, "stuck")
      \/ calls' = Goes(c, "report") /\ calls[c].op = "start"
      \/ calls' = Returned(c) /\ calls[c].op \in {"retry", "archive"}
  BY DEF StartCapture, Retry, QueryArchive, Then
<1>4. CASE calls' = Goes(c, "stuck")
  BY <1>1, <1>2, <1>4, GoStep DEF Places
<1>5. CASE calls' = Goes(c, "report") /\ calls[c].op = "start"
  BY <1>1, <1>2, <1>5, GoStep DEF Places, Makers
<1>6. CASE calls' = Returned(c) /\ calls[c].op \in {"retry", "archive"}
  BY <1>1, <1>2, <1>6, ReturnStep DEF Makers
<1>7. QED
  BY <1>3, <1>4, <1>5, <1>6

\* StopCapture: the call goes on with the session of the last heartbeat.
LEMMA StopCaptureStep == ASSUME ProbeInv, NEW c \in Calls, StopCapture(c) PROVE ProbeInv'
<1>1. /\ calls[c].at = "manager" /\ calls[c].op = "stop"
      /\ wedged' = syncSends(conns, NoSession, FALSE)
      /\ UNCHANGED <<seq, made, latest, runner, conns, stream, imported, session>>
  BY DEF StopCapture
<1>2. wedged' \in BOOLEAN
  BY <1>1, SyncSays
<1>3. CASE calls' = Goes(c, "stuck")
  BY <1>1, <1>2, <1>3, GoStep DEF Places
<1>4. CASE calls' = Returned(c)
  BY <1>1, <1>2, <1>4, ReturnStep DEF Makers
<1>5. CASE calls' = [calls EXCEPT ![c].at = "stopping", ![c].session = latest.session] /\ latest.session # NoSession
  <2> DEFINE r == [calls[c] EXCEPT !.at = "stopping", !.session = latest.session]
  <2>1. calls \in [Calls -> GoodCalls] /\ latest.session \in Sessions /\ made' \in Nat
    BY <1>1, <1>5 DEF ProbeInv, ProbeTyped, OptSession
  <2>2. calls' = [calls EXCEPT ![c] = r]
    BY <1>5, <2>1
  <2>3. calls[c] \in CallRec /\ SoundCall(calls[c])
    BY <2>1 DEF GoodCalls
  <2>4. /\ r \in CallRec /\ r.at = "stopping" /\ r.session = latest.session /\ r.op = calls[c].op
        /\ r.id = calls[c].id /\ r.n = calls[c].n /\ r.done = calls[c].done /\ r.answer = calls[c].answer
    BY <2>1, <2>3 DEF CallRec, Places, OptSession
  <2> HIDE DEF r
  <2>5. r \in GoodCalls
    BY <1>1, <2>1, <2>3, <2>4 DEF GoodCalls, SoundCall, Makers
  <2>6. \A x \in Sessions : Deals(calls[c], x) => Deals(r, x)
    BY <1>1 DEF Deals, Makers
  <2>7. QED
    BY <1>1, <1>2, <2>1, <2>2, <2>4, <2>5, <2>6, CallMoves
<1>6. QED
  BY <1>1, <1>3, <1>4, <1>5 DEF StopCapture

\* Revoke: whichever stream was entered loses its context.
LEMMA RevokeStep == ASSUME ProbeInv, NEW c \in Calls, Revoke(c) PROVE ProbeInv'
<1> DEFINE Cut(t) == [stream[t] EXCEPT !.cancelled = TRUE]
<1>1. /\ stream' = [t \in Streams |-> IF t = conns THEN Cut(t) ELSE stream[t]]
      /\ conns' = NoStream /\ calls' = [calls EXCEPT ![c] = NoCall] /\ calls[c].op = "revoke"
      /\ UNCHANGED <<seq, made, session, imported, latest, runner, wedged>>
  BY DEF Revoke, Returned
<1>2. stream \in [Streams -> StreamOf(Commands, Results)] /\ made \in Nat
  BY DEF ProbeInv, ProbeTyped
<1>3. \A t \in Streams : Cut(t) \in StreamOf(Commands, Results) /\ Cut(t).at = stream[t].at /\ Cut(t).cancelled = TRUE
  <2>1. \A t \in Streams : Cut(t) \in StreamOf(Commands, Results)
    BY <1>2, StreamForms
  <2>2. \A t \in Streams : Cut(t).at = stream[t].at /\ Cut(t).cancelled = TRUE
    BY <1>2 DEF StreamOf
  <2>3. QED
    BY <2>1, <2>2
<1> HIDE DEF Cut
<1>4. /\ calls' \in [Calls -> GoodCalls]
      /\ \A d \in Calls : calls'[d].id <= seq'
      /\ StreamOf(Commands, Results) \subseteq StreamOf(Commands', Results')
  BY <1>1, NoCallGood, OneCall DEF ProbeInv
<1>5. stream' \in [Streams -> StreamOf(Commands', Results')]
  BY <1>1, <1>2, <1>3, <1>4
<1>6. ProbeTyped'
  BY <1>1, <1>4, <1>5 DEF ProbeInv, ProbeTyped
<1>7. FreshAlive' /\ OnlineTruthful'
  <2>1. conns \in Streams => stream[conns].at \in {"open", "closing"}
    BY DEF ProbeInv, OnlineTruthful
  <2>2. ASSUME NEW t \in Streams
        PROVE  /\ stream'[t].at \in {"none", "checked"} => ~stream'[t].cancelled
               /\ conns' = t <=> stream'[t].at \in {"open", "closing"} /\ ~stream'[t].cancelled
    <3>0. conns' # t
      BY <1>1, ProbeAssumption DEF NoStream
    <3>1. CASE t = conns
      BY <3>0, <3>1, <2>1, <1>1, <1>3
    <3>2. CASE t # conns
      BY <3>0, <3>2, <1>1 DEF ProbeInv, FreshAlive, OnlineTruthful
    <3>3. QED
      BY <3>1, <3>2
  <2>3. QED
    BY <2>2 DEF FreshAlive, OnlineTruthful
<1>8. Claimed'
  <2>1. \A x \in Sessions : ~Deals(calls[c], x)
    BY <1>1 DEF Deals, Makers
  <2>2. QED
    BY <1>1, <2>1, StillClaimed DEF ProbeInv
<1>9. ImportsMade'
  BY <1>1 DEF ProbeInv, ImportsMade
<1>10. QED
  BY <1>6, <1>7, <1>8, <1>9 DEF ProbeInv

\* sendAndWait, refused: there is no stream, or its channel is full.
LEMMA NotSentStep ==
    ASSUME ProbeInv, NEW c \in Calls, calls[c].op \in {"filter", "import"}, calls[c].at = "manager", seq' = seq + 1,
           calls' = IF calls[c].op = "import" THEN Goes(c, "rollback") ELSE Returned(c),
           UNCHANGED <<wedged, conns, latest, runner, made, session, imported, stream>>
    PROVE  ProbeInv'
<1> DEFINE r == IF calls[c].op = "import" THEN [calls[c] EXCEPT !.at = "rollback"] ELSE NoCall
<1>1. calls' = [calls EXCEPT ![c] = r]
  BY DEF Goes, Returned
<1>2. calls \in [Calls -> GoodCalls] /\ seq \in Nat /\ \A d \in Calls : calls[d].id \in Nat /\ calls[d].id <= seq
  BY DEF ProbeInv, ProbeTyped, GoodCalls, CallRec
<1>3. /\ r \in GoodCalls
      /\ \/ r.id = 0
         \/ r.id = calls[c].id /\ r.n = calls[c].n /\ r.done = calls[c].done
      /\ \A x \in Sessions : Deals(calls[c], x) => Deals(r, x)
  <2>1. CASE calls[c].op = "import"
    <3>1. r = [calls[c] EXCEPT !.at = "rollback"]
      BY <2>1
    <3>2. /\ r \in GoodCalls
          /\ r.id = calls[c].id /\ r.n = calls[c].n /\ r.done = calls[c].done
          /\ r.at = "rollback" /\ r.op = calls[c].op /\ r.session = calls[c].session
      BY <1>2, <2>1, <3>1, GoesOn DEF Places, Makers
    <3> HIDE DEF r
    <3>3. QED
      BY <2>1, <3>2 DEF Deals, Makers
  <2>2. CASE calls[c].op = "filter"
    BY <2>2, NoCallGood DEF Deals, Makers
  <2>3. QED
    BY <2>1, <2>2
<1> HIDE DEF r
<1>4. calls' \in [Calls -> GoodCalls] /\ calls'[c] = r /\ \A d \in Calls \ {c} : calls'[d] = calls[d]
  BY <1>1, <1>2, <1>3
<1>5. \A d \in Calls : /\ calls'[d].id <= seq'
                       /\ \/ /\ calls'[d].id = calls[d].id /\ calls'[d].n = calls[d].n
                             /\ calls[d].done => calls'[d].done
                          \/ calls'[d].id = 0
  BY <1>2, <1>3, <1>4
<1>6. Commands \subseteq Commands' /\ Results \subseteq Results'
  BY <1>2, <1>5, WireGrows
<1>7. StreamOf(Commands, Results) \subseteq StreamOf(Commands', Results')
  BY <1>6, StreamsGrow
<1>8. stream' \in [Streams -> StreamOf(Commands', Results')]
  BY <1>7 DEF ProbeInv, ProbeTyped
<1>9. ProbeTyped'
  BY <1>2, <1>4, <1>5, <1>8 DEF ProbeInv, ProbeTyped
<1>10. Claimed'
  BY <1>1, <1>3, StillClaimed DEF ProbeInv
<1>11. FreshAlive' /\ OnlineTruthful' /\ ImportsMade'
  BY DEF ProbeInv, FreshAlive, OnlineTruthful, ImportsMade
<1>12. QED
  BY <1>9, <1>10, <1>11 DEF ProbeInv

\* sendAndWait, sent: the command carries a new id, and the call has it from now on.
LEMMA SentStep ==
    ASSUME ProbeInv, NEW c \in Calls, calls[c].op \in {"filter", "import"}, calls[c].at = "manager", seq' = seq + 1,
           conns \in Streams,
           stream' = [stream EXCEPT ![conns].send =
               Append(@, [id |-> seq + 1, n |-> calls[c].n, op |-> calls[c].op, session |-> calls[c].session])],
           calls' = [calls EXCEPT ![c].at = "wait", ![c].id = seq + 1],
           UNCHANGED <<wedged, conns, latest, runner, made, session, imported>>
    PROVE  ProbeInv'
<1> DEFINE cmd == [id |-> seq + 1, n |-> calls[c].n, op |-> calls[c].op, session |-> calls[c].session]
           r == [calls[c] EXCEPT !.at = "wait", !.id = seq + 1]
           q == [stream[conns] EXCEPT !.send = Append(@, cmd)]
<1>1. calls' = [calls EXCEPT ![c] = r] /\ stream' = [stream EXCEPT ![conns] = q]
  BY DEF ProbeInv, ProbeTyped
<1>2. calls \in [Calls -> GoodCalls] /\ seq \in Nat /\ \A d \in Calls : calls[d].id \in Nat /\ calls[d].id <= seq
  BY DEF ProbeInv, ProbeTyped, GoodCalls, CallRec
<1>3. calls[c] \in CallRec /\ SoundCall(calls[c])
  BY <1>2 DEF GoodCalls
<1>4. /\ r \in CallRec /\ r.at = "wait" /\ r.id = seq + 1 /\ r.op = calls[c].op /\ r.session = calls[c].session
      /\ r.n = calls[c].n /\ r.done = calls[c].done /\ r.answer = calls[c].answer
  BY <1>2, <1>3 DEF CallRec, Places
<1>5. /\ cmd \in [id : Nat, n : Nat, op : Kinds, session : OptSession]
      /\ cmd.id = seq + 1 /\ cmd.n = calls[c].n
  BY <1>2, <1>3 DEF CallRec
<1> HIDE DEF r, cmd
<1>6. r \in GoodCalls
  BY <1>3, <1>4 DEF GoodCalls, SoundCall, Makers
<1>7. calls' \in [Calls -> GoodCalls] /\ calls'[c] = r /\ \A d \in Calls \ {c} : calls'[d] = calls[d]
  BY ZenonT(30), <1>1, <1>2, <1>6
<1>8. \A d \in Calls : /\ calls'[d].id <= seq'
                       /\ \/ calls'[d] = calls[d] /\ calls'[d].id # seq + 1
                          \/ d = c /\ calls'[d].id = seq' /\ seq' > seq
  BY <1>2, <1>4, <1>7
<1>9. Commands \subseteq Commands' /\ Results \subseteq Results'
  BY <1>2, <1>8, WireGrows
<1>10. cmd \in Commands'
  <2>1. cmd.id \in 1 .. seq'
    BY <1>2, <1>5
  <2>2. \A d \in Calls : calls'[d].id = cmd.id => calls'[d].n = cmd.n
    BY <1>4, <1>5, <1>7, <1>8
  <2>3. QED
    BY <1>5, <2>1, <2>2 DEF Commands
<1>11. StreamOf(Commands, Results) \subseteq StreamOf(Commands', Results')
  BY <1>9, StreamsGrow
<1>12. stream \in [Streams -> StreamOf(Commands', Results')]
  BY <1>11 DEF ProbeInv, ProbeTyped
<1>13. q \in StreamOf(Commands', Results') /\ q.at = stream[conns].at /\ q.cancelled = stream[conns].cancelled
  <2>1. stream[conns] \in StreamOf(Commands', Results')
    BY <1>12
  <2>2. stream[conns].send \in Seq(Commands')
    BY <2>1 DEF StreamOf
  <2>3. Append(stream[conns].send, cmd) \in Seq(Commands')
    BY <1>10, <2>2, AppendProperties
  <2>4. QED
    BY <2>1, <2>3 DEF StreamOf
<1> HIDE DEF q
<1>14. stream' \in [Streams -> StreamOf(Commands', Results')]
  BY <1>1, <1>12, <1>13
<1>15. ProbeTyped'
  BY <1>2, <1>7, <1>8, <1>14 DEF ProbeInv, ProbeTyped
<1>16. Claimed'
  <2>1. \A x \in Sessions : Deals(calls[c], x) => Deals(r, x)
    BY <1>4 DEF Deals
  <2>2. QED
    BY <1>1, <2>1, StillClaimed DEF ProbeInv
<1>17. FreshAlive' /\ OnlineTruthful'
  BY <1>1, <1>12, <1>13 DEF ProbeInv, FreshAlive, OnlineTruthful
<1>18. ImportsMade'
  BY DEF ProbeInv, ImportsMade
<1>19. QED
  BY <1>15, <1>16, <1>17, <1>18 DEF ProbeInv

\* UpdateFilter and StartArchiveUpload.
LEMMA SendStep == ASSUME ProbeInv, NEW c \in Calls, UpdateFilter(c) \/ StartArchiveUpload(c) PROVE ProbeInv'
<1> DEFINE sent == conns # NoStream /\ Len(stream[conns].send) < SendCap
<1>1. /\ calls[c].op \in {"filter", "import"} /\ calls[c].at = "manager" /\ seq' = seq + 1
      /\ UNCHANGED <<wedged, conns, latest, runner, made, session, imported>>
  BY DEF UpdateFilter, StartArchiveUpload, sendAndWait
<1>2. CASE sent
  <2>1. /\ stream' = [stream EXCEPT ![conns].send =
               Append(@, [id |-> seq + 1, n |-> calls[c].n, op |-> calls[c].op, session |-> calls[c].session])]
        /\ calls' = [calls EXCEPT ![c].at = "wait", ![c].id = seq + 1]
    BY <1>2 DEF UpdateFilter, StartArchiveUpload, sendAndWait, nextCmdID
  <2>2. conns \in Streams
    BY <1>2 DEF ProbeInv, ProbeTyped
  <2>3. QED
    BY <1>1, <2>1, <2>2, SentStep
<1>3. CASE ~sent
  <2>1. calls' = (IF calls[c].op = "import" THEN Goes(c, "rollback") ELSE Returned(c)) /\ stream' = stream
    BY <1>3 DEF UpdateFilter, StartArchiveUpload, sendAndWait
  <2>2. QED
    BY <1>1, <2>1, NotSentStep
<1>4. QED
  BY <1>2, <1>3

\* WaitEnds: an import goes on with its session, whatever it was told.
LEMMA WaitEndsStep == ASSUME ProbeInv, NEW c \in Calls, WaitEnds(c) PROVE ProbeInv'
<1>1. /\ calls[c].at = "wait"
      /\ UNCHANGED <<wedged, seq, made, latest, runner, conns, stream, imported, session>>
  BY DEF WaitEnds
<1>2. wedged' \in BOOLEAN
  BY <1>1 DEF ProbeInv, ProbeTyped
<1>3. CASE calls[c].op # "import"
  <2>1. calls[c] \in GoodCalls /\ SoundCall(calls[c])
    BY DEF ProbeInv, ProbeTyped, GoodCalls
  <2>2. calls' = Returned(c) /\ calls[c].op = "filter"
    BY <1>1, <1>3, <2>1 DEF WaitEnds, SoundCall
  <2>3. QED
    BY <1>1, <1>2, <2>2, ReturnStep DEF Makers
<1>4. CASE calls[c].op = "import"
  <2>1. calls' = Goes(c, "report") \/ calls' = Goes(c, "rollback")
    BY <1>4 DEF WaitEnds
  <2>2. CASE calls' = Goes(c, "report")
    BY <1>1, <1>2, <1>4, <2>2, GoStep DEF Places, Makers
  <2>3. CASE calls' = Goes(c, "rollback")
    BY <1>1, <1>2, <1>4, <2>3, GoStep DEF Places, Makers
  <2>4. QED
    BY <2>1, <2>2, <2>3
<1>5. QED
  BY <1>3, <1>4

\* A session is finalized.
LEMMA Closed ==
    ASSUME ProbeInv, NEW x \in Sessions, session[x].st = "running", OnSessionClosed(x)
    PROVE  /\ wedged' \in BOOLEAN
           /\ session' \in [Sessions -> SessionRec]
           /\ session'[x].st = "stopped" /\ session'[x].owner = session[x].owner
           /\ \A y \in Sessions \ {x} : session'[y] = session[y]
<1>1. syncSends(conns, NoSession, FALSE) \in BOOLEAN
  BY SyncSays
<1>2. wedged' \in BOOLEAN
  BY <1>1 DEF OnSessionClosed
<1>3. session \in [Sessions -> SessionRec] /\ session' = [session EXCEPT ![x] = [session[x] EXCEPT !.st = "stopped"]]
  BY DEF ProbeInv, ProbeTyped, OnSessionClosed
<1>4. /\ [session[x] EXCEPT !.st = "stopped"] \in SessionRec
      /\ [session[x] EXCEPT !.st = "stopped"].st = "stopped"
      /\ [session[x] EXCEPT !.st = "stopped"].owner = session[x].owner
  BY <1>3 DEF SessionRec
<1>5. QED
  BY <1>2, <1>3, <1>4

\* StopSession: the session of the call is not running afterwards.
LEMMA StopSessionStep == ASSUME ProbeInv, NEW c \in Calls, StopSession(c) PROVE ProbeInv'
<1> DEFINE x == calls[c].session
           r == IF wedged' THEN [calls[c] EXCEPT !.at = "stuck"] ELSE NoCall
<1>1. /\ calls[c].at \in {"rollback", "stopping"} /\ calls' = [calls EXCEPT ![c] = r]
      /\ UNCHANGED <<seq, made, latest, runner, conns, stream, imported>>
  BY DEF StopSession, Then, Goes, Returned
<1>2. calls[c] \in GoodCalls /\ SoundCall(calls[c]) /\ made' \in Nat /\ session \in [Sessions -> SessionRec]
  BY <1>1 DEF ProbeInv, ProbeTyped, GoodCalls
<1>3. x \in Sessions
  BY <1>1, <1>2 DEF SoundCall
<1>4. /\ r \in GoodCalls
      /\ \/ r.id = 0
         \/ r.id = calls[c].id /\ r.n = calls[c].n /\ r.done = calls[c].done
  <2>1. CASE wedged'
    BY <2>1, <1>1, <1>2, GoesOn DEF Places
  <2>2. CASE ~wedged'
    BY <2>2, NoCallGood
  <2>3. QED
    BY <2>1, <2>2
<1> HIDE DEF r
<1>5. /\ wedged' \in BOOLEAN
      /\ session' \in [Sessions -> SessionRec]
      /\ session'[x].st # "running"
      /\ session'[x].owner = session[x].owner /\ (session[x].st # "none" => session'[x].st # "none")
      /\ \A y \in Sessions \ {x} : session'[y] = session[y]
  <2>1. CASE session[x].st = "running" /\ OnSessionClosed(x)
    <3>1. /\ wedged' \in BOOLEAN
          /\ session' \in [Sessions -> SessionRec]
          /\ session'[x].st = "stopped" /\ session'[x].owner = session[x].owner
          /\ \A y \in Sessions \ {x} : session'[y] = session[y]
      BY <1>3, <2>1, Closed
    <3>2. QED
      BY <3>1
  <2>2. CASE session[x].st # "running" /\ UNCHANGED <<session, desired, wedged>>
    BY <1>2, <2>2 DEF ProbeInv, ProbeTyped
  <2>3. QED
    BY <2>1, <2>2 DEF StopSession
<1>6. \A y \in Sessions : session[y].st # "none" => session'[y].st # "none" /\ session'[y].owner = session[y].owner
  BY <1>5
<1>7. ASSUME NEW y \in Sessions, session'[y].st = "running", ~session'[y].listed
      PROVE  session[y].st = "running" /\ ~session[y].listed /\ ~Deals(calls[c], y)
  BY <1>5, <1>7 DEF Deals
<1> HIDE DEF x
<1>8. QED
  BY <1>1, <1>2, <1>4, <1>5, <1>6, <1>7, CallKeeps

\* SessionEnds: a session that ended needs no call.
LEMMA SessionEndsStep == ASSUME ProbeInv, NEW x \in Sessions, SessionEnds(x) PROVE ProbeInv'
<1>1. /\ session[x].st = "running" /\ OnSessionClosed(x)
      /\ UNCHANGED <<seq, made, latest, runner, conns, stream, imported, calls>>
  BY DEF SessionEnds
<1>2. /\ wedged' \in BOOLEAN
      /\ session' \in [Sessions -> SessionRec]
      /\ session'[x].st = "stopped" /\ session'[x].owner = session[x].owner
      /\ \A y \in Sessions \ {x} : session'[y] = session[y]
  BY <1>1, Closed
<1>3. Commands' = Commands /\ Results' = Results
  BY <1>1 DEF Commands, Results
<1>4. ProbeTyped'
  BY <1>1, <1>2, <1>3 DEF ProbeInv, ProbeTyped
<1>5. FreshAlive' /\ OnlineTruthful'
  BY <1>1 DEF ProbeInv, FreshAlive, OnlineTruthful
<1>6. Claimed'
  BY <1>1, <1>2 DEF ProbeInv, Claimed
<1>7. ImportsMade'
  BY <1>1, <1>2 DEF ProbeInv, ImportsMade
<1>8. QED
  BY <1>4, <1>5, <1>6, <1>7 DEF ProbeInv

\* writeProbeSessionMeta: the session is listed from now on.
LEMMA ReportStep == ASSUME ProbeInv, NEW c \in Calls, writeProbeSessionMeta(c) PROVE ProbeInv'
<1> DEFINE x == calls[c].session
           z == [session[x] EXCEPT !.listed = TRUE]
<1>1. /\ calls[c].at = "report" /\ calls' = [calls EXCEPT ![c] = NoCall]
      /\ session' = [session EXCEPT ![x] = z]
      /\ UNCHANGED <<wedged, seq, made, latest, runner, conns, stream, imported>>
  BY DEF writeProbeSessionMeta, Returned, manager
<1>2. calls[c] \in GoodCalls /\ SoundCall(calls[c])
  BY <1>1 DEF ProbeInv, ProbeTyped, GoodCalls
<1>3. made' \in Nat /\ wedged' \in BOOLEAN /\ session \in [Sessions -> SessionRec]
  BY <1>1 DEF ProbeInv, ProbeTyped
<1>4. x \in Sessions
  BY <1>1, <1>2 DEF SoundCall
<1>5. z \in SessionRec /\ z.st = session[x].st /\ z.owner = session[x].owner /\ z.listed
  BY <1>3, <1>4 DEF SessionRec
<1> HIDE DEF z
<1>6. session' \in [Sessions -> SessionRec] /\ session'[x] = z /\ \A y \in Sessions \ {x} : session'[y] = session[y]
  BY <1>1, <1>3, <1>4, <1>5
<1>7. \A y \in Sessions : session[y].st # "none" => session'[y].st # "none" /\ session'[y].owner = session[y].owner
  BY <1>5, <1>6
<1>8. ASSUME NEW y \in Sessions, session'[y].st = "running", ~session'[y].listed
      PROVE  session[y].st = "running" /\ ~session[y].listed /\ ~Deals(calls[c], y)
  BY <1>5, <1>6, <1>8 DEF Deals
<1> HIDE DEF x
<1>9. QED
  BY <1>1, <1>3, <1>6, <1>7, <1>8, NoCallGood, CallKeeps

\* CreatesSession: the call that made the session deals with it.
LEMMA CreatesStep == ASSUME ProbeInv, NEW c \in Calls, NEW x \in Sessions, CreatesSession(c, x) PROVE ProbeInv'
<1> DEFINE r == [calls[c] EXCEPT !.at = "manager", !.session = x]
           z == [session[x] EXCEPT !.st = "running", !.owner = calls[c].who]
<1>1. /\ calls[c].at = "create" /\ session[x].st = "none"
      /\ calls' = [calls EXCEPT ![c] = r] /\ session' = [session EXCEPT ![x] = z]
      /\ UNCHANGED <<wedged, seq, made, latest, runner, conns, stream, imported>>
  BY DEF CreatesSession, manager, ProbeInv, ProbeTyped
<1>2. calls[c] \in CallRec /\ SoundCall(calls[c])
  BY DEF ProbeInv, ProbeTyped, GoodCalls
<1>3. made' \in Nat /\ wedged' \in BOOLEAN /\ session \in [Sessions -> SessionRec]
  BY <1>1 DEF ProbeInv, ProbeTyped
<1>4. /\ r \in CallRec /\ r.at = "manager" /\ r.session = x /\ r.op = calls[c].op
      /\ r.id = calls[c].id /\ r.n = calls[c].n /\ r.done = calls[c].done /\ r.answer = calls[c].answer
  BY <1>2 DEF CallRec, Places, OptSession
<1>5. z \in SessionRec /\ z.st = "running"
  BY <1>2, <1>3 DEF SessionRec, CallRec, Users
<1> HIDE DEF r, z
<1>6. r \in GoodCalls
  BY <1>2, <1>4 DEF GoodCalls, SoundCall
<1>7. session' \in [Sessions -> SessionRec] /\ session'[x] = z /\ \A y \in Sessions \ {x} : session'[y] = session[y]
  BY <1>1, <1>3, <1>5
<1>8. \A y \in Sessions : session[y].st # "none" => session'[y].st # "none" /\ session'[y].owner = session[y].owner
  BY <1>1, <1>7
<1>9. ASSUME NEW y \in Sessions, session'[y].st = "running", ~session'[y].listed
      PROVE  \/ Deals(r, y)
             \/ session[y].st = "running" /\ ~session[y].listed /\ ~Deals(calls[c], y)
  <2>1. CASE y = x
    BY <2>1, <1>1, <1>2, <1>4 DEF Deals, SoundCall
  <2>2. CASE y # x
    BY <2>2, <1>1, <1>7, <1>9 DEF Deals
  <2>3. QED
    BY <2>1, <2>2
<1>10. \/ r.id = 0
       \/ r.id = calls[c].id /\ r.n = calls[c].n /\ r.done = calls[c].done
  BY <1>4
<1>11. QED
  BY <1>1, <1>3, <1>6, <1>7, <1>8, <1>9, <1>10, CallKeeps

\* A call is entered: it has a number of its own, and has made nothing yet.
LEMMA EntersStep ==
    ASSUME ProbeInv, NEW c \in Calls, calls[c].at = "idle", NEW who \in Users,
           NEW op \in Kinds, NEW ok, NEW a \in {"create", "manager"},
           a = "create" <=> op \in Makers, Enters(c, op, who, ok, a)
    PROVE  ProbeInv'
<1> DEFINE w == IF a = "create" THEN who ELSE NoCall.who
           r == [NoCall EXCEPT !.op = op, !.n = made + 1, !.at = a, !.who = w]
<1>1. /\ calls' = [calls EXCEPT ![c] = r] /\ made' = made + 1
      /\ UNCHANGED <<wedged, seq, latest, runner, conns, stream, imported, session>>
  BY DEF Enters, manager
<1>2. NoCall \in CallRec /\ NoCall.id = 0 /\ NoCall.answer = "none" /\ made \in Nat /\ wedged' \in BOOLEAN
  BY <1>1, NoCallGood DEF GoodCalls, ProbeInv, ProbeTyped
<1>3. w \in Users
  BY <1>2 DEF CallRec
<1> HIDE DEF w
<1>4. a \in Places
  BY DEF Places
<1>5. PICK r0 \in CallRec : r0 = NoCall
  BY <1>2
<1>6. PICK m \in Nat : m = made + 1
  BY <1>2
<1>7. PICK w0 \in Users : w0 = w
  BY <1>3
<1> DEFINE q == [r0 EXCEPT !.op = op, !.n = m, !.at = a, !.who = w0]
<1>8. calls' = [calls EXCEPT ![c] = q] /\ made' \in Nat
  BY <1>1, <1>5, <1>6, <1>7
<1>9. q \in CallRec /\ q.id = r0.id /\ q.at = a /\ q.op = op /\ q.answer = r0.answer
  BY <1>4 DEF CallRec
<1> HIDE DEF q, r
<1>10. q \in GoodCalls /\ q.id = 0
  BY <1>2, <1>5, <1>9 DEF GoodCalls, SoundCall, Makers
<1>11. \A x \in Sessions : Deals(calls[c], x) => Deals(q, x)
  BY DEF Deals
<1>12. QED
  BY <1>1, <1>2, <1>8, <1>10, <1>11, CallMoves

\* Any call that anybody may begin.
LEMMA EnterStep ==
    ASSUME ProbeInv, NEW c \in Calls, NEW who \in Callers(c), Call(c, who)
    PROVE  ProbeInv'
<1>1. calls[c].at = "idle" /\ who \in Users
  BY DEF Callers, Users
<1>2. \A op \in Kinds : op \in Makers <=> op \in {"start", "import"}
  BY DEF Makers
<1>3. CASE ProbeStartCapture(c, who) \/ ProbeImportArchive(c, who)
  BY <1>1, <1>3, EntersStep DEF ProbeStartCapture, ProbeImportArchive, Kinds, Makers
<1>4. CASE ProbeStopCapture(c, who) \/ ProbeUpdateFilter(c, who)
  BY <1>1, <1>4, EntersStep DEF ProbeStopCapture, ProbeUpdateFilter, Kinds, Makers
<1>5. CASE ProbeRetryCapture(c, who) \/ ProbeRevoke(c, who) \/ ProbeListArchive(c, who)
  BY <1>1, <1>5, EntersStep DEF ProbeRetryCapture, ProbeRevoke, ProbeListArchive, Kinds, Makers
<1>6. QED
  BY <1>3, <1>4, <1>5 DEF Call

(***************************************************************************)
(* The machine, registration and uploads.                                  *)
(***************************************************************************)
\* RegisterProbe, handleStart and handleStop: the probe's own affairs.
LEMMA LocalStep ==
    ASSUME ProbeInv, RegisterProbe \/ handleStop \/ \E x \in Sessions : handleStart(x)
    PROVE  ProbeInv'
<1>1. UNCHANGED <<calls, seq, made, session, imported, conns, wedged, latest, stream>>
  BY DEF RegisterProbe, handleStop, handleStart, manager
<1>2. runner' \in RunRec
  <2>1. CASE RegisterProbe
    BY <2>1 DEF RegisterProbe, ProbeInv, ProbeTyped
  <2>2. CASE handleStop
    BY <2>2 DEF handleStop, ProbeInv, ProbeTyped, RunRec
  <2>3. ASSUME NEW x \in Sessions, handleStart(x) PROVE runner' \in RunRec
    BY <2>3 DEF handleStart, ProbeInv, ProbeTyped, RunRec, OptSession
  <2>4. QED
    BY <2>1, <2>2, <2>3
<1>3. /\ Commands' = Commands /\ Results' = Results
      /\ Claimed' /\ ImportsMade'
      /\ calls' \in [Calls -> GoodCalls] /\ \A c \in Calls : calls'[c].id <= seq'
  BY <1>1, OnlyStreams
<1>4. ProbeTyped'
  BY <1>1, <1>2, <1>3 DEF ProbeInv, ProbeTyped
<1>5. QED
  BY <1>1, <1>3, <1>4 DEF ProbeInv, FreshAlive, OnlineTruthful

\* Uploaded: the session is there and its owner is asked for.
LEMMA UploadedStep == ASSUME ProbeInv, NEW x \in Sessions, Uploaded(x) PROVE ProbeInv'
<1>1. /\ UNCHANGED <<calls, seq, made, session, conns, wedged, latest, stream, runner>>
      /\ imported' = imported \cup {<<x, authorize(x)>>}
  BY DEF Uploaded, manager
<1>2. Commands' = Commands /\ Results' = Results
  BY <1>1 DEF Commands, Results
<1>3. ProbeTyped'
  BY <1>1, <1>2 DEF ProbeInv, ProbeTyped
<1>4. FreshAlive' /\ OnlineTruthful' /\ Claimed'
  BY <1>1 DEF ProbeInv, FreshAlive, OnlineTruthful, Claimed
<1>5. ImportsMade'
  <2>1. ASSUME NEW y \in Sessions, <<y, TRUE>> \in imported' PROVE session[y].st # "none" /\ session[y].owner = Owner
    <3>1. CASE <<y, TRUE>> \in imported
      BY <3>1 DEF ProbeInv, ImportsMade
    <3>2. CASE <<y, TRUE>> = <<x, authorize(x)>>
      BY <3>2 DEF authorize
    <3>3. QED
      BY <1>1, <2>1, <3>1, <3>2
  <2>2. QED
    BY <1>1, <2>1 DEF ImportsMade
<1>6. QED
  BY <1>3, <1>4, <1>5 DEF ProbeInv

(***************************************************************************)
(* The theorems.                                                           *)
(***************************************************************************)
\* Nothing is connected, called or made at first.
LEMMA ProbeInvInit == Init => ProbeInv
<1> SUFFICES ASSUME Init PROVE ProbeInv
  OBVIOUS
<1>1. ProbeTyped
  <2>1. NewStream \in StreamOf(Commands, Results)
    BY EmptySeq DEF NewStream, StreamOf
  <2>2. stream \in [Streams -> StreamOf(Commands, Results)]
    BY <2>1 DEF Init
  <2>3. calls \in [Calls -> GoodCalls] /\ seq = 0 /\ \A c \in Calls : calls[c].id <= seq
    BY NoCallGood DEF Init
  <2>4. session \in [Sessions -> SessionRec] /\ made \in Nat /\ seq \in Nat
    BY DEF Init, SessionRec, Users
  <2>5. latest \in [on : BOOLEAN, session : OptSession] /\ runner \in RunRec /\ wedged \in BOOLEAN
        /\ conns \in Streams \cup {NoStream}
    BY DEF Init, RunRec, OptSession
  <2>6. QED
    BY <2>2, <2>3, <2>4, <2>5 DEF ProbeTyped
<1>2. FreshAlive /\ OnlineTruthful
  BY ProbeAssumption DEF Init, NewStream, NoStream, FreshAlive, OnlineTruthful
<1>3. Claimed /\ ImportsMade
  BY DEF Init, Claimed, ImportsMade
<1>4. QED
  BY <1>1, <1>2, <1>3 DEF ProbeInv

\* Every step keeps the invariant.
LEMMA ProbeInvStep == ProbeInv /\ [Next]_vars => ProbeInv'
<1> SUFFICES ASSUME ProbeInv, [Next]_vars PROVE ProbeInv'
  OBVIOUS
<1>1. ASSUME NEW s \in Streams, StreamSteps(s) PROVE ProbeInv'
  <2>1. CASE Connect(s)
    BY <2>1, ConnectStep
  <2>2. CASE openConn(s)
    BY <2>2, OpenStep
  <2>3. CASE LinkBreaks(s) \/ SenderQuits(s)
    BY <2>3, LinkStep
  <2>4. CASE RecvFails(s)
    BY <2>4, RecvFailsStep
  <2>5. CASE closeConn(s)
    BY <2>5, CloseStep
  <2>6. CASE SenderSends(s)
    BY <2>6, SenderStep
  <2>7. CASE execute(s)
    BY <2>7, ExecuteStep
  <2>8. CASE applyHeartbeat(s)
    BY <2>8, HeartbeatStep
  <2>9. CASE handleEvent(s)
    BY <2>9, EventStep
  <2>10. QED
    BY <1>1, <2>1, <2>2, <2>3, <2>4, <2>5, <2>6, <2>7, <2>8, <2>9 DEF StreamSteps
<1>2. ASSUME NEW c \in Calls, CallSteps(c) PROVE ProbeInv'
  <2>1. CASE CreateFails(c)
    <3>1. calls' = Returned(c) /\ calls[c].at = "create"
          /\ UNCHANGED <<wedged, seq, made, latest, runner, conns, stream, imported, session>>
      BY <2>1 DEF CreateFails, manager
    <3>2. wedged' \in BOOLEAN
      BY <3>1 DEF ProbeInv, ProbeTyped
    <3>3. QED
      BY <3>1, <3>2, ReturnStep
  <2>2. CASE StartCapture(c) \/ Retry(c) \/ QueryArchive(c)
    BY <2>2, SectionStep
  <2>3. CASE StopCapture(c)
    BY <2>3, StopCaptureStep
  <2>4. CASE Revoke(c)
    BY <2>4, RevokeStep
  <2>5. CASE UpdateFilter(c) \/ StartArchiveUpload(c)
    BY <2>5, SendStep
  <2>6. CASE WaitEnds(c)
    BY <2>6, WaitEndsStep
  <2>7. CASE StopSession(c)
    BY <2>7, StopSessionStep
  <2>8. CASE writeProbeSessionMeta(c)
    BY <2>8, ReportStep
  <2>9. ASSUME NEW x \in Sessions, CreatesSession(c, x) PROVE ProbeInv'
    BY <2>9, CreatesStep
  <2>10. QED
    BY <1>2, <2>1, <2>2, <2>3, <2>4, <2>5, <2>6, <2>7, <2>8, <2>9 DEF CallSteps
<1>3. ASSUME NEW c \in Calls, NEW who \in Callers(c), Call(c, who) PROVE ProbeInv'
  BY <1>3, EnterStep
<1>4. CASE RegisterProbe \/ handleStop
  BY <1>4, LocalStep
<1>5. ASSUME NEW x \in Sessions, handleStart(x) \/ Uploaded(x) \/ SessionEnds(x) PROVE ProbeInv'
  BY <1>5, LocalStep, UploadedStep, SessionEndsStep
<1>6. CASE UNCHANGED vars
  <2>1. UNCHANGED <<calls, seq, made, session, imported, conns, wedged, latest, runner, stream>>
    BY <1>6 DEF vars, manager
  <2>2. stream' \in [Streams -> StreamOf(Commands, Results)]
    BY <2>1 DEF ProbeInv, ProbeTyped
  <2>3. QED
    BY <2>1, <2>2, QuietStep
<1>7. QED
  BY <1>1, <1>2, <1>3, <1>4, <1>5, <1>6 DEF Next

\* The whole invariant.
THEOREM ProbeInvariant == Spec => []ProbeInv
<1>1. QED
  BY ProbeInvInit, ProbeInvStep, PTL DEF Spec

\* sendAndWait reports success only of a command that the probe has carried out,
\* whatever streams broke, were replaced and handed commands to each other's senders.
THEOREM AnswersSafe == Spec => []AcceptedWasExecuted
<1>1. ProbeInv => AcceptedWasExecuted
  BY DEF ProbeInv, ProbeTyped, GoodCalls, SoundCall, AcceptedWasExecuted
<1>2. QED
  BY <1>1, ProbeInvariant, PTL

\* A probe is online exactly while the handler entered last runs with a live context.
THEOREM OnlineSafe == Spec => []OnlineTruthful
<1>1. ProbeInv => OnlineTruthful
  BY DEF ProbeInv
<1>2. QED
  BY <1>1, ProbeInvariant, PTL

\* What a probe call made is listed, being dealt with or stopped, and imports enter
\* only sessions of the probe's owner.
THEOREM SessionsSafe == Spec => []SessionsAccounted
<1>1. ASSUME ProbeInv PROVE SessionsAccounted
  <2>1. NoSessionLeft
    BY <1>1 DEF ProbeInv, Claimed, Deals, NoSessionLeft
  <2>2. ImportOwned
    BY <1>1 DEF ProbeInv, ImportsMade, ImportOwned
  <2>3. QED
    BY <2>1, <2>2 DEF SessionsAccounted
<1>2. QED
  BY <1>1, ProbeInvariant, PTL
=============================================================================
