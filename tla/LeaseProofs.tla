---------------------------- MODULE LeaseProofs ----------------------------
(***************************************************************************)
(* Theorems about the proxy leases of the pipeline, for any callers, ports, *)
(* limits and numbers of leases and sessions.                               *)
(*                                                                         *)
(* What a lease holds is given back exactly once because each lease object  *)
(* has one holder, the table, the cleanup or one call, and each session     *)
(* port that no overlapping call has taken from its lease has one as well:  *)
(* a call, a finalizer or a lease object.                                   *)
(***************************************************************************)
EXTENDS ProxyLease, TLAPS, FiniteSetTheorems

Pcs == {"idle", "allocate", "spawn", "insert", "reject", "find", "found", "probe", "wait", "undo",
        "assign", "stopping", "clear", "free", "reclaim", "reclaimed"}
LeaseRec == [owner : Owners, agentPort : AgentPorts \cup {NoPort}, ctrlPort : CtrlPorts \cup {NoPort},
             grpcPort : GrpcPorts \cup {NoPort}, session : 0..MaxLeaseSessions]
CallRec == [pc : Pcs, op : {"none", "start", "stop", "release"}, owner : Owners,
            l : 0..MaxLeases, port : GrpcPorts \cup {NoPort}, s : 0..MaxLeaseSessions]
TaskRec == [st : {"none", "running", "closing", "removed", "clearing", "done"}, frees : GrpcPorts \cup {NoPort}]

\* A call that makes a lease or takes one down, and one that has a session port in hand.
Holds(r) == r.pc \in {"spawn", "insert", "reject", "reclaimed"}
HasPort(r) == r.pc \in {"probe", "wait", "undo", "assign", "free"}
HasSession(r) == r.pc \in {"wait", "undo", "assign"}
Makes(r) == r.pc \in {"spawn", "insert", "reject"}
Starts(r) == r.pc \in {"probe", "wait", "undo", "assign"}
HasLease(r) == r.pc \notin {"idle", "allocate"}

\* What calls remember exists, and what was not made yet is blank.
Known ==
    /\ \A c \in Callers : call[c].pc \notin {"idle", "allocate"} => call[c].l \in 1..created
    /\ \A c \in Callers : HasSession(call[c]) \/ call[c].pc \in {"stopping", "clear"} => call[c].s \in 1..started
    /\ \A c \in Callers : call[c].pc = "clear" => Stopped(call[c].s)
    /\ \A c \in Callers : Starts(call[c]) => call[c].port # NoPort
    /\ leases \cup cleaning \subseteq 1..created
    /\ \A l \in Ids : lease[l].session <= started /\ (l > created => lease[l].session = 0)
    /\ ~cleaned => cleaning = {}
    /\ \A s \in LeaseSessions : /\ session[s].st # "clearing" => session[s].frees = NoPort
                                /\ s > started => session[s].st = "none"

\* A lease object is in the table, in the cleanup or in the hands of one call.
OneHolder ==
    /\ leases \cap cleaning = {}
    /\ \A c \in Callers : Holds(call[c]) => call[c].l \notin leases \cup cleaning
    /\ \A c, d \in Callers : Holds(call[c]) /\ Holds(call[d]) /\ c # d => call[c].l # call[d].l

\* An object that is being made is nobody else's, and has no session port.
Unshared ==
    \A c \in Callers : Makes(call[c]) =>
        /\ lease[call[c].l].grpcPort = NoPort
        /\ \A d \in Callers \ {c} : HasLease(call[d]) => call[d].l # call[c].l

\* A session is being started by one call, or is the session of one lease.
OneLeasePerSession ==
    /\ \A c, d \in Callers : HasSession(call[c]) /\ HasSession(call[d]) /\ c # d => call[c].s # call[d].s
    /\ \A c \in Callers, l \in Ids : HasSession(call[c]) => lease[l].session # call[c].s
    /\ \A l, m \in Ids : l # m => lease[l].session = 0 \/ lease[l].session # lease[m].session

\* The session port that a call, a finalizer or a lease object has, or none.
CallPort(c) == IF HasPort(call[c]) THEN call[c].port ELSE NoPort
TaskPort(s) == session[s].frees
LeasePort(l) == IF l \in Objects THEN lease[l].grpcPort ELSE NoPort
Holders == ({"call"} \X Callers) \cup ({"task"} \X LeaseSessions) \cup ({"lease"} \X Ids)
holding ==
    [h \in Holders |-> IF h[1] = "call" THEN CallPort(h[2]) ELSE IF h[1] = "task" THEN TaskPort(h[2]) ELSE LeasePort(h[2])]

\* A session port has one holder, unless it is one whose lease was given to another
\* session; what is held is marked used, and what is marked used is held.
Accounts(f, used, over) ==
    /\ \A g, h \in Holders : g # h /\ f[g] = f[h] => f[g] \in over \cup {NoPort}
    /\ \A h \in Holders : f[h] \in used \cup over \cup {NoPort}
    /\ \A p \in used : p \in over \/ \E h \in Holders : f[h] = p
PortsHeld == Accounts(holding, grpcUsed, overlapped)

LeaseInv ==
    /\ LeaseTypeOK /\ Known /\ OneHolder /\ LimitKept /\ PortsAccounted /\ NoStrayAgent
    /\ Unshared /\ OneLeasePerSession /\ PortsHeld

(***************************************************************************)
(* Session ports.                                                          *)
(***************************************************************************)
SessionPorts == GrpcPorts \cup {NoPort}

\* A holder gives its port back.
LEMMA GivesBack ==
    ASSUME NEW f \in [Holders -> SessionPorts], NEW used \in SUBSET GrpcPorts, NEW over,
           NEW h \in Holders, Accounts(f, used, over)
    PROVE  Accounts([f EXCEPT ![h] = NoPort], used \ {f[h]}, over)
BY LeaseAssumption DEF Accounts, SessionPorts

\* A holder without a port takes a free one.
LEMMA Takes ==
    ASSUME NEW f \in [Holders -> SessionPorts], NEW used \in SUBSET GrpcPorts, NEW over,
           NEW h \in Holders, f[h] = NoPort, NEW p \in GrpcPorts \ used, Accounts(f, used, over)
    PROVE  Accounts([f EXCEPT ![h] = p], used \cup {p}, over)
BY LeaseAssumption DEF Accounts, SessionPorts

\* A port passes from one holder to another, which had none or one that is shared from now on.
LEMMA Passes ==
    ASSUME NEW f \in [Holders -> SessionPorts], NEW used \in SUBSET GrpcPorts, NEW over, NEW more, over \subseteq more,
           NEW g \in Holders, NEW h \in Holders, g # h, f[h] \in more \cup {NoPort}, Accounts(f, used, over)
    PROVE  Accounts([f EXCEPT ![g] = NoPort, ![h] = f[g]], used, more)
<1> DEFINE e == [f EXCEPT ![g] = NoPort, ![h] = f[g]]
<1>1. /\ e[g] = NoPort /\ e[h] = f[g] /\ \A k \in Holders : k # g /\ k # h => e[k] = f[k]
  OBVIOUS
<1> HIDE DEF e
<1>2. \A j, k \in Holders : j # k /\ e[j] = e[k] => e[j] \in more \cup {NoPort}
  BY <1>1 DEF Accounts
<1>3. \A k \in Holders : e[k] \in used \cup more \cup {NoPort}
  BY <1>1 DEF Accounts
<1>4. ASSUME NEW p \in used PROVE p \in more \/ \E k \in Holders : e[k] = p
  <2>1. CASE p \in over
    BY <2>1
  <2>2. ASSUME NEW k \in Holders, f[k] = p PROVE p \in more \/ \E j \in Holders : e[j] = p
    <3>1. CASE k = g
      BY <3>1, <2>2, <1>1
    <3>2. CASE k = h
      BY <3>2, <2>2, LeaseAssumption
    <3>3. CASE k # g /\ k # h
      BY <3>3, <2>2, <1>1
    <3>4. QED
      BY <3>1, <3>2, <3>3
  <2>3. QED
    BY <2>1, <2>2 DEF Accounts
<1>5. QED
  BY <1>2, <1>3, <1>4 DEF Accounts, e

\* A holder's port is shared from now on and given away.
LEMMA GivesAway ==
    ASSUME NEW f \in [Holders -> SessionPorts], NEW used \in SUBSET GrpcPorts, NEW over, NEW more, over \subseteq more,
           NEW h \in Holders, f[h] \in more \cup {NoPort}, Accounts(f, used, over)
    PROVE  Accounts([f EXCEPT ![h] = NoPort], used, more)
BY LeaseAssumption DEF Accounts, SessionPorts

\* What each holder has.
LEMMA HoldingIs ==
    ASSUME LeaseTypeOK
    PROVE  /\ holding \in [Holders -> SessionPorts]
           /\ \A c \in Callers : <<"call", c>> \in Holders /\ holding[<<"call", c>>] = CallPort(c)
           /\ \A s \in LeaseSessions : <<"task", s>> \in Holders /\ holding[<<"task", s>>] = TaskPort(s)
           /\ \A l \in Ids : <<"lease", l>> \in Holders /\ holding[<<"lease", l>>] = LeasePort(l)
<1>1. /\ \A c \in Callers : CallPort(c) \in SessionPorts
      /\ \A s \in LeaseSessions : TaskPort(s) \in SessionPorts
      /\ \A l \in Ids : LeasePort(l) \in SessionPorts
  BY DEF LeaseTypeOK, CallPort, TaskPort, LeasePort, SessionPorts
<1>2. holding \in [Holders -> SessionPorts]
  BY <1>1 DEF holding, Holders
<1>3. QED
  BY <1>2 DEF holding, Holders

\* The same after a step.
LEMMA HoldingNext ==
    /\ holding' = [h \in Holders |-> holding'[h]]
    /\ \A c \in Callers : holding'[<<"call", c>>] = CallPort(c)'
    /\ \A s \in LeaseSessions : holding'[<<"task", s>>] = TaskPort(s)'
    /\ \A l \in Ids : holding'[<<"lease", l>>] = LeasePort(l)'
BY DEF holding, Holders

\* A picture of who holds what after a step is right when it is right for every kind of holder.
LEMMA SameHolding ==
    ASSUME NEW f, f = [h \in Holders |-> f[h]],
           \A c \in Callers : CallPort(c)' = f[<<"call", c>>],
           \A s \in LeaseSessions : TaskPort(s)' = f[<<"task", s>>],
           \A l \in Ids : LeasePort(l)' = f[<<"lease", l>>]
    PROVE  holding' = f
<1>1. ASSUME NEW h \in Holders PROVE holding'[h] = f[h]
  <2>1. \/ \E c \in Callers : h = <<"call", c>>
        \/ \E s \in LeaseSessions : h = <<"task", s>>
        \/ \E l \in Ids : h = <<"lease", l>>
    BY DEF Holders
  <2>2. QED
    BY <2>1, HoldingNext
<1>2. [h \in Holders |-> holding'[h]] = [h \in Holders |-> f[h]]
  BY <1>1
<1>3. QED
  BY <1>2, HoldingNext

\* What changes when one holder changes.
LEMMA Except1 ==
    ASSUME LeaseTypeOK, NEW h \in Holders, NEW p
    PROVE  /\ [holding EXCEPT ![h] = p] = [k \in Holders |-> [holding EXCEPT ![h] = p][k]]
           /\ [holding EXCEPT ![h] = p][h] = p
           /\ \A k \in Holders \ {h} : [holding EXCEPT ![h] = p][k] = holding[k]
BY HoldingIs

\* Two holders change.
LEMMA Except2 ==
    ASSUME LeaseTypeOK, NEW g \in Holders, NEW h \in Holders, g # h, NEW p, NEW q
    PROVE  /\ [holding EXCEPT ![g] = p, ![h] = q] = [k \in Holders |-> [holding EXCEPT ![g] = p, ![h] = q][k]]
           /\ [holding EXCEPT ![g] = p, ![h] = q][g] = p
           /\ [holding EXCEPT ![g] = p, ![h] = q][h] = q
           /\ \A k \in Holders \ {g, h} : [holding EXCEPT ![g] = p, ![h] = q][k] = holding[k]
BY HoldingIs

\* Nothing changes hands.
LEMMA PortsStay ==
    ASSUME LeaseTypeOK, PortsHeld, UNCHANGED <<grpcUsed, overlapped>>,
           \A c \in Callers : CallPort(c)' = CallPort(c),
           \A s \in LeaseSessions : TaskPort(s)' = TaskPort(s),
           \A l \in Ids : LeasePort(l)' = LeasePort(l)
    PROVE  PortsHeld'
<1>1. holding' = holding
  BY HoldingIs, SameHolding
<1>2. QED
  BY <1>1 DEF PortsHeld, Accounts

\* A call gives its port back, ...
LEMMA CallGives ==
    ASSUME LeaseTypeOK, PortsHeld, NEW c \in Callers, UNCHANGED overlapped,
           grpcUsed' = grpcUsed \ {CallPort(c)}, CallPort(c)' = NoPort,
           \A d \in Callers \ {c} : CallPort(d)' = CallPort(d),
           \A s \in LeaseSessions : TaskPort(s)' = TaskPort(s),
           \A l \in Ids : LeasePort(l)' = LeasePort(l)
    PROVE  PortsHeld'
<1> DEFINE h == <<"call", c>>
           f == [holding EXCEPT ![h] = NoPort]
<1>1. holding \in [Holders -> SessionPorts] /\ h \in Holders /\ holding[h] = CallPort(c) /\ grpcUsed \in SUBSET GrpcPorts
  BY HoldingIs DEF LeaseTypeOK
<1>2. holding' = f
  <2>1. /\ f = [k \in Holders |-> f[k]]
        /\ f[h] = NoPort
        /\ \A k \in Holders \ {h} : f[k] = holding[k]
    BY <1>1, Except1
  <2> HIDE DEF f
  <2>2. QED
    BY <2>1, HoldingIs, SameHolding
<1>3. Accounts(f, grpcUsed \ {holding[h]}, overlapped)
  BY <1>1, GivesBack DEF PortsHeld
<1>4. QED
  BY <1>1, <1>2, <1>3 DEF PortsHeld, Accounts

\* ... and so do a finalizer and a lease.
LEMMA TaskGives ==
    ASSUME LeaseTypeOK, PortsHeld, NEW s \in LeaseSessions, UNCHANGED overlapped,
           grpcUsed' = grpcUsed \ {TaskPort(s)}, TaskPort(s)' = NoPort,
           \A c \in Callers : CallPort(c)' = CallPort(c),
           \A t \in LeaseSessions \ {s} : TaskPort(t)' = TaskPort(t),
           \A l \in Ids : LeasePort(l)' = LeasePort(l)
    PROVE  PortsHeld'
<1> DEFINE h == <<"task", s>>
           f == [holding EXCEPT ![h] = NoPort]
<1>1. holding \in [Holders -> SessionPorts] /\ h \in Holders /\ holding[h] = TaskPort(s) /\ grpcUsed \in SUBSET GrpcPorts
  BY HoldingIs DEF LeaseTypeOK
<1>2. holding' = f
  <2>1. /\ f = [k \in Holders |-> f[k]]
        /\ f[h] = NoPort
        /\ \A k \in Holders \ {h} : f[k] = holding[k]
    BY <1>1, Except1
  <2> HIDE DEF f
  <2>2. QED
    BY <2>1, HoldingIs, SameHolding
<1>3. Accounts(f, grpcUsed \ {holding[h]}, overlapped)
  BY <1>1, GivesBack DEF PortsHeld
<1>4. QED
  BY <1>1, <1>2, <1>3 DEF PortsHeld, Accounts

\* A lease object gives its session port back.
LEMMA LeaseGives ==
    ASSUME LeaseTypeOK, PortsHeld, NEW l \in Ids, UNCHANGED overlapped,
           grpcUsed' = grpcUsed \ {LeasePort(l)}, LeasePort(l)' = NoPort,
           \A c \in Callers : CallPort(c)' = CallPort(c),
           \A s \in LeaseSessions : TaskPort(s)' = TaskPort(s),
           \A m \in Ids \ {l} : LeasePort(m)' = LeasePort(m)
    PROVE  PortsHeld'
<1> DEFINE h == <<"lease", l>>
           f == [holding EXCEPT ![h] = NoPort]
<1>1. holding \in [Holders -> SessionPorts] /\ h \in Holders /\ holding[h] = LeasePort(l) /\ grpcUsed \in SUBSET GrpcPorts
  BY HoldingIs DEF LeaseTypeOK
<1>2. holding' = f
  <2>1. /\ f = [k \in Holders |-> f[k]]
        /\ f[h] = NoPort
        /\ \A k \in Holders \ {h} : f[k] = holding[k]
    BY <1>1, Except1
  <2> HIDE DEF f
  <2>2. QED
    BY <2>1, HoldingIs, SameHolding
<1>3. Accounts(f, grpcUsed \ {holding[h]}, overlapped)
  BY <1>1, GivesBack DEF PortsHeld
<1>4. QED
  BY <1>1, <1>2, <1>3 DEF PortsHeld, Accounts

\* A call takes a free port.
LEMMA CallTakes ==
    ASSUME LeaseTypeOK, PortsHeld, NEW c \in Callers, NEW p \in GrpcPorts \ grpcUsed, UNCHANGED overlapped,
           grpcUsed' = grpcUsed \cup {p}, CallPort(c) = NoPort, CallPort(c)' = p,
           \A d \in Callers \ {c} : CallPort(d)' = CallPort(d),
           \A s \in LeaseSessions : TaskPort(s)' = TaskPort(s),
           \A l \in Ids : LeasePort(l)' = LeasePort(l)
    PROVE  PortsHeld'
<1> DEFINE h == <<"call", c>>
           f == [holding EXCEPT ![h] = p]
<1>1. holding \in [Holders -> SessionPorts] /\ h \in Holders /\ holding[h] = CallPort(c) /\ grpcUsed \in SUBSET GrpcPorts
  BY HoldingIs DEF LeaseTypeOK
<1>2. holding' = f
  <2>1. /\ f = [k \in Holders |-> f[k]]
        /\ f[h] = p
        /\ \A k \in Holders \ {h} : f[k] = holding[k]
    BY <1>1, Except1
  <2> HIDE DEF f
  <2>2. QED
    BY <2>1, HoldingIs, SameHolding
<1>3. Accounts(f, grpcUsed \cup {p}, overlapped)
  BY <1>1, Takes DEF PortsHeld
<1>4. QED
  BY <1>2, <1>3 DEF PortsHeld, Accounts

\* A lease gives its port to the call that clears it, ...
LEMMA LeaseToCall ==
    ASSUME LeaseTypeOK, PortsHeld, NEW l \in Ids, NEW c \in Callers, UNCHANGED <<grpcUsed, overlapped>>,
           CallPort(c) = NoPort, CallPort(c)' = LeasePort(l), LeasePort(l)' = NoPort,
           \A d \in Callers \ {c} : CallPort(d)' = CallPort(d),
           \A s \in LeaseSessions : TaskPort(s)' = TaskPort(s),
           \A m \in Ids \ {l} : LeasePort(m)' = LeasePort(m)
    PROVE  PortsHeld'
<1> DEFINE g == <<"lease", l>>
           h == <<"call", c>>
           f == [holding EXCEPT ![g] = NoPort, ![h] = holding[g]]
<1>1. /\ holding \in [Holders -> SessionPorts] /\ g \in Holders /\ h \in Holders /\ g # h
      /\ holding[g] = LeasePort(l) /\ holding[h] = NoPort /\ grpcUsed \in SUBSET GrpcPorts
  BY HoldingIs DEF LeaseTypeOK
<1>2. holding' = f
  <2>1. /\ f = [k \in Holders |-> f[k]]
        /\ f[g] = NoPort /\ f[h] = holding[g]
        /\ \A k \in Holders \ {g, h} : f[k] = holding[k]
    BY <1>1, Except2
  <2> HIDE DEF f
  <2>2. QED
    BY <1>1, <2>1, HoldingIs, SameHolding
<1>3. Accounts(f, grpcUsed, overlapped)
  BY <1>1, Passes DEF PortsHeld
<1>4. QED
  BY ZenonT(30), <1>2, <1>3 DEF PortsHeld, Accounts

\* ... or to the finalizer.
LEMMA LeaseToTask ==
    ASSUME LeaseTypeOK, PortsHeld, NEW l \in Ids, NEW s \in LeaseSessions, UNCHANGED <<grpcUsed, overlapped>>,
           TaskPort(s) = NoPort, TaskPort(s)' = LeasePort(l), LeasePort(l)' = NoPort,
           \A c \in Callers : CallPort(c)' = CallPort(c),
           \A t \in LeaseSessions \ {s} : TaskPort(t)' = TaskPort(t),
           \A m \in Ids \ {l} : LeasePort(m)' = LeasePort(m)
    PROVE  PortsHeld'
<1> DEFINE g == <<"lease", l>>
           h == <<"task", s>>
           f == [holding EXCEPT ![g] = NoPort, ![h] = holding[g]]
<1>1. /\ holding \in [Holders -> SessionPorts] /\ g \in Holders /\ h \in Holders /\ g # h
      /\ holding[g] = LeasePort(l) /\ holding[h] = NoPort /\ grpcUsed \in SUBSET GrpcPorts
  BY HoldingIs DEF LeaseTypeOK
<1>2. holding' = f
  <2>1. /\ f = [k \in Holders |-> f[k]]
        /\ f[g] = NoPort /\ f[h] = holding[g]
        /\ \A k \in Holders \ {g, h} : f[k] = holding[k]
    BY <1>1, Except2
  <2> HIDE DEF f
  <2>2. QED
    BY <1>1, <2>1, HoldingIs, SameHolding
<1>3. Accounts(f, grpcUsed, overlapped)
  BY <1>1, Passes DEF PortsHeld
<1>4. QED
  BY ZenonT(30), <1>2, <1>3 DEF PortsHeld, Accounts

\* A call gives its port to a lease that is there, or loses it to one that is not.
LEMMA CallToLease ==
    ASSUME LeaseTypeOK, PortsHeld, NEW l \in Ids, NEW c \in Callers, UNCHANGED grpcUsed, overlapped \subseteq overlapped',
           LeasePort(l) \in overlapped' \cup {NoPort}, CallPort(c)' = NoPort,
           LeasePort(l)' = IF l \in Objects THEN CallPort(c) ELSE LeasePort(l),
           l \notin Objects => CallPort(c) \in overlapped',
           \A d \in Callers \ {c} : CallPort(d)' = CallPort(d),
           \A s \in LeaseSessions : TaskPort(s)' = TaskPort(s),
           \A m \in Ids \ {l} : LeasePort(m)' = LeasePort(m)
    PROVE  PortsHeld'
<1> DEFINE g == <<"call", c>>
           h == <<"lease", l>>
           f == [holding EXCEPT ![g] = NoPort, ![h] = holding[g]]
           e == [holding EXCEPT ![g] = NoPort]
<1>1. /\ holding \in [Holders -> SessionPorts] /\ g \in Holders /\ h \in Holders /\ g # h
      /\ holding[g] = CallPort(c) /\ holding[h] = LeasePort(l) /\ grpcUsed \in SUBSET GrpcPorts
  BY HoldingIs DEF LeaseTypeOK
<1>2. CASE l \in Objects
  <2>1. holding' = f
    <3>1. /\ f = [k \in Holders |-> f[k]]
          /\ f[g] = NoPort /\ f[h] = holding[g]
          /\ \A k \in Holders \ {g, h} : f[k] = holding[k]
      BY ZenonT(30), <1>1, Except2
    <3> HIDE DEF f
    <3>2. QED
      BY <1>1, <1>2, <3>1, HoldingIs, SameHolding
  <2>2. Accounts(f, grpcUsed, overlapped')
    BY ZenonT(30), <1>1, Passes DEF PortsHeld
  <2>3. QED
    BY <2>1, <2>2 DEF PortsHeld, Accounts
<1>3. CASE l \notin Objects
  <2>1. holding' = e
    <3>1. /\ e = [k \in Holders |-> e[k]]
          /\ e[g] = NoPort
          /\ \A k \in Holders \ {g} : e[k] = holding[k]
      BY <1>1, Except1
    <3> HIDE DEF e
    <3>2. QED
      BY <1>1, <1>3, <3>1, HoldingIs, SameHolding
  <2>2. Accounts(e, grpcUsed, overlapped')
    BY <1>1, <1>3, GivesAway DEF PortsHeld
  <2>3. QED
    BY <2>1, <2>2 DEF PortsHeld, Accounts
<1>4. QED
  BY <1>2, <1>3

(***************************************************************************)
(* Lease objects, their processes and their two ports.                     *)
(***************************************************************************)
\* Who an object's holder can be.
LEMMA ObjectsAre ==
    /\ \A l : l \in Objects <=> l \in leases \/ l \in cleaning \/ \E c \in Callers : Holds(call[c]) /\ call[c].l = l
    /\ \A l : l \in Objects' <=> l \in leases' \/ l \in cleaning' \/ \E c \in Callers : Holds(call'[c]) /\ call'[c].l = l
BY DEF Objects, Making, At, Holds

\* An object was made.
LEMMA ObjectsMade == ASSUME LeaseTypeOK, Known PROVE Objects \subseteq 1..created /\ 1..created \subseteq Ids
<1>1. created \in Nat /\ created <= MaxLeases
  BY LeaseAssumption DEF LeaseTypeOK
<1>2. 1..created \subseteq Ids
  BY <1>1, LeaseAssumption DEF Ids
<1>3. \A c \in Callers : Holds(call[c]) => call[c].l \in 1..created
  BY DEF Known, Holds
<1>4. Objects \subseteq 1..created
  BY <1>3, ObjectsAre DEF Known
<1>5. QED
  BY <1>2, <1>4

\* One call changes.
LEMMA CallChanges ==
    ASSUME LeaseTypeOK, NEW c \in Callers, NEW r \in CallRec, call' = [call EXCEPT ![c] = r]
    PROVE  call' \in [Callers -> CallRec] /\ call'[c] = r /\ \A d \in Callers \ {c} : call'[d] = call[d]
BY DEF LeaseTypeOK, CallRec, Pcs

\* It keeps what it holds, ...
LEMMA HoldsOn ==
    ASSUME LeaseTypeOK, NEW c \in Callers, NEW r \in CallRec, call' = [call EXCEPT ![c] = r],
           UNCHANGED <<leases, cleaning>>,
           Holds(r) <=> Holds(call[c]), Holds(r) => r.l = call[c].l
    PROVE  Objects' = Objects
<1>1. call'[c] = r /\ \A d \in Callers \ {c} : call'[d] = call[d]
  BY CallChanges
<1>2. \A l : (\E d \in Callers : Holds(call'[d]) /\ call'[d].l = l) <=> (\E d \in Callers : Holds(call[d]) /\ call[d].l = l)
  BY <1>1
<1>3. \A l : l \in Objects' <=> l \in Objects
  BY <1>2, ObjectsAre
<1>4. QED
  BY <1>3

\* ... lets it go, ...
LEMMA LetsGo ==
    ASSUME LeaseTypeOK, OneHolder, NEW c \in Callers, NEW r \in CallRec, call' = [call EXCEPT ![c] = r],
           UNCHANGED <<leases, cleaning>>, Holds(call[c]), ~Holds(r)
    PROVE  Objects' = Objects \ {call[c].l}
<1>1. call'[c] = r /\ \A d \in Callers \ {c} : call'[d] = call[d]
  BY CallChanges
<1>2. \A d \in Callers \ {c} : Holds(call[d]) => call[d].l # call[c].l
  BY DEF OneHolder
<1>3. call[c].l \notin leases \cup cleaning
  BY DEF OneHolder
<1>4. \A l : (\E d \in Callers : Holds(call'[d]) /\ call'[d].l = l)
             <=> (\E d \in Callers \ {c} : Holds(call[d]) /\ call[d].l = l)
  BY <1>1
<1>5. \A l : (\E d \in Callers : Holds(call[d]) /\ call[d].l = l)
             <=> l = call[c].l \/ (\E d \in Callers \ {c} : Holds(call[d]) /\ call[d].l = l)
  OBVIOUS
<1>6. \A l : l \in Objects' <=> l \in Objects /\ l # call[c].l
  BY <1>2, <1>3, <1>4, <1>5, ObjectsAre
<1>7. QED
  BY <1>6

\* ... or takes hold of an object.
LEMMA TakesHold ==
    ASSUME LeaseTypeOK, NEW c \in Callers, NEW r \in CallRec, call' = [call EXCEPT ![c] = r],
           UNCHANGED <<leases, cleaning>>, ~Holds(call[c]), Holds(r)
    PROVE  Objects' = Objects \cup {r.l}
<1>1. call'[c] = r /\ \A d \in Callers \ {c} : call'[d] = call[d]
  BY CallChanges
<1>2. \A l : (\E d \in Callers : Holds(call'[d]) /\ call'[d].l = l)
             <=> l = r.l \/ (\E d \in Callers : Holds(call[d]) /\ call[d].l = l)
  BY <1>1
<1>3. \A l : l \in Objects' <=> l \in Objects \/ l = r.l
  BY <1>2, ObjectsAre
<1>4. QED
  BY <1>3

\* An object passes from a call into the table, ...
LEMMA EntersTable ==
    ASSUME LeaseTypeOK, NEW c \in Callers, NEW r \in CallRec, call' = [call EXCEPT ![c] = r],
           Holds(call[c]), ~Holds(r), leases' = leases \cup {call[c].l}, UNCHANGED cleaning
    PROVE  Objects' = Objects
<1>1. call'[c] = r /\ \A d \in Callers \ {c} : call'[d] = call[d]
  BY CallChanges
<1>2. \A l : (\E d \in Callers : Holds(call'[d]) /\ call'[d].l = l)
             <=> (\E d \in Callers \ {c} : Holds(call[d]) /\ call[d].l = l)
  BY <1>1
<1>3. \A l : (\E d \in Callers : Holds(call[d]) /\ call[d].l = l)
             <=> l = call[c].l \/ (\E d \in Callers \ {c} : Holds(call[d]) /\ call[d].l = l)
  OBVIOUS
<1>4. \A l : l \in Objects' <=> l \in Objects
  BY <1>2, <1>3, ObjectsAre
<1>5. QED
  BY <1>4

\* ... and from the table to a call.
LEMMA LeavesTable ==
    ASSUME LeaseTypeOK, NEW c \in Callers, NEW r \in CallRec, call' = [call EXCEPT ![c] = r],
           ~Holds(call[c]), Holds(r), r.l \in leases, leases' = leases \ {r.l}, UNCHANGED cleaning
    PROVE  Objects' = Objects
<1>1. call'[c] = r /\ \A d \in Callers \ {c} : call'[d] = call[d]
  BY CallChanges
<1>2. \A l : (\E d \in Callers : Holds(call'[d]) /\ call'[d].l = l)
             <=> l = r.l \/ (\E d \in Callers : Holds(call[d]) /\ call[d].l = l)
  BY <1>1
<1>3. \A l : l \in Objects' <=> l \in Objects
  BY <1>2, ObjectsAre
<1>4. QED
  BY <1>3

\* The two ports of each object stay what they are.
LEMMA MarksStay ==
    ASSUME PortsAccounted, Objects' = Objects, UNCHANGED <<agentUsed, ctrlUsed>>,
           \A l \in Objects : lease'[l].agentPort = lease[l].agentPort /\ lease'[l].ctrlPort = lease[l].ctrlPort
    PROVE  PortsAccounted'
<1>1. {lease'[l].agentPort : l \in Objects'} = {lease[l].agentPort : l \in Objects}
      /\ {lease'[l].ctrlPort : l \in Objects'} = {lease[l].ctrlPort : l \in Objects}
  OBVIOUS
<1>2. \A l, m \in Objects' : l # m => /\ lease'[l].ctrlPort # lease'[m].ctrlPort
                                      /\ lease'[l].agentPort # lease'[m].agentPort \/ lease'[l].agentPort = NoPort
  BY DEF PortsAccounted
<1>3. QED
  BY <1>1, <1>2 DEF PortsAccounted

\* An object is gone, and so are its marks.
LEMMA MarksGone ==
    ASSUME PortsAccounted, NEW k \in Objects, Objects' = Objects \ {k}, UNCHANGED lease,
           agentUsed' = agentUsed \ {lease[k].agentPort}, ctrlUsed' = ctrlUsed \ {lease[k].ctrlPort}
    PROVE  PortsAccounted'
<1>1. agentUsed' = {lease'[l].agentPort : l \in Objects'} \ {NoPort}
  BY DEF PortsAccounted
<1>2. ctrlUsed' = {lease'[l].ctrlPort : l \in Objects'}
  BY DEF PortsAccounted
<1>3. QED
  BY <1>1, <1>2 DEF PortsAccounted

\* An object is made with ports that nobody has.
LEMMA MarksNew ==
    ASSUME PortsAccounted, NEW k, k \notin Objects, Objects' = Objects \cup {k}, NEW p, NEW q,
           p = NoPort \/ p \notin agentUsed, q \notin ctrlUsed,
           agentUsed' = agentUsed \cup Marked(p), ctrlUsed' = ctrlUsed \cup {q},
           lease'[k].agentPort = p, lease'[k].ctrlPort = q,
           \A l \in Objects : lease'[l].agentPort = lease[l].agentPort /\ lease'[l].ctrlPort = lease[l].ctrlPort
    PROVE  PortsAccounted'
<1>1. {lease'[l].agentPort : l \in Objects'} = {lease[l].agentPort : l \in Objects} \cup {p}
      /\ {lease'[l].ctrlPort : l \in Objects'} = {lease[l].ctrlPort : l \in Objects} \cup {q}
  OBVIOUS
<1>2. agentUsed' = {lease'[l].agentPort : l \in Objects'} \ {NoPort}
      /\ ctrlUsed' = {lease'[l].ctrlPort : l \in Objects'}
  BY <1>1 DEF PortsAccounted, Marked
<1>3. \A l \in Objects : lease[l].ctrlPort # q /\ (lease[l].agentPort # p \/ p = NoPort)
  BY DEF PortsAccounted
<1>4. \A l, m \in Objects' : l # m => /\ lease'[l].ctrlPort # lease'[m].ctrlPort
                                      /\ lease'[l].agentPort # lease'[m].agentPort \/ lease'[l].agentPort = NoPort
  BY <1>3 DEF PortsAccounted
<1>5. QED
  BY <1>2, <1>4 DEF PortsAccounted

(***************************************************************************)
(* The other parts of the invariant.                                       *)
(***************************************************************************)
\* The table is finite.
LEMMA TableFinite == ASSUME LeaseTypeOK PROVE IsFiniteSet(leases)
<1>1. IsFiniteSet(1..MaxLeases)
  BY LeaseAssumption, FS_Interval
<1>2. leases \subseteq 1..MaxLeases
  BY DEF LeaseTypeOK, Ids
<1>3. QED
  BY <1>1, <1>2, FS_Subset

\* An owner does not get more leases when the table only shrinks.
LEMMA LimitStays ==
    ASSUME LeaseTypeOK, LimitKept, leases' \subseteq leases, \A l \in leases' : lease'[l].owner = lease[l].owner
    PROVE  LimitKept'
<1>1. ASSUME NEW o \in Owners PROVE Count(o)' <= MaxLeasesPerOwner
  <2> DEFINE A == {l \in leases : lease[l].owner = o}
             B == {l \in leases' : lease'[l].owner = o}
  <2>1. B \subseteq A /\ A \subseteq leases
    OBVIOUS
  <2>2. IsFiniteSet(A)
    BY <2>1, TableFinite, FS_Subset
  <2>3. Cardinality(B) <= Cardinality(A) /\ Cardinality(A) \in Nat /\ Cardinality(B) \in Nat
    BY <2>1, <2>2, FS_Subset, FS_CardinalityType
  <2>4. Cardinality(A) <= MaxLeasesPerOwner
    BY DEF LimitKept, Count
  <2> HIDE DEF A, B
  <2>5. Cardinality(B) <= MaxLeasesPerOwner
    BY <2>3, <2>4, LeaseAssumption
  <2>6. QED
    BY <2>5 DEF Count, B
<1>2. QED
  BY <1>1 DEF LimitKept

\* One more lease of an owner who has fewer than the limit.
LEMMA LimitEnters ==
    ASSUME LeaseTypeOK, LimitKept, NEW k, leases' = leases \cup {k}, UNCHANGED lease, ~OverLimit(lease[k].owner)
    PROVE  LimitKept'
<1>1. ASSUME NEW o \in Owners PROVE Count(o)' <= MaxLeasesPerOwner
  <2> DEFINE A == {l \in leases : lease[l].owner = o}
             B == {l \in leases' : lease'[l].owner = o}
  <2>1. IsFiniteSet(A)
    BY TableFinite, FS_Subset
  <2>2. CASE lease[k].owner = o
    <3>1. B = A \cup {k}
      BY <2>2
    <3>3. ~(Cardinality(A) >= MaxLeasesPerOwner)
      BY <2>2 DEF OverLimit, Count
    <3> HIDE DEF A, B
    <3>a. Cardinality(A \cup {k}) = IF k \in A THEN Cardinality(A) ELSE Cardinality(A) + 1
      BY <2>1, FS_AddElement
    <3>b. Cardinality(A) \in Nat
      BY <2>1, FS_CardinalityType
    <3>2. Cardinality(A) \in Nat /\ Cardinality(B) \in Nat /\ Cardinality(B) <= Cardinality(A) + 1
      BY <3>a, <3>b, <3>1
    <3>4. Cardinality(B) <= MaxLeasesPerOwner
      BY <3>2, <3>3, LeaseAssumption
    <3>5. QED
      BY <3>4 DEF Count, B
  <2>3. CASE lease[k].owner # o
    <3>1. B = A
      BY <2>3
    <3>2. Cardinality(A) <= MaxLeasesPerOwner
      BY DEF LimitKept, Count
    <3>3. QED
      BY <3>1, <3>2 DEF Count
  <2>4. QED
    BY <2>2, <2>3
<1>2. QED
  BY <1>1 DEF LimitKept

\* What a call must know wherever it goes.
Informed(r) ==
    /\ r.pc \notin {"idle", "allocate"} => r.l \in 1..created
    /\ HasSession(r) \/ r.pc \in {"stopping", "clear"} => r.s \in 1..started
    /\ r.pc = "clear" => Stopped(r.s)
    /\ Starts(r) => r.port # NoPort

\* A call that moves knows what it has to.
LEMMA KnownCall ==
    ASSUME LeaseTypeOK, Known, NEW c \in Callers, NEW r \in CallRec, Informed(r), call' = [call EXCEPT ![c] = r],
           UNCHANGED <<leases, lease, cleaning, created, started, cleaned, session>>
    PROVE  Known'
<1>1. call'[c] = r /\ \A d \in Callers \ {c} : call'[d] = call[d]
  BY CallChanges
<1>2. \A d \in Callers : call'[d].pc \notin {"idle", "allocate"} => call'[d].l \in 1..created
  BY <1>1 DEF Known, Informed
<1>3. \A d \in Callers : HasSession(call'[d]) \/ call'[d].pc \in {"stopping", "clear"} => call'[d].s \in 1..started
  BY <1>1 DEF Known, Informed
<1>4. \A d \in Callers : call'[d].pc = "clear" => Stopped(call'[d].s)
  BY <1>1 DEF Known, Informed
<1>5. \A s : Stopped(s)' <=> Stopped(s)
  BY DEF Stopped
<1>6. \A d \in Callers : Starts(call'[d]) => call'[d].port # NoPort
  BY <1>1 DEF Known, Informed
<1>7. QED
  BY <1>2, <1>3, <1>4, <1>5, <1>6 DEF Known

\* A call that takes hold of nothing new is no second holder.
LEMMA HolderCall ==
    ASSUME LeaseTypeOK, OneHolder, NEW c \in Callers, NEW r \in CallRec, call' = [call EXCEPT ![c] = r],
           UNCHANGED <<leases, cleaning>>, Holds(r) => Holds(call[c]) /\ r.l = call[c].l
    PROVE  OneHolder'
<1>1. call'[c] = r /\ \A d \in Callers \ {c} : call'[d] = call[d]
  BY CallChanges
<1>2. \A d \in Callers : Holds(call'[d]) => Holds(call[d]) /\ call'[d].l = call[d].l
  BY <1>1
<1>3. QED
  BY <1>2 DEF OneHolder

\* Nor does it start a session that another one started.
LEMMA SessionCall ==
    ASSUME LeaseTypeOK, OneLeasePerSession, NEW c \in Callers, NEW r \in CallRec, call' = [call EXCEPT ![c] = r],
           \A l \in Ids : lease'[l].session = lease[l].session,
           HasSession(r) => HasSession(call[c]) /\ r.s = call[c].s
    PROVE  OneLeasePerSession'
<1>1. call'[c] = r /\ \A d \in Callers \ {c} : call'[d] = call[d]
  BY CallChanges
<1>2. \A d \in Callers : HasSession(call'[d]) => HasSession(call[d]) /\ call'[d].s = call[d].s
  BY <1>1
<1>3. QED
  BY <1>2 DEF OneLeasePerSession

\* Nor does it get at an object that another one makes.
LEMMA MakerCall ==
    ASSUME LeaseTypeOK, OneHolder, Unshared, NEW c \in Callers, NEW r \in CallRec, call' = [call EXCEPT ![c] = r],
           UNCHANGED lease, Makes(r) => Makes(call[c]) /\ r.l = call[c].l,
           HasLease(r) => r.l \in leases \/ (HasLease(call[c]) /\ r.l = call[c].l)
    PROVE  Unshared'
<1>1. call'[c] = r /\ \A d \in Callers \ {c} : call'[d] = call[d]
  BY CallChanges
<1>2. \A d \in Callers : Makes(call'[d]) => Makes(call[d]) /\ call'[d].l = call[d].l
  BY <1>1
<1>3. \A d \in Callers : Makes(call[d]) => call[d].l \notin leases
  BY DEF OneHolder, Makes, Holds
<1>4. ASSUME NEW d \in Callers, Makes(call'[d]), NEW e \in Callers \ {d}, HasLease(call'[e])
      PROVE  call'[e].l # call'[d].l
  <2>1. CASE e = c
    BY <2>1, <1>1, <1>2, <1>3, <1>4 DEF Unshared
  <2>2. CASE e # c
    BY <2>2, <1>1, <1>2, <1>4 DEF Unshared
  <2>3. QED
    BY <2>1, <2>2
<1>5. QED
  BY <1>2, <1>4 DEF Unshared

\* A call has the port it had.
LEMMA PortCall ==
    ASSUME LeaseTypeOK, NEW c \in Callers, NEW r \in CallRec, call' = [call EXCEPT ![c] = r],
           HasPort(r) <=> HasPort(call[c]), HasPort(r) => r.port = call[c].port
    PROVE  \A d \in Callers : CallPort(d)' = CallPort(d)
<1>1. call'[c] = r /\ \A d \in Callers \ {c} : call'[d] = call[d]
  BY CallChanges
<1>2. QED
  BY <1>1 DEF CallPort

\* The leases that are held have the ports they had.
LEMMA PortLease ==
    ASSUME Objects' = Objects, UNCHANGED lease
    PROVE  \A l \in Ids : LeasePort(l)' = LeasePort(l)
BY DEF LeasePort

\* The session ports when only a call moves.
LEMMA OthersPorts ==
    ASSUME LeaseTypeOK, NEW c \in Callers, NEW r \in CallRec, call' = [call EXCEPT ![c] = r],
           UNCHANGED <<leases, lease, session, cleaning>>,
           Holds(r) <=> Holds(call[c]), Holds(r) => r.l = call[c].l
    PROVE  /\ CallPort(c)' = IF HasPort(r) THEN r.port ELSE NoPort
           /\ \A d \in Callers \ {c} : CallPort(d)' = CallPort(d)
           /\ \A s \in LeaseSessions : TaskPort(s)' = TaskPort(s)
           /\ \A l \in Ids : LeasePort(l)' = LeasePort(l)
<1>1. call'[c] = r /\ \A d \in Callers \ {c} : call'[d] = call[d]
  BY CallChanges
<1>2. CallPort(c)' = (IF HasPort(r) THEN r.port ELSE NoPort) /\ \A d \in Callers \ {c} : CallPort(d)' = CallPort(d)
  BY <1>1 DEF CallPort
<1>3. \A s \in LeaseSessions : TaskPort(s)' = TaskPort(s)
  BY DEF TaskPort
<1>4. \A l \in Ids : LeasePort(l)' = LeasePort(l)
  BY HoldsOn, PortLease
<1>5. QED
  BY <1>2, <1>3, <1>4

\* A step of a call that at most takes or gives back a session port.
LEMMA CallKeeps ==
    ASSUME LeaseInv, NEW c \in Callers, NEW r \in CallRec, Informed(r), call' = [call EXCEPT ![c] = r],
           UNCHANGED <<leases, lease, created, sticky, agentUsed, ctrlUsed, agent, session, started,
                       cleaning, cleaned, overlapped>>,
           Holds(r) <=> Holds(call[c]), Holds(r) => r.l = call[c].l,
           HasSession(r) => HasSession(call[c]) /\ r.s = call[c].s,
           Makes(r) => Makes(call[c]),
           HasLease(r) => r.l \in leases \/ (HasLease(call[c]) /\ r.l = call[c].l),
           grpcUsed' \subseteq GrpcPorts, PortsHeld'
    PROVE  LeaseInv'
<1>0. LeaseTypeOK /\ Known /\ OneHolder /\ LimitKept /\ PortsAccounted /\ NoStrayAgent
      /\ Unshared /\ OneLeasePerSession /\ PortsHeld
  BY DEF LeaseInv
<1>1. call' \in [Callers -> CallRec]
  BY <1>0, CallChanges
<1>2. LeaseTypeOK'
  BY <1>0, <1>1 DEF LeaseTypeOK, CallRec, Pcs
<1>3. Objects' = Objects
  BY <1>0, HoldsOn
<1>4. Known'
  BY <1>0, KnownCall
<1>5. OneHolder'
  BY <1>0, HolderCall
<1>6. LimitKept'
  BY <1>0, LimitStays
<1>7. PortsAccounted'
  BY <1>0, <1>3, MarksStay
<1>8. NoStrayAgent'
  BY <1>0, <1>3 DEF NoStrayAgent
<1>9. OneLeasePerSession'
  BY <1>0, SessionCall
<1>10. Unshared'
  <2>1. Makes(r) => r.l = call[c].l
    BY DEF Makes, Holds
  <2>2. QED
    BY <1>0, <2>1, MakerCall
<1>11. QED
  BY <1>2, <1>4, <1>5, <1>6, <1>7, <1>8, <1>9, <1>10 DEF LeaseInv

\* A step of a call that only decides where it goes on.
LEMMA OnlyCall ==
    ASSUME LeaseInv, NEW c \in Callers, NEW r \in CallRec, Informed(r), call' = [call EXCEPT ![c] = r],
           UNCHANGED <<leases, lease, created, sticky, agentUsed, ctrlUsed, grpcUsed, agent, session, started,
                       cleaning, cleaned, overlapped>>,
           Holds(r) <=> Holds(call[c]), Holds(r) => r.l = call[c].l,
           HasPort(r) <=> HasPort(call[c]), HasPort(r) => r.port = call[c].port,
           HasSession(r) => HasSession(call[c]) /\ r.s = call[c].s,
           Makes(r) => Makes(call[c]),
           HasLease(r) => r.l \in leases \/ (HasLease(call[c]) /\ r.l = call[c].l)
    PROVE  LeaseInv'
<1>1. LeaseTypeOK /\ PortsHeld
  BY DEF LeaseInv
<1>2. CallPort(c)' = CallPort(c)
  BY <1>1, OthersPorts DEF CallPort
<1>3. PortsHeld'
  BY <1>1, <1>2, OthersPorts, PortsStay
<1>4. grpcUsed' \subseteq GrpcPorts
  BY <1>1 DEF LeaseTypeOK
<1>5. QED
  BY <1>3, <1>4, CallKeeps

\* A call that returns.
LEMMA IdleIs ==
    /\ LeaseIdle \in CallRec /\ LeaseIdle.pc = "idle" /\ ~Holds(LeaseIdle) /\ ~HasPort(LeaseIdle)
    /\ ~HasSession(LeaseIdle) /\ ~Makes(LeaseIdle) /\ ~HasLease(LeaseIdle) /\ Informed(LeaseIdle)
<1>1. NoLease.owner \in Owners
  BY LeaseAssumption DEF NoLease
<1>2. LeaseIdle \in CallRec /\ LeaseIdle.pc = "idle"
  BY <1>1, LeaseAssumption DEF LeaseIdle, CallRec, Pcs
<1>3. QED
  BY <1>2 DEF Holds, HasPort, HasSession, Makes, HasLease, Starts, Informed

\* A step of a call that gives its session port back and returns.
LEMMA GiveBackStep ==
    ASSUME LeaseInv, NEW c \in Callers, LeaseReturns(c), HasPort(call[c]), grpcUsed' = grpcUsed \ {call[c].port},
           UNCHANGED <<leases, lease, created, sticky, agentUsed, ctrlUsed, agent, session, started,
                       cleaning, cleaned, overlapped>>
    PROVE  LeaseInv'
<1>1. LeaseTypeOK /\ PortsHeld
  BY DEF LeaseInv
<1>2. call' = [call EXCEPT ![c] = LeaseIdle]
  BY DEF LeaseReturns
<1>3. ~Holds(call[c]) /\ ~Holds(LeaseIdle)
  BY IdleIs DEF Holds, HasPort
<1>4. CallPort(c) = call[c].port /\ CallPort(c)' = NoPort
  <2>1. CallPort(c)' = IF HasPort(LeaseIdle) THEN LeaseIdle.port ELSE NoPort
    BY <1>1, <1>2, <1>3, IdleIs, OthersPorts
  <2>2. QED
    BY <2>1, IdleIs DEF CallPort
<1>5. PortsHeld'
  <2>1. \A d \in Callers \ {c} : CallPort(d)' = CallPort(d)
    BY <1>1, <1>2, <1>3, IdleIs, OthersPorts
  <2>2. \A s \in LeaseSessions : TaskPort(s)' = TaskPort(s)
    BY DEF TaskPort
  <2>3. \A l \in Ids : LeasePort(l)' = LeasePort(l)
    BY <1>1, <1>2, <1>3, IdleIs, OthersPorts
  <2>4. QED
    BY <1>1, <1>4, <2>1, <2>2, <2>3, CallGives
<1>6. grpcUsed' \subseteq GrpcPorts
  BY <1>1 DEF LeaseTypeOK
<1>7. QED
  BY <1>2, <1>3, <1>5, <1>6, IdleIs, CallKeeps

\* A call that goes on keeps everything but its place.
LEMMA GoesIs ==
    ASSUME NEW r \in CallRec, NEW a \in Pcs
    PROVE  /\ [r EXCEPT !.pc = a] \in CallRec /\ [r EXCEPT !.pc = a].pc = a
           /\ [r EXCEPT !.pc = a].l = r.l /\ [r EXCEPT !.pc = a].port = r.port /\ [r EXCEPT !.pc = a].s = r.s
           /\ [r EXCEPT !.pc = a].owner = r.owner /\ [r EXCEPT !.pc = a].op = r.op
BY DEF CallRec

\* A call with nothing in hand returns.
LEMMA ReturnStep ==
    ASSUME LeaseInv, NEW c \in Callers, LeaseReturns(c), ~Holds(call[c]), ~HasPort(call[c]),
           UNCHANGED <<leases, lease, created, sticky, agentUsed, ctrlUsed, grpcUsed, agent, session, started,
                       cleaning, cleaned, overlapped>>
    PROVE  LeaseInv'
<1>1. call' = [call EXCEPT ![c] = LeaseIdle]
  BY DEF LeaseReturns
<1>2. QED
  BY <1>1, IdleIs, OnlyCall

\* A call goes on to a place that asks no more of it than the one it is in.
LEMMA GoStep ==
    ASSUME LeaseInv, NEW c \in Callers, NEW a \in Pcs, Goes(c, a), call[c].pc \notin {"idle", "allocate"},
           UNCHANGED <<leases, lease, created, sticky, agentUsed, ctrlUsed, grpcUsed, agent, session, started,
                       cleaning, cleaned, overlapped>>,
           \/ call[c].pc \in {"find", "found", "stopping"} /\ a \in {"found", "reclaim"}
           \/ call[c].pc = "stopping" /\ a = "clear" /\ Stopped(call[c].s)
           \/ call[c].pc \in {"wait", "undo", "assign"} /\ a \in {"wait", "undo", "assign"}
           \/ call[c].pc = "insert" /\ a = "reject"
    PROVE  LeaseInv'
<1> DEFINE r == [call[c] EXCEPT !.pc = a]
<1>1. call' = [call EXCEPT ![c] = r]
  BY DEF Goes
<1>2. call[c] \in CallRec
  BY DEF LeaseInv, LeaseTypeOK, CallRec, Pcs
<1>3. /\ r \in CallRec /\ r.pc = a /\ r.l = call[c].l /\ r.port = call[c].port /\ r.s = call[c].s
  BY <1>2, GoesIs
<1> HIDE DEF r
<1>4. /\ call[c].l \in 1..created
      /\ HasSession(call[c]) \/ call[c].pc \in {"stopping", "clear"} => call[c].s \in 1..started
      /\ Starts(call[c]) => call[c].port # NoPort
  BY DEF LeaseInv, Known
<1>5. Informed(r)
  BY <1>3, <1>4 DEF Informed, HasSession, Starts
<1>6. /\ Holds(r) <=> Holds(call[c])
      /\ HasPort(r) <=> HasPort(call[c])
      /\ HasSession(r) => HasSession(call[c])
      /\ Makes(r) => Makes(call[c])
      /\ HasLease(call[c])
  BY <1>3 DEF Holds, HasPort, HasSession, Makes, HasLease
<1>7. QED
  BY <1>1, <1>3, <1>5, <1>6, OnlyCall

(***************************************************************************)
(* CreateProxyLease                                                        *)
(***************************************************************************)
\* CreateBegins: the call has an owner and nothing else.
LEMMA CreateBeginsStep == ASSUME LeaseInv, NEW c \in Callers, NEW o \in Owners, CreateBegins(c, o) PROVE LeaseInv'
<1> DEFINE r == [call[c] EXCEPT !.pc = "allocate", !.owner = o]
<1>1. /\ call' = [call EXCEPT ![c] = r] /\ call[c].pc = "idle"
      /\ UNCHANGED <<leases, lease, created, sticky, agentUsed, ctrlUsed, grpcUsed, agent, session, started,
                     cleaning, cleaned, overlapped>>
  BY DEF CreateBegins, At, LeaseInv, LeaseTypeOK, table, ports, tasks, rest
<1>2. call[c] \in CallRec
  BY DEF LeaseInv, LeaseTypeOK, CallRec, Pcs
<1>3. r \in CallRec /\ r.pc = "allocate"
  BY <1>2 DEF CallRec, Pcs
<1> HIDE DEF r
<1>4. /\ ~Holds(r) /\ ~HasPort(r) /\ ~HasSession(r) /\ ~Makes(r) /\ ~HasLease(r)
      /\ Informed(r) /\ ~Holds(call[c]) /\ ~HasPort(call[c])
  BY <1>1, <1>3 DEF Holds, HasPort, HasSession, Makes, HasLease, Starts, Informed
<1>5. QED
  BY <1>1, <1>3, <1>4, OnlyCall

\* CreateSpawns: the process belongs to an object in the call's hands.
LEMMA CreateSpawnsStep == ASSUME LeaseInv, NEW c \in Callers, CreateSpawns(c) PROVE LeaseInv'
<1> DEFINE r == [call[c] EXCEPT !.pc = "insert"]
<1>0. LeaseTypeOK /\ Known /\ OneHolder /\ LimitKept /\ PortsAccounted /\ NoStrayAgent
      /\ Unshared /\ OneLeasePerSession /\ PortsHeld
  BY DEF LeaseInv
<1>1. /\ call' = [call EXCEPT ![c] = r] /\ call[c].pc = "spawn" /\ agent' = [agent EXCEPT ![call[c].l] = "up"]
      /\ UNCHANGED <<leases, lease, created, sticky, agentUsed, ctrlUsed, grpcUsed, session, started,
                     cleaning, cleaned, overlapped>>
  BY DEF CreateSpawns, Goes, At, table, ports, tasks, rest
<1>2. call[c] \in CallRec
  BY <1>0 DEF LeaseTypeOK, CallRec, Pcs
<1>3. r \in CallRec /\ r.pc = "insert" /\ r.l = call[c].l
  BY ZenonT(30), <1>2, GoesIs DEF Pcs
<1> HIDE DEF r
<1>4. call[c].l \in 1..created
  BY <1>0, <1>1 DEF Known
<1>5. /\ Holds(r) /\ Holds(call[c]) /\ ~HasPort(r) /\ ~HasPort(call[c]) /\ ~HasSession(r) /\ Informed(r)
      /\ Makes(r) /\ Makes(call[c]) /\ HasLease(r) /\ HasLease(call[c])
  BY <1>1, <1>3, <1>4 DEF Holds, HasPort, HasSession, Makes, HasLease, Starts, Informed
<1>6. Objects' = Objects /\ call[c].l \in Objects
  BY <1>0, <1>1, <1>3, <1>5, HoldsOn, ObjectsAre
<1>7. agent' \in [Ids -> {"none", "up", "down"}] /\ \A l \in Ids : agent'[l] = "up" => agent[l] = "up" \/ l = call[c].l
  BY <1>0, <1>1 DEF LeaseTypeOK
<1>8. LeaseTypeOK'
  <2>1. call' \in [Callers -> CallRec]
    BY <1>0, <1>1, <1>3, CallChanges
  <2>2. QED
    BY <1>0, <1>1, <1>7, <2>1 DEF LeaseTypeOK, CallRec, Pcs
<1>9. Known' /\ OneHolder' /\ OneLeasePerSession' /\ Unshared'
  BY <1>0, <1>1, <1>3, <1>5, KnownCall, HolderCall, SessionCall, MakerCall
<1>10. LimitKept' /\ PortsAccounted'
  BY <1>0, <1>1, <1>6, LimitStays, MarksStay
<1>11. NoStrayAgent'
  BY <1>0, <1>6, <1>7 DEF NoStrayAgent
<1>12. PortsHeld'
  <2>1. \A d \in Callers : CallPort(d)' = CallPort(d)
    BY <1>0, <1>1, <1>3, <1>5, PortCall
  <2>2. \A l \in Ids : LeasePort(l)' = LeasePort(l)
    BY <1>1, <1>6, PortLease
  <2>3. \A s \in LeaseSessions : TaskPort(s)' = TaskPort(s)
    BY <1>1 DEF TaskPort
  <2>4. QED
    BY <1>0, <1>1, <2>1, <2>2, <2>3, PortsStay
<1>13. QED
  BY <1>8, <1>9, <1>10, <1>11, <1>12 DEF LeaseInv

\* CreateAllocates: an object with ports that were free, and no session yet.
LEMMA CreateAllocatesStep ==
    ASSUME LeaseInv, NEW c \in Callers, NEW noSticky \in BOOLEAN, CreateAllocates(c, noSticky) PROVE LeaseInv'
<1> DEFINE k == created + 1
           r == [call[c] EXCEPT !.pc = "spawn", !.l = k]
<1>0. LeaseTypeOK /\ Known /\ OneHolder /\ LimitKept /\ PortsAccounted /\ NoStrayAgent
      /\ Unshared /\ OneLeasePerSession /\ PortsHeld
  BY DEF LeaseInv
<1>1. /\ call[c].pc = "allocate" /\ k \in Ids /\ created' = k
      /\ call' = [call EXCEPT ![c] = r]
      /\ UNCHANGED <<leases, sticky, grpcUsed, agent, session, started, cleaning, cleaned, overlapped>>
  BY <1>0 DEF CreateAllocates, At, LeaseTypeOK, tasks, rest
<1>2. PICK p \in allocateAgentPortLocked(call[c].owner, noSticky), q \in CtrlPorts \ ctrlUsed :
         /\ agentUsed' = agentUsed \cup Marked(p) /\ ctrlUsed' = ctrlUsed \cup {q}
         /\ lease' = [lease EXCEPT ![k] = [NoLease EXCEPT !.owner = call[c].owner, !.agentPort = p, !.ctrlPort = q]]
  BY DEF CreateAllocates
<1> DEFINE n == [NoLease EXCEPT !.owner = call[c].owner, !.agentPort = p, !.ctrlPort = q]
<1>3. p \in AgentPorts \cup {NoPort} /\ (p = NoPort \/ p \notin agentUsed) /\ q \in CtrlPorts
  BY <1>2 DEF allocateAgentPortLocked
<1>4. call[c] \in CallRec
  BY <1>0 DEF LeaseTypeOK, CallRec, Pcs
<1>5. created \in Nat /\ k \in Nat /\ k = created + 1 /\ k \in 0..MaxLeases /\ k <= MaxLeases
  BY <1>0, <1>1, LeaseAssumption DEF LeaseTypeOK, Ids
<1>6. r \in CallRec /\ r.pc = "spawn" /\ r.l = k
  BY <1>4, <1>5 DEF CallRec, Pcs
<1>7. n \in LeaseRec /\ n.agentPort = p /\ n.ctrlPort = q /\ n.grpcPort = NoPort /\ n.session = 0
  <2>1. NoLease \in LeaseRec /\ NoLease.grpcPort = NoPort /\ NoLease.session = 0
    BY LeaseAssumption DEF NoLease, LeaseRec
  <2>2. PICK m \in LeaseRec : m = NoLease
    BY <2>1
  <2>3. PICK o \in Owners : o = call[c].owner
    BY <1>4 DEF CallRec
  <2> DEFINE e == [m EXCEPT !.owner = o, !.agentPort = p, !.ctrlPort = q]
  <2>4. e \in LeaseRec /\ e.agentPort = p /\ e.ctrlPort = q /\ e.grpcPort = m.grpcPort /\ e.session = m.session
    BY <1>3 DEF LeaseRec
  <2>5. n = e
    BY <2>2, <2>3
  <2> HIDE DEF n, e
  <2>6. QED
    BY <2>1, <2>2, <2>4, <2>5
<1>8. lease' = [lease EXCEPT ![k] = n]
  BY <1>2
<1> HIDE DEF n, r, k
<1>9. lease \in [Ids -> LeaseRec] /\ lease' \in [Ids -> LeaseRec] /\ lease'[k] = n /\ \A l \in Ids \ {k} : lease'[l] = lease[l]
  BY <1>0, <1>1, <1>7, <1>8 DEF LeaseTypeOK, LeaseRec
<1>10. k \notin 1..created /\ 1..created \subseteq 1..created' /\ k \in 1..created' /\ created' \in 0..MaxLeases
  BY <1>1, <1>5
<1>11. Objects \subseteq 1..created /\ k \notin Objects /\ Objects \subseteq Ids
  BY <1>0, <1>10, ObjectsMade
<1>12. Holds(r) /\ ~Holds(call[c]) /\ ~HasPort(r) /\ ~HasPort(call[c]) /\ ~HasSession(r) /\ ~HasSession(call[c])
  BY <1>1, <1>6 DEF Holds, HasPort, HasSession
<1>13. call' \in [Callers -> CallRec] /\ call'[c] = r /\ \A d \in Callers \ {c} : call'[d] = call[d]
  BY <1>0, <1>1, <1>6, CallChanges
<1>14. Objects' = Objects \cup {k}
  BY <1>0, <1>1, <1>6, <1>12, TakesHold
<1>15. LeaseTypeOK'
  <2>1. agentUsed' \subseteq AgentPorts /\ ctrlUsed' \subseteq CtrlPorts
    BY <1>0, <1>2, <1>3 DEF LeaseTypeOK, Marked
  <2>2. QED
    BY <1>0, <1>1, <1>9, <1>10, <1>13, <2>1 DEF LeaseTypeOK, LeaseRec, CallRec, Pcs
<1>16. Known'
  <2>1. \A d \in Callers : call'[d].pc \notin {"idle", "allocate"} => call'[d].l \in 1..created'
    BY <1>0, <1>6, <1>10, <1>13 DEF Known
  <2>2. \A d \in Callers : HasSession(call'[d]) \/ call'[d].pc \in {"stopping", "clear"} => call'[d].s \in 1..started'
    BY <1>0, <1>1, <1>6, <1>12, <1>13 DEF Known
  <2>3. \A d \in Callers : call'[d].pc = "clear" => Stopped(call[d].s)'
    BY <1>0, <1>1, <1>6, <1>13 DEF Known, Stopped
  <2>7. \A d \in Callers : Starts(call'[d]) => call'[d].port # NoPort
    BY <1>0, <1>6, <1>13 DEF Known, Starts
  <2>4. leases' \cup cleaning' \subseteq 1..created'
    BY <1>0, <1>1, <1>10 DEF Known
  <2>5. \A l \in Ids : lease'[l].session <= started' /\ (l > created' => lease'[l].session = 0)
    <3>1. started \in Nat
      BY <1>0 DEF LeaseTypeOK
    <3>2. \A l \in Ids : l \in Nat
      BY DEF Ids
    <3>3. lease'[k].session = 0
      BY <1>7, <1>9
    <3>4. \A l \in Ids \ {k} : lease'[l].session = lease[l].session
      BY <1>9
    <3>5. \A l \in Ids \ {k} : l > k => l > created
      BY <1>5, <3>2
    <3>6. \A l \in Ids : lease[l].session <= started /\ (l > created => lease[l].session = 0)
      BY <1>0 DEF Known
    <3>7. QED
      BY <1>1, <3>1, <3>3, <3>4, <3>5, <3>6
  <2>6. QED
    BY <1>0, <1>1, <2>1, <2>2, <2>3, <2>4, <2>5, <2>7 DEF Known, HasLease
<1>17. OneHolder'
  <2>1. \A d \in Callers \ {c} : Holds(call[d]) => call[d].l # k
    BY <1>11, ObjectsAre
  <2>2. k \notin leases \cup cleaning
    BY <1>11, ObjectsAre
  <2>3. QED
    BY <1>0, <1>1, <1>6, <1>13, <2>1, <2>2 DEF OneHolder
<1>18. LimitKept'
  <2>1. \A l \in leases : lease'[l] = lease[l]
    BY <1>9, <1>11, ObjectsAre
  <2>2. QED
    BY <1>0, <1>1, <2>1, LimitStays
<1>19. PortsAccounted'
  <2>1. \A l \in Objects : lease'[l] = lease[l]
    BY <1>9, <1>11
  <2>2. QED
    BY <1>0, <1>2, <1>3, <1>7, <1>9, <1>11, <1>14, <2>1, MarksNew
<1>20. NoStrayAgent'
  BY <1>0, <1>1, <1>14 DEF NoStrayAgent
<1>21. OneLeasePerSession'
  <2>1. \A l \in Ids : lease'[l].session = lease[l].session
    <3>1. lease[k].session = 0
      BY <1>0, <1>1, <1>5 DEF Known
    <3>2. QED
      BY <3>1, <1>7, <1>9
  <2>2. QED
    BY <1>0, <1>1, <1>6, <1>12, <2>1, SessionCall
<1>22. PortsHeld'
  <2>1. \A d \in Callers : CallPort(d)' = CallPort(d)
    BY <1>0, <1>1, <1>6, <1>12, PortCall
  <2>2. \A l \in Ids : LeasePort(l)' = LeasePort(l)
    BY <1>7, <1>9, <1>11, <1>14 DEF LeasePort
  <2>3. \A s \in LeaseSessions : TaskPort(s)' = TaskPort(s)
    BY <1>1 DEF TaskPort
  <2>4. QED
    BY <1>0, <1>1, <2>1, <2>2, <2>3, PortsStay
<1>23. Unshared'
  <2>1. \A d \in Callers \ {c} : HasLease(call[d]) => call[d].l # k
    BY <1>0, <1>10 DEF Known, HasLease
  <2>2. \A d \in Callers \ {c} : Makes(call[d]) => HasLease(call[d]) /\ call[d].l \in Ids
    BY <1>0, <1>11, ObjectsMade DEF Known, HasLease, Makes
  <2>3. ASSUME NEW d \in Callers, Makes(call'[d])
        PROVE  /\ lease'[call'[d].l].grpcPort = NoPort
               /\ \A e \in Callers \ {d} : HasLease(call'[e]) => call'[e].l # call'[d].l
    <3>1. CASE d = c
      BY <3>1, <2>1, <1>6, <1>7, <1>9, <1>13
    <3>2. CASE d # c
      <4>1. call'[d] = call[d] /\ Makes(call[d]) /\ call[d].l \in Ids \ {k}
        BY <3>2, <2>1, <2>2, <2>3, <1>13
      <4>2. lease'[call'[d].l].grpcPort = NoPort
        BY <4>1, <1>0, <1>9 DEF Unshared
      <4>3. \A e \in Callers \ {d} : HasLease(call'[e]) => call'[e].l # call'[d].l
        BY <4>1, <1>0, <1>6, <1>13 DEF Unshared
      <4>4. QED
        BY <4>2, <4>3
    <3>3. QED
      BY <3>1, <3>2
  <2>4. QED
    BY <2>3 DEF Unshared
<1>24. QED
  BY <1>15, <1>16, <1>17, <1>18, <1>19, <1>20, <1>21, <1>22, <1>23 DEF LeaseInv

\* CreateExhausted: nothing was marked.
LEMMA CreateExhaustedStep == ASSUME LeaseInv, NEW c \in Callers, CreateExhausted(c) PROVE LeaseInv'
<1>1. /\ LeaseReturns(c) /\ call[c].pc = "allocate"
      /\ UNCHANGED <<leases, lease, created, sticky, agentUsed, ctrlUsed, grpcUsed, agent, session, started,
                     cleaning, cleaned, overlapped>>
  BY DEF CreateExhausted, At, table, ports, tasks, rest
<1>2. ~Holds(call[c]) /\ ~HasPort(call[c])
  BY <1>1 DEF Holds, HasPort
<1>3. QED
  BY <1>1, <1>2, ReturnStep

\* A call takes an object down: it is gone, with its process and its two ports.
LEMMA TakenDown ==
    ASSUME LeaseInv, NEW c \in Callers, Undo(call[c].l), LeaseReturns(c), Holds(call[c]),
           UNCHANGED <<leases, lease, created, sticky, session, started, cleaning, cleaned, overlapped>>,
           grpcUsed' \subseteq GrpcPorts
    PROVE  /\ Objects' = Objects \ {call[c].l} /\ call[c].l \in Objects
           /\ \A d \in Callers : CallPort(d)' = CallPort(d)
           /\ PortsHeld' => LeaseInv'
<1> DEFINE k == call[c].l
<1>0. LeaseTypeOK /\ Known /\ OneHolder /\ LimitKept /\ PortsAccounted /\ NoStrayAgent
      /\ Unshared /\ OneLeasePerSession /\ PortsHeld
  BY DEF LeaseInv
<1>1. call' = [call EXCEPT ![c] = LeaseIdle]
  BY DEF LeaseReturns
<1>2. /\ agentUsed' = agentUsed \ {lease[k].agentPort} /\ ctrlUsed' = ctrlUsed \ {lease[k].ctrlPort}
      /\ agent' = [agent EXCEPT ![k] = "down"]
  BY DEF Undo
<1>3. k \in Objects /\ k \in Ids
  BY <1>0, ObjectsAre, ObjectsMade
<1>4. Objects' = Objects \ {k}
  BY <1>0, <1>1, IdleIs, LetsGo
<1>5. agent' \in [Ids -> {"none", "up", "down"}] /\ \A l \in Ids : agent'[l] = "up" => agent[l] = "up" /\ l # k
  BY <1>0, <1>2, <1>3 DEF LeaseTypeOK
<1>6. \A d \in Callers : CallPort(d)' = CallPort(d)
  <2>1. ~HasPort(call[c])
    BY DEF Holds, HasPort
  <2>2. QED
    BY <1>0, <1>1, <2>1, IdleIs, PortCall
<1>7. LeaseTypeOK'
  <2>1. call' \in [Callers -> CallRec]
    BY <1>0, <1>1, IdleIs, CallChanges
  <2>2. agentUsed' \subseteq AgentPorts /\ ctrlUsed' \subseteq CtrlPorts
    BY <1>0, <1>2 DEF LeaseTypeOK
  <2>3. QED
    BY <1>0, <1>5, <2>1, <2>2 DEF LeaseTypeOK, CallRec, Pcs
<1>8. Known' /\ OneHolder' /\ OneLeasePerSession' /\ Unshared'
  BY <1>0, <1>1, IdleIs, KnownCall, HolderCall, SessionCall, MakerCall
<1>9. LimitKept'
  BY <1>0, LimitStays
<1>10. PortsAccounted'
  BY <1>0, <1>2, <1>3, <1>4, MarksGone
<1>11. NoStrayAgent'
  BY <1>0, <1>4, <1>5 DEF NoStrayAgent
<1>12. QED
  BY <1>3, <1>4, <1>6, <1>7, <1>8, <1>9, <1>10, <1>11 DEF LeaseInv

\* CreateFails: nobody has given the object a session port.
LEMMA CreateFailsStep == ASSUME LeaseInv, NEW c \in Callers, CreateFails(c) PROVE LeaseInv'
<1> DEFINE k == call[c].l
<1>1. /\ Undo(k) /\ LeaseReturns(c) /\ call[c].pc \in {"spawn", "insert", "reject"}
      /\ UNCHANGED <<leases, lease, created, sticky, grpcUsed, session, started, cleaning, cleaned, overlapped>>
  BY DEF CreateFails, table, tasks, rest
<1>2. Holds(call[c]) /\ Makes(call[c])
  BY <1>1 DEF Holds, Makes
<1>3. LeaseTypeOK /\ PortsHeld /\ lease[k].grpcPort = NoPort
  BY <1>2 DEF LeaseInv, Unshared
<1>4. grpcUsed' \subseteq GrpcPorts
  BY <1>1, <1>3 DEF LeaseTypeOK
<1>5. /\ Objects' = Objects \ {k} /\ k \in Objects
      /\ \A d \in Callers : CallPort(d)' = CallPort(d)
      /\ PortsHeld' => LeaseInv'
  BY <1>1, <1>2, <1>4, TakenDown
<1>6. \A l \in Ids : LeasePort(l)' = LeasePort(l)
  BY <1>1, <1>3, <1>5 DEF LeasePort
<1>7. \A s \in LeaseSessions : TaskPort(s)' = TaskPort(s)
  BY <1>1 DEF TaskPort
<1>8. PortsHeld'
  BY <1>1, <1>3, <1>5, <1>6, <1>7, PortsStay
<1>9. QED
  BY <1>5, <1>8

\* ReclaimFrees: the object goes with all its ports.
LEMMA ReclaimFreesStep == ASSUME LeaseInv, NEW c \in Callers, ReclaimFrees(c) PROVE LeaseInv'
<1>1. /\ Undo(call[c].l) /\ grpcUsed' = grpcUsed \ {lease[call[c].l].grpcPort}
      /\ LeaseReturns(c) /\ call[c].pc = "reclaimed"
      /\ UNCHANGED <<leases, lease, created, sticky, session, started, cleaning, cleaned, overlapped>>
  BY DEF ReclaimFrees, Frees, At, table, tasks, rest
<1>2. Holds(call[c])
  BY <1>1 DEF Holds
<1>3. LeaseTypeOK /\ PortsHeld /\ Known
  BY DEF LeaseInv
<1>4. grpcUsed' \subseteq GrpcPorts
  BY <1>1, <1>3 DEF LeaseTypeOK
<1>5. /\ Objects' = Objects \ {call[c].l} /\ call[c].l \in Objects
      /\ \A d \in Callers : CallPort(d)' = CallPort(d)
      /\ PortsHeld' => LeaseInv'
  BY <1>1, <1>2, <1>4, TakenDown
<1>6. PICK k \in Ids : k = call[c].l
  BY <1>3, <1>5, ObjectsMade
<1>7. /\ LeasePort(k) = lease[k].grpcPort /\ LeasePort(k)' = NoPort
      /\ \A l \in Ids \ {k} : LeasePort(l)' = LeasePort(l)
  BY <1>1, <1>5, <1>6 DEF LeasePort
<1>8. \A s \in LeaseSessions : TaskPort(s)' = TaskPort(s)
  BY <1>1 DEF TaskPort
<1>9. PortsHeld'
  BY <1>1, <1>3, <1>5, <1>6, <1>7, <1>8, LeaseGives
<1>10. QED
  BY <1>5, <1>9

\* CreateInserts: the object goes from the call into the table, if the limit allows it.
LEMMA CreateInsertsStep == ASSUME LeaseInv, NEW c \in Callers, NEW auto \in BOOLEAN, CreateInserts(c, auto) PROVE LeaseInv'
<1> DEFINE k == call[c].l
           o == lease[k].owner
           r == IF auto THEN [call[c] EXCEPT !.pc = "find", !.op = "start"] ELSE LeaseIdle
<1>0. LeaseTypeOK /\ Known /\ OneHolder /\ LimitKept /\ PortsAccounted /\ NoStrayAgent
      /\ Unshared /\ OneLeasePerSession /\ PortsHeld
  BY DEF LeaseInv
<1>1. /\ call[c].pc = "insert"
      /\ UNCHANGED <<lease, created, agentUsed, ctrlUsed, grpcUsed, agent, session, started, cleaning, cleaned, overlapped>>
  BY DEF CreateInserts, At, ports, tasks, rest
<1>2. CASE OverLimit(o)
  <2>1. Goes(c, "reject") /\ UNCHANGED <<leases, sticky>>
    BY <1>2 DEF CreateInserts
  <2>2. QED
    BY <1>1, <2>1, GoStep DEF Pcs
<1>3. CASE ~OverLimit(o)
  <2>1. /\ leases' = leases \cup {k} /\ sticky' = [sticky EXCEPT ![o] = lease[k].agentPort]
        /\ call' = [call EXCEPT ![c] = r]
    BY <1>3 DEF CreateInserts
  <2>2. call[c] \in CallRec
    BY <1>0 DEF LeaseTypeOK, CallRec, Pcs
  <2>3. r \in CallRec /\ ((r.pc = "find" /\ r.l = k) \/ (r = LeaseIdle /\ r.pc = "idle"))
    <3>1. [call[c] EXCEPT !.pc = "find", !.op = "start"] \in CallRec
          /\ [call[c] EXCEPT !.pc = "find", !.op = "start"].pc = "find"
          /\ [call[c] EXCEPT !.pc = "find", !.op = "start"].l = k
      BY <2>2 DEF CallRec, Pcs
    <3>2. QED
      BY <3>1, IdleIs
  <2> HIDE DEF r
  <2>4. k \in 1..created /\ k \in Ids
    BY <1>0, <1>1, ObjectsMade DEF Known
  <2>5. /\ ~Holds(r) /\ ~HasPort(r) /\ ~HasSession(r) /\ ~Makes(r) /\ Informed(r)
        /\ HasLease(r) => r.l = k
        /\ Holds(call[c]) /\ ~HasPort(call[c]) /\ Makes(call[c]) /\ HasLease(call[c])
    BY <1>1, <2>3, <2>4 DEF Holds, HasPort, HasSession, Makes, HasLease, Starts, Informed
  <2>6. Objects' = Objects
    BY <1>0, <1>1, <2>1, <2>3, <2>5, EntersTable
  <2>7. call' \in [Callers -> CallRec] /\ call'[c] = r /\ \A d \in Callers \ {c} : call'[d] = call[d]
    BY <1>0, <2>1, <2>3, CallChanges
  <2>8. LeaseTypeOK'
    <3>1. lease[k] \in LeaseRec
      BY <1>0, <2>4 DEF LeaseTypeOK, LeaseRec
    <3>2. sticky' \in [Owners -> AgentPorts \cup {NoPort}]
      BY <1>0, <2>1, <3>1 DEF LeaseTypeOK, LeaseRec
    <3>3. QED
      BY <1>0, <1>1, <2>1, <2>4, <2>7, <3>2 DEF LeaseTypeOK, CallRec, Pcs
  <2>9. Known'
    <3>1. \A d \in Callers : call'[d].pc \notin {"idle", "allocate"} => call'[d].l \in 1..created'
      BY <1>0, <1>1, <2>4, <2>5, <2>7 DEF Known, Informed
    <3>2. \A d \in Callers : HasSession(call'[d]) \/ call'[d].pc \in {"stopping", "clear"} => call'[d].s \in 1..started'
      BY <1>0, <1>1, <2>5, <2>7 DEF Known, Informed
    <3>3. \A d \in Callers : call'[d].pc = "clear" => Stopped(call[d].s)'
      BY <1>0, <1>1, <2>3, <2>7 DEF Known, Stopped
    <3>4. \A d \in Callers : call'[d].pc = "clear" => call'[d] = call[d]
      BY <2>3, <2>7
    <3>5. leases' \cup cleaning' \subseteq 1..created'
      BY <1>0, <1>1, <2>1, <2>4 DEF Known
    <3>6. \A d \in Callers : Starts(call'[d]) => call'[d].port # NoPort
      BY <1>0, <2>5, <2>7 DEF Known, Informed
    <3>7. QED
      BY <1>0, <1>1, <3>1, <3>2, <3>3, <3>4, <3>5, <3>6 DEF Known, Stopped
  <2>10. OneHolder'
    <3>1. \A d \in Callers : Holds(call'[d]) => d # c /\ Holds(call[d]) /\ call'[d].l = call[d].l
      BY <2>5, <2>7
    <3>2. \A d \in Callers \ {c} : Holds(call[d]) => call[d].l # k
      BY <1>0, <2>5 DEF OneHolder
    <3>3. k \notin cleaning
      BY <1>0, <2>5 DEF OneHolder
    <3>4. QED
      BY <1>0, <1>1, <2>1, <3>1, <3>2, <3>3 DEF OneHolder
  <2>11. LimitKept'
    BY <1>0, <1>1, <1>3, <2>1, LimitEnters
  <2>12. PortsAccounted' /\ NoStrayAgent'
    BY <1>0, <1>1, <2>6, MarksStay DEF NoStrayAgent
  <2>13. OneLeasePerSession'
    BY <1>0, <1>1, <2>1, <2>3, <2>5, SessionCall
  <2>14. Unshared'
    BY <1>0, <1>1, <2>5, <2>7 DEF Unshared, Makes, HasLease
  <2>15. PortsHeld'
    <3>1. \A d \in Callers : CallPort(d)' = CallPort(d)
      BY <1>0, <2>1, <2>3, <2>5, PortCall
    <3>2. \A l \in Ids : LeasePort(l)' = LeasePort(l)
      BY <1>1, <2>6, PortLease
    <3>3. \A s \in LeaseSessions : TaskPort(s)' = TaskPort(s)
      BY <1>1 DEF TaskPort
    <3>4. QED
      BY <1>0, <1>1, <3>1, <3>2, <3>3, PortsStay
  <2>16. QED
    BY <2>8, <2>9, <2>10, <2>11, <2>12, <2>13, <2>14, <2>15 DEF LeaseInv
<1>4. QED
  BY <1>2, <1>3

(***************************************************************************)
(* StartLeaseCapture                                                       *)
(***************************************************************************)
\* Finds: the lease is in the table.
LEMMA FindsStep ==
    ASSUME LeaseInv, NEW c \in Callers, NEW op \in {"start", "stop", "release"}, NEW l \in Ids, Finds(c, op, l)
    PROVE  LeaseInv'
<1> DEFINE r == [call[c] EXCEPT !.pc = "found", !.op = op, !.l = l]
<1>1. /\ call[c].pc = "idle" /\ l \in leases /\ call' = [call EXCEPT ![c] = r]
      /\ UNCHANGED <<leases, lease, created, sticky, agentUsed, ctrlUsed, grpcUsed, agent, session, started,
                     cleaning, cleaned, overlapped>>
  BY DEF Finds, At, LeaseInv, LeaseTypeOK, table, ports, tasks, rest
<1>2. call[c] \in CallRec /\ l \in 1..created /\ l \in 0..MaxLeases
  BY <1>1, LeaseAssumption DEF LeaseInv, LeaseTypeOK, Known, CallRec, Pcs, Ids
<1>3. r \in CallRec /\ r.pc = "found" /\ r.l = l
  BY <1>2 DEF CallRec, Pcs
<1> HIDE DEF r
<1>4. /\ ~Holds(r) /\ ~HasPort(r) /\ ~HasSession(r) /\ ~Makes(r) /\ Informed(r)
      /\ ~Holds(call[c]) /\ ~HasPort(call[c])
  BY <1>1, <1>2, <1>3 DEF Holds, HasPort, HasSession, Makes, Starts, Informed
<1>5. QED
  BY <1>1, <1>3, <1>4, OnlyCall

\* FindsCreated: the lease may be gone already.
LEMMA FindsCreatedStep == ASSUME LeaseInv, NEW c \in Callers, FindsCreated(c) PROVE LeaseInv'
<1>1. /\ call[c].pc = "find" /\ (Goes(c, "found") \/ LeaseReturns(c))
      /\ UNCHANGED <<leases, lease, created, sticky, agentUsed, ctrlUsed, grpcUsed, agent, session, started,
                     cleaning, cleaned, overlapped>>
  BY DEF FindsCreated, At, table, ports, tasks, rest
<1>2. CASE Goes(c, "found")
  BY <1>1, <1>2, GoStep DEF Pcs
<1>3. CASE LeaseReturns(c)
  BY <1>1, <1>3, ReturnStep DEF Holds, HasPort
<1>4. QED
  BY <1>1, <1>2, <1>3

\* StartAllocates: the call takes a free session port.
LEMMA StartAllocatesStep == ASSUME LeaseInv, NEW c \in Callers, StartAllocates(c) PROVE LeaseInv'
<1>0. LeaseTypeOK /\ Known /\ PortsHeld
  BY DEF LeaseInv
<1>1. /\ call[c].pc = "found"
      /\ UNCHANGED <<leases, lease, created, sticky, agentUsed, ctrlUsed, agent, session, started,
                     cleaning, cleaned, overlapped>>
  BY DEF StartAllocates, At, table, tasks, rest
<1>2. CASE MayStart(call[c].l)
  <2> DEFINE r(p) == [call[c] EXCEPT !.pc = "probe", !.port = p]
  <2>1. PICK p \in GrpcPorts \ grpcUsed : grpcUsed' = grpcUsed \cup {p} /\ call' = [call EXCEPT ![c] = r(p)]
    BY <1>0, <1>2 DEF StartAllocates, LeaseTypeOK
  <2>2. call[c] \in CallRec
    BY <1>0 DEF LeaseTypeOK, CallRec, Pcs
  <2>3. r(p) \in CallRec /\ r(p).pc = "probe" /\ r(p).port = p /\ r(p).l = call[c].l
    BY <2>2 DEF CallRec, Pcs
  <2>4. PICK q \in CallRec : q = r(p)
    BY <2>3
  <2> HIDE DEF r
  <2>5. call' = [call EXCEPT ![c] = q] /\ q.pc = "probe" /\ q.port = p /\ q.l = call[c].l
    BY <2>1, <2>3, <2>4
  <2>6. call[c].l \in 1..created
    BY <1>0, <1>1 DEF Known
  <2>7. /\ ~Holds(q) /\ HasPort(q) /\ ~HasSession(q) /\ ~Makes(q) /\ Informed(q)
        /\ ~Holds(call[c]) /\ ~HasPort(call[c]) /\ HasLease(call[c])
    BY <1>1, <2>5, <2>6, LeaseAssumption DEF Holds, HasPort, HasSession, Makes, HasLease, Starts, Informed
  <2>8. CallPort(c) = NoPort /\ CallPort(c)' = p
    <3>1. CallPort(c)' = IF HasPort(q) THEN q.port ELSE NoPort
      BY <1>0, <1>1, <2>5, <2>7, OthersPorts
    <3>2. QED
      BY <3>1, <2>5, <2>7 DEF CallPort
  <2>9. PortsHeld'
    <3>1. \A d \in Callers \ {c} : CallPort(d)' = CallPort(d)
      BY <1>0, <1>1, <2>5, <2>7, OthersPorts
    <3>2. \A s \in LeaseSessions : TaskPort(s)' = TaskPort(s)
      BY <1>1 DEF TaskPort
    <3>3. \A l \in Ids : LeasePort(l)' = LeasePort(l)
      BY <1>0, <1>1, <2>5, <2>7, OthersPorts
    <3>4. QED
      BY <1>0, <1>1, <2>1, <2>8, <3>1, <3>2, <3>3, CallTakes
  <2>10. grpcUsed' \subseteq GrpcPorts
    BY <1>0, <2>1 DEF LeaseTypeOK
  <2>11. QED
    BY <1>1, <2>5, <2>7, <2>9, <2>10, CallKeeps
<1>3. CASE ~MayStart(call[c].l)
  <2>1. LeaseReturns(c) /\ UNCHANGED grpcUsed
    BY <1>3 DEF StartAllocates
  <2>2. QED
    BY <1>1, <2>1, ReturnStep DEF Holds, HasPort
<1>4. QED
  BY <1>2, <1>3

\* StartFails and StartUndone: the call gives the port back.
LEMMA StartFailsStep == ASSUME LeaseInv, NEW c \in Callers, StartFails(c) PROVE LeaseInv'
BY GiveBackStep DEF StartFails, At, HasPort, table, tasks, rest

\* A start that failed gives back what it took.
LEMMA StartUndoneStep == ASSUME LeaseInv, NEW c \in Callers, StartUndone(c) PROVE LeaseInv'
BY GiveBackStep DEF StartUndone, At, HasPort, table, tasks, rest

\* StartReady and StartGivesUp: the call goes on with its session.
LEMMA StartReadyStep == ASSUME LeaseInv, NEW c \in Callers, StartReady(c) PROVE LeaseInv'
BY GoStep DEF StartReady, At, Pcs, table, ports, tasks, rest

\* A start whose session never became ready.
LEMMA StartGivesUpStep == ASSUME LeaseInv, NEW c \in Callers, StartGivesUp(c) PROVE LeaseInv'
BY GoStep DEF StartGivesUp, At, Pcs, table, ports, tasks, rest

\* StartsSession: nobody knows the new session yet.
LEMMA StartsSessionStep == ASSUME LeaseInv, NEW c \in Callers, StartsSession(c) PROVE LeaseInv'
<1>0. LeaseTypeOK /\ Known /\ OneHolder /\ LimitKept /\ PortsAccounted /\ NoStrayAgent
      /\ Unshared /\ OneLeasePerSession /\ PortsHeld
  BY DEF LeaseInv
<1>1. PICK n \in LeaseSessions : n = started + 1 /\ started \in Nat
  BY <1>0, LeaseAssumption DEF LeaseTypeOK, StartsSession, LeaseSessions
<1> DEFINE r == [call[c] EXCEPT !.pc = "wait", !.s = n]
           t == [session[n] EXCEPT !.st = "running"]
<1>2. /\ call[c].pc = "probe" /\ started' = n
      /\ session' = [session EXCEPT ![n] = t]
      /\ call' = [call EXCEPT ![c] = r]
      /\ UNCHANGED <<leases, lease, created, sticky, agentUsed, ctrlUsed, grpcUsed, agent, cleaning, cleaned, overlapped>>
  BY <1>0, <1>1 DEF StartsSession, At, LeaseTypeOK, table, ports, rest
<1>3. call[c] \in CallRec /\ session[n] \in TaskRec
  BY <1>0 DEF LeaseTypeOK, CallRec, Pcs, TaskRec
<1>4. n \in 0..MaxLeaseSessions /\ n \in Nat /\ n > started /\ 1..started \subseteq 1..n /\ n \in 1..n /\ n \notin 1..started
  BY <1>1 DEF LeaseSessions
<1>5. r \in CallRec /\ r.pc = "wait" /\ r.s = n /\ r.l = call[c].l /\ r.port = call[c].port
  BY <1>3, <1>4 DEF CallRec, Pcs
<1>6. t \in TaskRec /\ t.st = "running" /\ t.frees = session[n].frees
  BY <1>3 DEF TaskRec
<1> HIDE DEF r, t
<1>7. /\ ~Holds(r) /\ ~Holds(call[c]) /\ HasPort(r) /\ HasPort(call[c]) /\ HasSession(r) /\ ~HasSession(call[c])
      /\ ~Makes(r) /\ HasLease(r) /\ HasLease(call[c])
  BY <1>2, <1>5 DEF Holds, HasPort, HasSession, Makes, HasLease
<1>8. call' \in [Callers -> CallRec] /\ call'[c] = r /\ \A d \in Callers \ {c} : call'[d] = call[d]
  BY <1>0, <1>2, <1>5, CallChanges
<1>9. /\ session' \in [LeaseSessions -> TaskRec] /\ session'[n] = t
      /\ \A s \in LeaseSessions \ {n} : session'[s] = session[s]
  BY <1>0, <1>2, <1>6 DEF LeaseTypeOK, TaskRec
<1>10. session[n].st = "none" /\ session[n].frees = NoPort
  <2>1. \A s \in LeaseSessions : s > started => session[s].st = "none"
    BY <1>0 DEF Known
  <2>2. \A s \in LeaseSessions : session[s].st # "clearing" => session[s].frees = NoPort
    BY <1>0 DEF Known
  <2>3. session[n].st = "none"
    BY <1>4, <2>1
  <2>4. QED
    BY <2>2, <2>3
<1>11. LeaseTypeOK'
  BY <1>0, <1>2, <1>4, <1>8, <1>9 DEF LeaseTypeOK, CallRec, Pcs, TaskRec
<1>12. Objects' = Objects
  BY <1>0, <1>2, <1>5, <1>7, HoldsOn
<1>13. Known'
  <2>1. \A d \in Callers : call'[d].pc \notin {"idle", "allocate"} => call'[d].l \in 1..created'
    BY <1>0, <1>2, <1>5, <1>8 DEF Known
  <2>2. \A d \in Callers : HasSession(call'[d]) \/ call'[d].pc \in {"stopping", "clear"} => call'[d].s \in 1..started'
    BY <1>0, <1>2, <1>4, <1>5, <1>8 DEF Known
  <2>3. ASSUME NEW d \in Callers, call'[d].pc = "clear" PROVE Stopped(call[d].s)' /\ call'[d].s = call[d].s
    <3>1. call'[d] = call[d]
      BY <2>3, <1>5, <1>8
    <3>2. Stopped(call[d].s) /\ call[d].s \in 1..started
      BY <1>0, <2>3, <3>1 DEF Known
    <3>3. call[d].s # n /\ call[d].s \in LeaseSessions
      <4>1. 1..started \subseteq LeaseSessions
        BY <1>1, LeaseAssumption DEF LeaseSessions
      <4>2. QED
        BY <3>2, <1>4, <4>1
    <3>4. session'[call[d].s].st = session[call[d].s].st
      BY <1>9, <3>3
    <3>5. session'[call'[d].s].st \in {"removed", "clearing", "done"}
      BY <3>1, <3>2, <3>4 DEF Stopped
    <3>6. QED
      BY <3>1, <3>5 DEF Stopped
  <2>4. \A l \in Ids : lease'[l].session <= started' /\ (l > created' => lease'[l].session = 0)
    <3>1. \A l \in Ids : lease[l].session \in Nat
      BY <1>0 DEF LeaseTypeOK
    <3>2. QED
      BY <1>0, <1>1, <1>2, <3>1 DEF Known
  <2>5. \A s \in LeaseSessions : /\ session'[s].st # "clearing" => session'[s].frees = NoPort
                                 /\ s > started' => session'[s].st = "none"
    <3>1. \A s \in LeaseSessions : s > n => s # n /\ s > started
      BY <1>1 DEF LeaseSessions
    <3>2. QED
      BY <1>0, <1>2, <1>6, <1>9, <1>10, <3>1 DEF Known
  <2>6. leases' \cup cleaning' \subseteq 1..created' /\ (~cleaned' => cleaning' = {})
    BY <1>0, <1>2 DEF Known
  <2>7. \A d \in Callers : call'[d].pc = "clear" => session'[call'[d].s].st \in {"removed", "clearing", "done"}
    BY <2>3 DEF Stopped
  <2>8. \A d \in Callers : Starts(call'[d]) => call'[d].port # NoPort
    BY <1>0, <1>2, <1>5, <1>8 DEF Known, Starts
  <2>9. QED
    BY <2>1, <2>2, <2>4, <2>5, <2>6, <2>7, <2>8 DEF Known, Stopped
<1>14. OneHolder'
  BY <1>0, <1>2, <1>5, <1>7, HolderCall
<1>15. LimitKept' /\ PortsAccounted' /\ NoStrayAgent'
  BY <1>0, <1>2, <1>12, LimitStays, MarksStay DEF NoStrayAgent
<1>16. Unshared'
  BY <1>0, <1>2, <1>5, <1>7, MakerCall
<1>17. OneLeasePerSession'
  <2>1. \A d \in Callers \ {c} : HasSession(call[d]) => call[d].s # n
    BY <1>0, <1>4 DEF Known
  <2>2. \A l \in Ids : lease[l].session # n
    <3>1. \A l \in Ids : lease[l].session \in Nat /\ lease[l].session <= started
      BY <1>0 DEF LeaseTypeOK, Known
    <3>2. QED
      BY <1>1, <3>1
  <2>3. QED
    BY <1>0, <1>2, <1>5, <1>8, <2>1, <2>2 DEF OneLeasePerSession
<1>18. PortsHeld'
  <2>1. \A d \in Callers : CallPort(d)' = CallPort(d)
    BY <1>0, <1>2, <1>5, <1>7, PortCall
  <2>2. \A l \in Ids : LeasePort(l)' = LeasePort(l)
    BY <1>2, <1>12, PortLease
  <2>3. \A s \in LeaseSessions : TaskPort(s)' = TaskPort(s)
    BY <1>6, <1>9 DEF TaskPort
  <2>4. QED
    BY <1>0, <1>2, <2>1, <2>2, <2>3, PortsStay
<1>19. QED
  BY <1>11, <1>13, <1>14, <1>15, <1>16, <1>17, <1>18 DEF LeaseInv

\* StartAssigns: the session becomes the lease's, and its port with it.
LEMMA StartAssignsStep == ASSUME LeaseInv, NEW c \in Callers, StartAssigns(c) PROVE LeaseInv'
<1>0. LeaseTypeOK /\ Known /\ OneHolder /\ LimitKept /\ PortsAccounted /\ NoStrayAgent
      /\ Unshared /\ OneLeasePerSession /\ PortsHeld
  BY DEF LeaseInv
<1>1. call[c].pc = "assign" /\ call[c] \in CallRec
  BY <1>0 DEF StartAssigns, At, LeaseTypeOK, CallRec, Pcs
<1>2. PICK k \in Ids : k = call[c].l /\ k \in 1..created
  BY <1>0, <1>1, ObjectsMade DEF Known
<1>3. PICK s \in 1..started : s = call[c].s
  BY <1>0, <1>1 DEF Known, HasSession
<1>4. PICK p \in SessionPorts : p = call[c].port
  BY <1>1 DEF CallRec, SessionPorts
<1> DEFINE n == [lease[k] EXCEPT !.session = s, !.grpcPort = p]
<1>5. /\ lease' = [lease EXCEPT ![k] = n]
      /\ overlapped' = overlapped \cup ({lease[k].grpcPort} \ {NoPort}) \cup (IF k \in leases THEN {} ELSE {p})
      /\ call' = [call EXCEPT ![c] = LeaseIdle]
      /\ UNCHANGED <<leases, created, sticky, agentUsed, ctrlUsed, grpcUsed, agent, session, started, cleaning, cleaned>>
  BY <1>0, <1>2, <1>3, <1>4 DEF StartAssigns, LeaseReturns, LeaseTypeOK, ports, tasks
<1>6. lease[k] \in LeaseRec /\ s \in 0..MaxLeaseSessions /\ s # 0
  BY <1>0, <1>3 DEF LeaseTypeOK, LeaseRec
<1>7. n \in LeaseRec /\ n.session = s /\ n.grpcPort = p /\ n.owner = lease[k].owner
      /\ n.agentPort = lease[k].agentPort /\ n.ctrlPort = lease[k].ctrlPort
  BY <1>6 DEF LeaseRec, SessionPorts
<1> HIDE DEF n
<1>8. lease' \in [Ids -> LeaseRec] /\ lease'[k] = n /\ \A l \in Ids \ {k} : lease'[l] = lease[l]
  BY <1>0, <1>5, <1>7 DEF LeaseTypeOK, LeaseRec
<1>9. call' \in [Callers -> CallRec] /\ call'[c] = LeaseIdle /\ \A d \in Callers \ {c} : call'[d] = call[d]
  BY <1>0, <1>5, IdleIs, CallChanges
<1>10. ~Holds(call[c]) /\ HasPort(call[c]) /\ HasSession(call[c]) /\ HasLease(call[c]) /\ ~Makes(call[c])
  BY <1>1 DEF Holds, HasPort, HasSession, HasLease, Makes
<1>11. Objects' = Objects
  BY <1>0, <1>5, <1>10, IdleIs, HoldsOn
<1>12. p \in GrpcPorts
  BY <1>0, <1>1, <1>4 DEF Known, Starts, SessionPorts
<1>13. LeaseTypeOK'
  <2>1. overlapped' \subseteq GrpcPorts
    BY <1>0, <1>5, <1>6, <1>12 DEF LeaseTypeOK, LeaseRec
  <2>2. QED
    BY <1>0, <1>5, <1>8, <1>9, <2>1 DEF LeaseTypeOK, LeaseRec, CallRec, Pcs
<1>14. Known'
  <2>1. \A d \in Callers : call'[d].pc # "idle" => call'[d] = call[d]
    BY <1>9, IdleIs
  <2>2. \A l \in Ids : lease'[l].session <= started' /\ (l > created' => lease'[l].session = 0)
    <3>1. started \in Nat /\ created \in Nat
      BY <1>0 DEF LeaseTypeOK
    <3>2. lease'[k].session <= started /\ ~(k > created)
      BY <1>2, <1>3, <1>7, <1>8, <3>1
    <3>3. QED
      BY <1>0, <1>5, <1>8, <3>2 DEF Known
  <2>3. \A d \in Callers : call'[d].pc = "clear" => session'[call'[d].s].st \in {"removed", "clearing", "done"}
    BY <1>0, <1>5, <2>1 DEF Known, Stopped
  <2>4. \A d \in Callers : /\ HasSession(call'[d]) \/ Starts(call'[d]) => call'[d].pc # "idle"
                           /\ call'[d].pc \in {"stopping", "clear"} => call'[d].pc # "idle"
    BY DEF HasSession, Starts
  <2>5. QED
    BY <1>0, <1>5, <2>1, <2>2, <2>3, <2>4 DEF Known, Stopped
<1>15. OneHolder'
  BY <1>0, <1>5, <1>10, IdleIs, HolderCall
<1>16. LimitKept'
  <2>1. \A l \in leases : lease'[l].owner = lease[l].owner
    BY <1>0, <1>7, <1>8 DEF LeaseTypeOK
  <2>2. QED
    BY <1>0, <1>5, <2>1, LimitStays
<1>17. PortsAccounted'
  <2>1. \A l \in Objects : lease'[l].agentPort = lease[l].agentPort /\ lease'[l].ctrlPort = lease[l].ctrlPort
    BY <1>0, <1>7, <1>8, ObjectsMade
  <2>2. QED
    BY <1>0, <1>5, <1>11, <2>1, MarksStay
<1>18. NoStrayAgent'
  BY <1>0, <1>5, <1>11 DEF NoStrayAgent
<1>19. Unshared'
  <2>1. \A d \in Callers : HasLease(call'[d]) => call'[d] = call[d] /\ d # c
    BY <1>9, IdleIs
  <2>2. \A d \in Callers : Makes(call'[d]) => HasLease(call'[d])
    BY DEF Makes, HasLease
  <2>3. \A d \in Callers : Makes(call'[d]) => Makes(call[d]) /\ d # c /\ call'[d].l = call[d].l
    BY <2>1, <2>2
  <2>4. \A d \in Callers : Makes(call'[d]) => call[d].l # k
    BY <1>0, <1>2, <1>10, <2>3 DEF Unshared
  <2>5. \A d \in Callers : Makes(call'[d]) => call[d].l \in Ids
    BY <1>0, <2>3, ObjectsMade DEF Known, Makes
  <2>6. \A d \in Callers : Makes(call'[d]) => lease'[call'[d].l].grpcPort = NoPort
    BY <1>0, <1>8, <2>3, <2>4, <2>5 DEF Unshared
  <2>7. QED
    BY <1>0, <2>1, <2>3, <2>6 DEF Unshared
<1>20. OneLeasePerSession'
  <2>1. \A d \in Callers : HasSession(call'[d]) => d # c /\ call'[d] = call[d]
    BY <1>9, IdleIs
  <2>2. \A d \in Callers \ {c} : HasSession(call[d]) => call[d].s # s
    BY <1>0, <1>3, <1>10 DEF OneLeasePerSession
  <2>3. \A l \in Ids : lease[l].session # s
    BY <1>0, <1>3, <1>10 DEF OneLeasePerSession
  <2>4. \A d, e \in Callers : HasSession(call'[d]) /\ HasSession(call'[e]) /\ d # e => call'[d].s # call'[e].s
    BY <1>0, <2>1 DEF OneLeasePerSession
  <2>5. \A d \in Callers, l \in Ids : HasSession(call'[d]) => lease'[l].session # call'[d].s
    BY <1>0, <1>7, <1>8, <2>1, <2>2 DEF OneLeasePerSession
  <2>6. \A l, m \in Ids : l # m => lease'[l].session = 0 \/ lease'[l].session # lease'[m].session
    BY <1>0, <1>7, <1>8, <2>3 DEF OneLeasePerSession
  <2>7. QED
    BY <2>4, <2>5, <2>6 DEF OneLeasePerSession
<1>21. PortsHeld'
  <2>1. CallPort(c) = p /\ CallPort(c)' = NoPort
    BY <1>4, <1>9, <1>10, IdleIs DEF CallPort
  <2>2. \A d \in Callers \ {c} : CallPort(d)' = CallPort(d)
    BY <1>9 DEF CallPort
  <2>3. \A s1 \in LeaseSessions : TaskPort(s1)' = TaskPort(s1)
    BY <1>5 DEF TaskPort
  <2>4. \A m \in Ids \ {k} : LeasePort(m)' = LeasePort(m)
    BY <1>8, <1>11 DEF LeasePort
  <2>5. LeasePort(k)' = IF k \in Objects THEN CallPort(c) ELSE LeasePort(k)
    BY <1>7, <1>8, <1>11, <2>1 DEF LeasePort
  <2>6. overlapped \subseteq overlapped' /\ LeasePort(k) \in overlapped' \cup {NoPort}
    BY <1>5 DEF LeasePort
  <2>7. k \notin Objects => CallPort(c) \in overlapped'
    BY <1>5, <2>1, ObjectsAre
  <2>8. UNCHANGED grpcUsed
    BY <1>5
  <2>9. QED
    BY <1>0, <2>1, <2>2, <2>3, <2>4, <2>5, <2>6, <2>7, <2>8, CallToLease
<1>22. QED
  BY <1>13, <1>14, <1>15, <1>16, <1>17, <1>18, <1>19, <1>20, <1>21 DEF LeaseInv

(***************************************************************************)
(* StopLeaseCapture and ReleaseProxyLease                                  *)
(***************************************************************************)
\* ReadsSession: a session that a lease has was started.
LEMMA ReadsSessionStep == ASSUME LeaseInv, NEW c \in Callers, ReadsSession(c) PROVE LeaseInv'
<1>0. LeaseTypeOK /\ Known
  BY DEF LeaseInv
<1>1. /\ call[c].pc = "found" /\ call[c] \in CallRec
      /\ UNCHANGED <<leases, lease, created, sticky, agentUsed, ctrlUsed, grpcUsed, agent, session, started,
                     cleaning, cleaned, overlapped>>
  BY <1>0 DEF ReadsSession, At, LeaseTypeOK, CallRec, Pcs, table, ports, tasks, rest
<1>2. PICK k \in Ids : k = call[c].l /\ k \in 1..created
  BY <1>0, <1>1, ObjectsMade DEF Known
<1>3. PICK s \in 0..MaxLeaseSessions : s = lease[k].session
  BY <1>0 DEF LeaseTypeOK
<1>4. s # 0 => s \in 1..started
  BY <1>0, <1>2, <1>3 DEF Known, LeaseTypeOK
<1> DEFINE r == [call[c] EXCEPT !.pc = "stopping", !.s = s]
<1>5. \/ s # 0 /\ call' = [call EXCEPT ![c] = r]
      \/ LeaseReturns(c)
      \/ Goes(c, "reclaim")
  BY <1>0, <1>2, <1>3 DEF ReadsSession, LeaseReturns, Goes, LeaseTypeOK
<1>6. CASE s # 0 /\ call' = [call EXCEPT ![c] = r]
  <2>1. r \in CallRec /\ r.pc = "stopping" /\ r.s = s /\ r.l = k
    BY <1>1, <1>2, <1>3 DEF CallRec, Pcs
  <2> HIDE DEF r
  <2>2. /\ ~Holds(r) /\ ~HasPort(r) /\ ~HasSession(r) /\ ~Makes(r) /\ Informed(r)
        /\ ~Holds(call[c]) /\ ~HasPort(call[c]) /\ HasLease(call[c])
    BY <1>1, <1>2, <1>4, <1>6, <2>1 DEF Holds, HasPort, HasSession, Makes, HasLease, Starts, Informed
  <2>3. QED
    BY <1>1, <1>2, <1>6, <2>1, <2>2, OnlyCall
<1>7. CASE LeaseReturns(c)
  BY <1>1, <1>7, ReturnStep DEF Holds, HasPort
<1>8. CASE Goes(c, "reclaim")
  BY <1>1, <1>8, GoStep DEF Pcs
<1>9. QED
  BY <1>5, <1>6, <1>7, <1>8

\* StopWaits: the call goes on when the task is gone.
LEMMA StopWaitsStep == ASSUME LeaseInv, NEW c \in Callers, StopWaits(c) PROVE LeaseInv'
<1>1. /\ call[c].pc = "stopping"
      /\ (Stopped(call[c].s) /\ (Goes(c, "clear") \/ Goes(c, "reclaim"))) \/ LeaseReturns(c)
      /\ UNCHANGED <<leases, lease, created, sticky, agentUsed, ctrlUsed, grpcUsed, agent, session, started,
                     cleaning, cleaned, overlapped>>
  BY DEF StopWaits, At, table, ports, tasks, rest
<1>2. CASE Stopped(call[c].s) /\ Goes(c, "clear")
  BY <1>1, <1>2, GoStep DEF Pcs
<1>3. CASE Goes(c, "reclaim")
  BY <1>1, <1>3, GoStep DEF Pcs
<1>4. CASE LeaseReturns(c)
  BY <1>1, <1>4, ReturnStep DEF Holds, HasPort
<1>5. QED
  BY <1>1, <1>2, <1>3, <1>4

\* A session is the session of at most one lease, and clearing it leaves the rest alone.
LEMMA ClearsOne ==
    ASSUME LeaseInv, NEW s \in 1..MaxLeaseSessions, NEW k \in Capturing(s), lease' = Cleared(s)
    PROVE  /\ k \in Ids /\ k \in leases /\ k \in Objects /\ lease[k].session = s
           /\ lease' \in [Ids -> LeaseRec]
           /\ lease'[k].session = 0 /\ lease'[k].grpcPort = NoPort /\ lease'[k].owner = lease[k].owner
           /\ lease'[k].agentPort = lease[k].agentPort /\ lease'[k].ctrlPort = lease[k].ctrlPort
           /\ \A l \in Ids \ {k} : lease'[l] = lease[l]
<1>1. LeaseTypeOK /\ OneLeasePerSession
  BY DEF LeaseInv
<1>2. k \in leases /\ lease[k].session = s /\ k \in Ids /\ k \in Objects
  BY <1>1, ObjectsAre DEF Capturing, LeaseTypeOK
<1>3. \A l \in Ids \ {k} : l \notin Capturing(s)
  BY <1>1, <1>2 DEF OneLeasePerSession, Capturing
<1>4. \A l \in Ids : lease[l] \in LeaseRec
  BY <1>1 DEF LeaseTypeOK, LeaseRec
<1>5. ASSUME NEW r \in LeaseRec, NEW e, e = [r EXCEPT !.session = 0, !.grpcPort = NoPort]
      PROVE  /\ e \in LeaseRec /\ e.session = 0 /\ e.grpcPort = NoPort /\ e.owner = r.owner
             /\ e.agentPort = r.agentPort /\ e.ctrlPort = r.ctrlPort
  <2>1. 0 \in 0..MaxLeaseSessions
    BY LeaseAssumption
  <2>2. QED
    BY <1>5, <2>1 DEF LeaseRec
<1>6. lease'[k] = [lease[k] EXCEPT !.session = 0, !.grpcPort = NoPort] /\ \A l \in Ids \ {k} : lease'[l] = lease[l]
  BY <1>2, <1>3 DEF Cleared
<1>7. lease' = [l \in Ids |-> lease'[l]]
  BY DEF Cleared
<1>8. PICK r \in LeaseRec : r = lease[k]
  BY <1>2, <1>4
<1>9. PICK e : e = [r EXCEPT !.session = 0, !.grpcPort = NoPort]
  OBVIOUS
<1>10. /\ e \in LeaseRec /\ e.session = 0 /\ e.grpcPort = NoPort /\ e.owner = r.owner
       /\ e.agentPort = r.agentPort /\ e.ctrlPort = r.ctrlPort
  BY <1>5, <1>9
<1>11. lease'[k] = e
  BY <1>6, <1>8, <1>9
<1>12. lease' \in [Ids -> LeaseRec]
  BY <1>4, <1>6, <1>7, <1>10, <1>11
<1>13. QED
  BY <1>2, <1>6, <1>8, <1>10, <1>11, <1>12

\* What clearing a lease leaves true, whoever clears it.
LEMMA ClearedKeeps ==
    ASSUME LeaseInv, NEW s \in 1..MaxLeaseSessions, NEW k \in Capturing(s), lease' = Cleared(s),
           UNCHANGED <<leases, created, agentUsed, ctrlUsed, agent, started, cleaning>>, Objects' = Objects
    PROVE  /\ LimitKept' /\ PortsAccounted' /\ NoStrayAgent'
           /\ \A l \in Ids : lease'[l].session <= started' /\ (l > created' => lease'[l].session = 0)
           /\ \A l \in Ids : lease'[l].session \in {0, lease[l].session}
           /\ \A l \in Ids : lease'[l].grpcPort \in {NoPort, lease[l].grpcPort}
           /\ LeasePort(k) = lease[k].grpcPort /\ LeasePort(k)' = NoPort
           /\ \A l \in Ids \ {k} : LeasePort(l)' = LeasePort(l)
<1>0. LeaseTypeOK /\ Known /\ LimitKept /\ PortsAccounted /\ NoStrayAgent
  BY DEF LeaseInv
<1>1. /\ k \in Ids /\ k \in leases /\ k \in Objects
      /\ lease'[k].session = 0 /\ lease'[k].grpcPort = NoPort /\ lease'[k].owner = lease[k].owner
      /\ lease'[k].agentPort = lease[k].agentPort /\ lease'[k].ctrlPort = lease[k].ctrlPort
      /\ \A l \in Ids \ {k} : lease'[l] = lease[l]
  BY ClearsOne
<1>2. LimitKept'
  <2>1. \A l \in leases' : lease'[l].owner = lease[l].owner
    BY <1>0, <1>1 DEF LeaseTypeOK
  <2>2. QED
    BY <1>0, <2>1, LimitStays
<1>3. PortsAccounted'
  <2>1. \A l \in Objects : lease'[l].agentPort = lease[l].agentPort /\ lease'[l].ctrlPort = lease[l].ctrlPort
    BY <1>0, <1>1, ObjectsMade
  <2>2. QED
    BY <1>0, <2>1, MarksStay
<1>4. NoStrayAgent'
  BY <1>0 DEF NoStrayAgent
<1>5. \A l \in Ids : lease'[l].session <= started' /\ (l > created' => lease'[l].session = 0)
  <2>1. started \in Nat
    BY <1>0 DEF LeaseTypeOK
  <2>2. QED
    BY <1>0, <1>1, <2>1 DEF Known
<1>6. /\ \A l \in Ids : lease'[l].session \in {0, lease[l].session}
      /\ \A l \in Ids : lease'[l].grpcPort \in {NoPort, lease[l].grpcPort}
  BY <1>1
<1>7. LeasePort(k) = lease[k].grpcPort /\ LeasePort(k)' = NoPort /\ \A l \in Ids \ {k} : LeasePort(l)' = LeasePort(l)
  BY <1>1 DEF LeasePort
<1>8. QED
  BY <1>2, <1>3, <1>4, <1>5, <1>6, <1>7

\* StopFrees: the port goes back.
LEMMA StopFreesStep == ASSUME LeaseInv, NEW c \in Callers, StopFrees(c) PROVE LeaseInv'
BY GiveBackStep DEF StopFrees, At, HasPort, table, tasks, rest

\* StopClears: the lease's session port passes to the call.
LEMMA StopClearsStep == ASSUME LeaseInv, NEW c \in Callers, StopClears(c) PROVE LeaseInv'
<1>0. LeaseTypeOK /\ Known /\ OneHolder /\ LimitKept /\ PortsAccounted /\ NoStrayAgent
      /\ Unshared /\ OneLeasePerSession /\ PortsHeld
  BY DEF LeaseInv
<1>1. /\ call[c].pc = "clear" /\ call[c] \in CallRec
      /\ UNCHANGED <<leases, created, sticky, agentUsed, ctrlUsed, grpcUsed, agent, session, started,
                     cleaning, cleaned, overlapped>>
  BY <1>0 DEF StopClears, At, LeaseTypeOK, CallRec, Pcs, ports, tasks, rest
<1>2. PICK s \in 1..MaxLeaseSessions : s = call[c].s
  BY <1>0, <1>1 DEF Known, LeaseTypeOK
<1>3. CASE Capturing(s) = {}
  <2>1. LeaseReturns(c) /\ UNCHANGED lease
    BY <1>2, <1>3 DEF StopClears
  <2>2. QED
    BY <1>1, <2>1, ReturnStep DEF Holds, HasPort
<1>4. CASE Capturing(s) # {}
  <2>1. PICK k \in Capturing(s) : lease' = Cleared(s) /\ call' = [call EXCEPT ![c].pc = "free", ![c].port = lease[k].grpcPort]
    BY <1>2, <1>4 DEF StopClears
  <2>2. /\ k \in Ids /\ k \in leases /\ k \in Objects /\ lease[k].session = s
        /\ lease' \in [Ids -> LeaseRec]
    BY <2>1, ClearsOne
  <2>3. PICK p \in SessionPorts : p = lease[k].grpcPort
    BY <1>0, <2>2 DEF LeaseTypeOK, SessionPorts
  <2> DEFINE r == [call[c] EXCEPT !.pc = "free", !.port = p]
  <2>4. call' = [call EXCEPT ![c] = r]
    BY <1>0, <2>1, <2>3 DEF LeaseTypeOK
  <2>5. r \in CallRec /\ r.pc = "free" /\ r.port = p /\ r.l = call[c].l
    BY <1>1 DEF CallRec, Pcs, SessionPorts
  <2> HIDE DEF r
  <2>6. /\ ~Holds(r) /\ HasPort(r) /\ ~HasSession(r) /\ ~Makes(r) /\ ~Starts(r)
        /\ ~Holds(call[c]) /\ ~HasPort(call[c]) /\ HasLease(call[c])
    BY <1>1, <2>5 DEF Holds, HasPort, HasSession, Makes, HasLease, Starts
  <2>7. call' \in [Callers -> CallRec] /\ call'[c] = r /\ \A d \in Callers \ {c} : call'[d] = call[d]
    BY <1>0, <2>4, <2>5, CallChanges
  <2>8. Objects' = Objects
    BY <1>0, <1>1, <2>4, <2>5, <2>6, HoldsOn
  <2>9. /\ LimitKept' /\ PortsAccounted' /\ NoStrayAgent'
        /\ \A l \in Ids : lease'[l].session <= started' /\ (l > created' => lease'[l].session = 0)
        /\ \A l \in Ids : lease'[l].session \in {0, lease[l].session}
        /\ \A l \in Ids : lease'[l].grpcPort \in {NoPort, lease[l].grpcPort}
        /\ LeasePort(k) = p /\ LeasePort(k)' = NoPort
        /\ \A l \in Ids \ {k} : LeasePort(l)' = LeasePort(l)
    BY <1>1, <2>1, <2>3, <2>8, ClearedKeeps
  <2>10. LeaseTypeOK'
    BY <1>0, <1>1, <2>2, <2>7 DEF LeaseTypeOK, LeaseRec, CallRec, Pcs
  <2>11. Known'
    <3>1. \A d \in Callers : call'[d].pc \notin {"idle", "allocate"} => call'[d].l \in 1..created'
      BY <1>0, <1>1, <2>5, <2>7 DEF Known
    <3>2. \A d \in Callers : HasSession(call'[d]) \/ call'[d].pc \in {"stopping", "clear"} => call'[d].s \in 1..started'
      BY <1>0, <1>1, <2>5, <2>6, <2>7 DEF Known
    <3>3. \A d \in Callers : call'[d].pc = "clear" => session'[call'[d].s].st \in {"removed", "clearing", "done"}
      BY <1>0, <1>1, <2>5, <2>7 DEF Known, Stopped
    <3>4. \A d \in Callers : Starts(call'[d]) => call'[d].port # NoPort
      BY <1>0, <2>6, <2>7 DEF Known
    <3>5. QED
      BY <1>0, <1>1, <2>9, <3>1, <3>2, <3>3, <3>4 DEF Known, Stopped
  <2>12. OneHolder'
    BY <1>0, <1>1, <2>4, <2>5, <2>6, HolderCall
  <2>13. Unshared'
    <3>1. \A d \in Callers : Makes(call'[d]) => Makes(call[d]) /\ d # c /\ call'[d].l = call[d].l
      BY <2>6, <2>7
    <3>2. \A d \in Callers : Makes(call'[d]) => call[d].l \in Ids
      BY <1>0, <3>1, ObjectsMade DEF Known, Makes
    <3>3. \A d \in Callers : Makes(call'[d]) => lease'[call'[d].l].grpcPort = NoPort
      BY <1>0, <2>9, <3>1, <3>2 DEF Unshared
    <3>4. \A d \in Callers : HasLease(call'[d]) => HasLease(call[d]) /\ call'[d].l = call[d].l
      BY <2>5, <2>6, <2>7
    <3>5. QED
      BY <1>0, <3>1, <3>3, <3>4 DEF Unshared
  <2>14. OneLeasePerSession'
    <3>1. \A d \in Callers : HasSession(call'[d]) => d # c /\ call'[d] = call[d]
      BY <2>6, <2>7
    <3>2. \A d \in Callers : HasSession(call'[d]) => call'[d].s # 0
      BY <1>0, <3>1 DEF Known
    <3>3. \A d, e \in Callers : HasSession(call'[d]) /\ HasSession(call'[e]) /\ d # e => call'[d].s # call'[e].s
      BY <1>0, <3>1 DEF OneLeasePerSession
    <3>4. \A d \in Callers, l \in Ids : HasSession(call'[d]) => lease'[l].session # call'[d].s
      BY <1>0, <2>9, <3>1, <3>2 DEF OneLeasePerSession
    <3>5. \A l, m \in Ids : l # m => lease'[l].session = 0 \/ lease'[l].session # lease'[m].session
      BY <1>0, <2>9 DEF OneLeasePerSession
    <3>6. QED
      BY <3>3, <3>4, <3>5 DEF OneLeasePerSession
  <2>15. PortsHeld'
    <3>1. CallPort(c) = NoPort /\ CallPort(c)' = p
      BY <2>5, <2>6, <2>7 DEF CallPort
    <3>2. \A d \in Callers \ {c} : CallPort(d)' = CallPort(d)
      BY <2>7 DEF CallPort
    <3>3. \A t \in LeaseSessions : TaskPort(t)' = TaskPort(t)
      BY <1>1 DEF TaskPort
    <3>4. QED
      BY <1>0, <1>1, <2>2, <2>9, <3>1, <3>2, <3>3, LeaseToCall
  <2>16. QED
    BY <2>9, <2>10, <2>11, <2>12, <2>13, <2>14, <2>15 DEF LeaseInv
<1>5. QED
  BY <1>3, <1>4

\* Reclaims: the object goes from the table to the call, if it is there.
LEMMA ReclaimsStep == ASSUME LeaseInv, NEW c \in Callers, Reclaims(c) PROVE LeaseInv'
<1>0. LeaseTypeOK /\ Known /\ OneHolder /\ LimitKept /\ PortsAccounted /\ NoStrayAgent
      /\ Unshared /\ OneLeasePerSession /\ PortsHeld
  BY DEF LeaseInv
<1>1. /\ call[c].pc = "reclaim" /\ call[c] \in CallRec /\ leases' = leases \ {call[c].l}
      /\ UNCHANGED <<lease, created, sticky, agentUsed, ctrlUsed, grpcUsed, agent, session, started,
                     cleaning, cleaned, overlapped>>
  BY <1>0 DEF Reclaims, At, LeaseTypeOK, CallRec, Pcs, ports, tasks, rest
<1>2. CASE call[c].l \notin leases
  <2>1. LeaseReturns(c) /\ leases' = leases
    BY <1>1, <1>2 DEF Reclaims
  <2>2. QED
    BY <1>1, <2>1, ReturnStep DEF Holds, HasPort
<1>3. CASE call[c].l \in leases
  <2> DEFINE r == [call[c] EXCEPT !.pc = "reclaimed"]
  <2>1. call' = [call EXCEPT ![c] = r]
    BY <1>3 DEF Reclaims, Goes
  <2>2. r \in CallRec /\ r.pc = "reclaimed" /\ r.l = call[c].l
    BY <1>1, GoesIs DEF Pcs
  <2> HIDE DEF r
  <2>3. /\ Holds(r) /\ ~HasPort(r) /\ ~HasSession(r) /\ ~Makes(r) /\ ~Starts(r) /\ HasLease(r)
        /\ ~Holds(call[c]) /\ ~HasPort(call[c]) /\ HasLease(call[c])
    BY <1>1, <2>2 DEF Holds, HasPort, HasSession, Makes, HasLease, Starts
  <2>4. call' \in [Callers -> CallRec] /\ call'[c] = r /\ \A d \in Callers \ {c} : call'[d] = call[d]
    BY <1>0, <2>1, <2>2, CallChanges
  <2>5. Objects' = Objects
    BY <1>0, <1>1, <1>3, <2>1, <2>2, <2>3, LeavesTable
  <2>6. LeaseTypeOK'
    BY <1>0, <1>1, <2>4 DEF LeaseTypeOK, CallRec, Pcs
  <2>7. Known'
    <3>1. \A d \in Callers : call'[d].pc \notin {"idle", "allocate"} => call'[d].l \in 1..created'
      BY <1>0, <1>1, <2>2, <2>4 DEF Known
    <3>2. \A d \in Callers : HasSession(call'[d]) \/ call'[d].pc \in {"stopping", "clear"} => call'[d].s \in 1..started'
      BY <1>0, <1>1, <2>2, <2>3, <2>4 DEF Known
    <3>3. \A d \in Callers : call'[d].pc = "clear" => session'[call'[d].s].st \in {"removed", "clearing", "done"}
      BY <1>0, <1>1, <2>2, <2>4 DEF Known, Stopped
    <3>4. \A d \in Callers : Starts(call'[d]) => call'[d].port # NoPort
      BY <1>0, <2>3, <2>4 DEF Known
    <3>5. leases' \cup cleaning' \subseteq 1..created'
      BY <1>0, <1>1 DEF Known
    <3>6. QED
      BY <1>0, <1>1, <3>1, <3>2, <3>3, <3>4, <3>5 DEF Known, Stopped
  <2>8. OneHolder'
    <3>1. \A d \in Callers \ {c} : Holds(call[d]) => call[d].l # call[c].l
      BY <1>0, <1>3 DEF OneHolder
    <3>2. call[c].l \notin cleaning
      BY <1>0, <1>3 DEF OneHolder
    <3>3. \A d, e \in Callers : Holds(call'[d]) /\ Holds(call'[e]) /\ d # e => call'[d].l # call'[e].l
      BY <1>0, <2>2, <2>4, <3>1 DEF OneHolder
    <3>4. \A d \in Callers : Holds(call'[d]) => call'[d].l \notin leases' \cup cleaning'
      BY <1>0, <1>1, <2>2, <2>4, <3>2 DEF OneHolder
    <3>5. QED
      BY <1>0, <1>1, <3>3, <3>4 DEF OneHolder
  <2>9. LimitKept'
    BY <1>0, <1>1, LimitStays
  <2>10. PortsAccounted' /\ NoStrayAgent'
    BY <1>0, <1>1, <2>5, MarksStay DEF NoStrayAgent
  <2>11. OneLeasePerSession' /\ Unshared'
    BY <1>0, <1>1, <2>1, <2>2, <2>3, SessionCall, MakerCall
  <2>12. PortsHeld'
    <3>1. \A d \in Callers : CallPort(d)' = CallPort(d)
      BY <1>0, <2>1, <2>2, <2>3, PortCall
    <3>2. \A l \in Ids : LeasePort(l)' = LeasePort(l)
      BY <1>1, <2>5, PortLease
    <3>3. \A s \in LeaseSessions : TaskPort(s)' = TaskPort(s)
      BY <1>1 DEF TaskPort
    <3>4. QED
      BY <1>0, <1>1, <3>1, <3>2, <3>3, PortsStay
  <2>13. QED
    BY <2>6, <2>7, <2>8, <2>9, <2>10, <2>11, <2>12 DEF LeaseInv
<1>4. QED
  BY <1>2, <1>3

(***************************************************************************)
(* Sessions, agents and shutdown                                           *)
(***************************************************************************)
\* A task that moves on stays stopped, and what calls know of it stays true.
LEMMA TaskMoves ==
    ASSUME LeaseInv, NEW s \in LeaseSessions, NEW t \in TaskRec, session' = [session EXCEPT ![s] = t],
           UNCHANGED <<leases, created, started, call, cleaning, cleaned>>,
           session[s].st # "none", Stopped(s) => t.st \in {"removed", "clearing", "done"},
           t.st # "clearing" => t.frees = NoPort,
           \A l \in Ids : lease'[l].session <= started' /\ (l > created' => lease'[l].session = 0)
    PROVE  /\ Known' /\ session' \in [LeaseSessions -> TaskRec] /\ TaskPort(s)' = t.frees
           /\ \A u \in LeaseSessions \ {s} : TaskPort(u)' = TaskPort(u)
<1>0. LeaseTypeOK /\ Known
  BY DEF LeaseInv
<1>1. session' \in [LeaseSessions -> TaskRec] /\ session'[s] = t /\ \A u \in LeaseSessions \ {s} : session'[u] = session[u]
  BY <1>0 DEF LeaseTypeOK, TaskRec
<1>2. \A d \in Callers : call'[d].pc = "clear" => session'[call'[d].s].st \in {"removed", "clearing", "done"}
  <2>1. 1..started \subseteq LeaseSessions
    BY <1>0, LeaseAssumption DEF LeaseTypeOK, LeaseSessions
  <2>2. ASSUME NEW d \in Callers, call[d].pc = "clear" PROVE session'[call[d].s].st \in {"removed", "clearing", "done"}
    <3>1. Stopped(call[d].s) /\ call[d].s \in LeaseSessions
      BY <1>0, <2>1, <2>2 DEF Known
    <3>2. QED
      BY <1>1, <3>1 DEF Stopped
  <2>3. QED
    BY <2>2
<1>3. \A u \in LeaseSessions : /\ session'[u].st # "clearing" => session'[u].frees = NoPort
                              /\ u > started' => session'[u].st = "none"
  BY <1>0, <1>1 DEF Known
<1>4. Known'
  BY <1>0, <1>2, <1>3 DEF Known, Stopped
<1>5. QED
  BY <1>1, <1>4 DEF TaskPort

\* A step of a task that leaves the leases alone.
LEMMA OnlyTask ==
    ASSUME LeaseInv, NEW s \in LeaseSessions, NEW t \in TaskRec, session' = [session EXCEPT ![s] = t],
           UNCHANGED <<leases, lease, created, sticky, agentUsed, ctrlUsed, agent, started, call, cleaning, cleaned, overlapped>>,
           session[s].st # "none", Stopped(s) => t.st \in {"removed", "clearing", "done"}, t.st # "clearing", t.frees = NoPort,
           grpcUsed' = grpcUsed \ {TaskPort(s)}
    PROVE  LeaseInv'
<1>0. LeaseTypeOK /\ Known /\ OneHolder /\ LimitKept /\ PortsAccounted /\ NoStrayAgent
      /\ Unshared /\ OneLeasePerSession /\ PortsHeld
  BY DEF LeaseInv
<1>1. /\ Known' /\ session' \in [LeaseSessions -> TaskRec] /\ TaskPort(s)' = NoPort
      /\ \A u \in LeaseSessions \ {s} : TaskPort(u)' = TaskPort(u)
  <2>1. \A l \in Ids : lease'[l].session <= started' /\ (l > created' => lease'[l].session = 0)
    BY <1>0 DEF Known
  <2>2. QED
    BY <2>1, TaskMoves
<1>2. Objects' = Objects
  BY ZenonT(30), ObjectsAre
<1>3. LeaseTypeOK'
  BY <1>0, <1>1 DEF LeaseTypeOK, TaskRec
<1>4. OneHolder' /\ Unshared' /\ OneLeasePerSession'
  BY <1>0 DEF OneHolder, Unshared, OneLeasePerSession
<1>5. LimitKept' /\ PortsAccounted' /\ NoStrayAgent'
  BY <1>0, <1>2, LimitStays, MarksStay DEF NoStrayAgent
<1>6. PortsHeld'
  <2>1. \A c \in Callers : CallPort(c)' = CallPort(c)
    BY DEF CallPort
  <2>2. \A l \in Ids : LeasePort(l)' = LeasePort(l)
    BY <1>2, PortLease
  <2>3. QED
    BY <1>0, <1>1, <2>1, <2>2, TaskGives
<1>7. QED
  BY <1>1, <1>3, <1>4, <1>5, <1>6 DEF LeaseInv

\* SessionEnds and FinalizeRemoves: the task has no port.
LEMMA SessionEndsStep == ASSUME LeaseInv, NEW s \in LeaseSessions, SessionEnds(s) PROVE LeaseInv'
<1> DEFINE t == [session[s] EXCEPT !.st = "closing"]
<1>1. /\ session[s].st = "running" /\ session' = [session EXCEPT ![s] = t]
      /\ UNCHANGED <<leases, lease, created, sticky, agentUsed, ctrlUsed, grpcUsed, agent, started, call, cleaning, cleaned, overlapped>>
  BY DEF SessionEnds, table, ports, rest
<1>2. session[s] \in TaskRec /\ session[s].frees = NoPort /\ grpcUsed \subseteq GrpcPorts
  BY <1>1 DEF LeaseInv, LeaseTypeOK, Known, TaskRec
<1>3. t \in TaskRec /\ t.st = "closing" /\ t.frees = NoPort
  BY <1>2 DEF TaskRec
<1> HIDE DEF t
<1>4. grpcUsed' = grpcUsed \ {TaskPort(s)}
  BY <1>1, <1>2, LeaseAssumption DEF TaskPort
<1>5. QED
  BY <1>1, <1>3, <1>4, OnlyTask DEF Stopped

\* finalizeTask takes the task off the table.
LEMMA FinalizeRemovesStep == ASSUME LeaseInv, NEW s \in LeaseSessions, FinalizeRemoves(s) PROVE LeaseInv'
<1> DEFINE t == [session[s] EXCEPT !.st = "removed"]
<1>1. /\ session[s].st = "closing" /\ session' = [session EXCEPT ![s] = t]
      /\ UNCHANGED <<leases, lease, created, sticky, agentUsed, ctrlUsed, grpcUsed, agent, started, call, cleaning, cleaned, overlapped>>
  BY DEF FinalizeRemoves, table, ports, rest
<1>2. session[s] \in TaskRec /\ session[s].frees = NoPort /\ grpcUsed \subseteq GrpcPorts
  BY <1>1 DEF LeaseInv, LeaseTypeOK, Known, TaskRec
<1>3. t \in TaskRec /\ t.st = "removed" /\ t.frees = NoPort
  BY <1>2 DEF TaskRec
<1> HIDE DEF t
<1>4. grpcUsed' = grpcUsed \ {TaskPort(s)}
  BY <1>1, <1>2, LeaseAssumption DEF TaskPort
<1>5. QED
  BY <1>1, <1>3, <1>4, OnlyTask DEF Stopped

\* FinalizeFrees: the port that the finalizer has goes back.
LEMMA FinalizeFreesStep == ASSUME LeaseInv, NEW s \in LeaseSessions, FinalizeFrees(s) PROVE LeaseInv'
<1> DEFINE t == [st |-> "done", frees |-> NoPort]
<1>1. /\ session[s].st = "clearing" /\ session' = [session EXCEPT ![s] = t]
      /\ grpcUsed' = grpcUsed \ {TaskPort(s)}
      /\ UNCHANGED <<leases, lease, created, sticky, agentUsed, ctrlUsed, agent, started, call, cleaning, cleaned, overlapped>>
  BY DEF FinalizeFrees, TaskPort, table, rest
<1>2. t \in TaskRec /\ t.st = "done" /\ t.frees = NoPort
  BY DEF TaskRec
<1> HIDE DEF t
<1>3. QED
  BY <1>1, <1>2, OnlyTask DEF Stopped

\* FinalizeClears: the lease's session port passes to the finalizer.
LEMMA FinalizeClearsStep == ASSUME LeaseInv, NEW s \in LeaseSessions, FinalizeClears(s) PROVE LeaseInv'
<1>0. LeaseTypeOK /\ Known /\ OneHolder /\ LimitKept /\ PortsAccounted /\ NoStrayAgent
      /\ Unshared /\ OneLeasePerSession /\ PortsHeld
  BY DEF LeaseInv
<1>1. /\ session[s].st = "removed" /\ session[s].frees = NoPort /\ session[s] \in TaskRec
      /\ UNCHANGED <<leases, created, sticky, agentUsed, ctrlUsed, grpcUsed, agent, started, call, cleaning, cleaned, overlapped>>
  BY <1>0 DEF FinalizeClears, Known, LeaseTypeOK, TaskRec, ports, rest
<1>2. CASE Capturing(s) = {}
  <2> DEFINE t == [session[s] EXCEPT !.st = "done"]
  <2>1. session' = [session EXCEPT ![s] = t] /\ UNCHANGED lease
    BY <1>2 DEF FinalizeClears
  <2>2. t \in TaskRec /\ t.st = "done" /\ t.frees = NoPort
    BY <1>1 DEF TaskRec
  <2> HIDE DEF t
  <2>3. grpcUsed' = grpcUsed \ {TaskPort(s)}
    BY <1>0, <1>1, LeaseAssumption DEF TaskPort, LeaseTypeOK
  <2>4. QED
    BY <1>1, <2>1, <2>2, <2>3, OnlyTask
<1>3. CASE Capturing(s) # {}
  <2>1. PICK k \in Capturing(s) :
           lease' = Cleared(s) /\ session' = [session EXCEPT ![s] = [st |-> "clearing", frees |-> lease[k].grpcPort]]
    BY <1>3 DEF FinalizeClears
  <2>2. s \in 1..MaxLeaseSessions
    BY DEF LeaseSessions
  <2>3. k \in Ids /\ k \in leases /\ k \in Objects /\ lease' \in [Ids -> LeaseRec]
    BY <2>1, <2>2, ClearsOne
  <2>4. PICK p \in SessionPorts : p = lease[k].grpcPort
    BY <1>0, <2>3 DEF LeaseTypeOK, SessionPorts
  <2> DEFINE t == [st |-> "clearing", frees |-> p]
  <2>5. session' = [session EXCEPT ![s] = t] /\ t \in TaskRec /\ t.st = "clearing" /\ t.frees = p
    BY <2>1, <2>4 DEF TaskRec, SessionPorts
  <2> HIDE DEF t
  <2>6. Objects' = Objects
    BY <1>1, ObjectsAre
  <2>7. /\ LimitKept' /\ PortsAccounted' /\ NoStrayAgent'
        /\ \A l \in Ids : lease'[l].session <= started' /\ (l > created' => lease'[l].session = 0)
        /\ \A l \in Ids : lease'[l].session \in {0, lease[l].session}
        /\ \A l \in Ids : lease'[l].grpcPort \in {NoPort, lease[l].grpcPort}
        /\ LeasePort(k) = p /\ LeasePort(k)' = NoPort
        /\ \A l \in Ids \ {k} : LeasePort(l)' = LeasePort(l)
    BY <1>1, <2>1, <2>2, <2>4, <2>6, ClearedKeeps
  <2>8. /\ Known' /\ session' \in [LeaseSessions -> TaskRec] /\ TaskPort(s)' = p
        /\ \A u \in LeaseSessions \ {s} : TaskPort(u)' = TaskPort(u)
    BY <1>1, <2>5, <2>7, TaskMoves
  <2>9. LeaseTypeOK'
    BY <1>0, <1>1, <2>3, <2>8 DEF LeaseTypeOK, LeaseRec, TaskRec
  <2>10. OneHolder'
    BY <1>0, <1>1 DEF OneHolder
  <2>11. Unshared'
    <3>1. \A d \in Callers : Makes(call[d]) => call[d].l \in Ids
      BY <1>0, ObjectsMade DEF Known, Makes
    <3>2. QED
      BY <1>0, <1>1, <2>7, <3>1 DEF Unshared
  <2>12. OneLeasePerSession'
    <3>1. \A d \in Callers : HasSession(call[d]) => call[d].s # 0
      BY <1>0 DEF Known
    <3>2. QED
      BY <1>0, <1>1, <2>7, <3>1 DEF OneLeasePerSession
  <2>13. PortsHeld'
    <3>1. \A c \in Callers : CallPort(c)' = CallPort(c)
      BY <1>1 DEF CallPort
    <3>2. TaskPort(s) = NoPort
      BY <1>1 DEF TaskPort
    <3>3. QED
      BY <1>0, <1>1, <2>3, <2>7, <2>8, <3>1, <3>2, LeaseToTask
  <2>14. QED
    BY <2>7, <2>8, <2>9, <2>10, <2>11, <2>12, <2>13 DEF LeaseInv
<1>4. QED
  BY <1>2, <1>3

\* AgentExits: a process that is down needs no owner.
LEMMA AgentExitsStep == ASSUME LeaseInv, NEW l \in Ids, AgentExits(l) PROVE LeaseInv'
<1>0. LeaseTypeOK /\ Known /\ OneHolder /\ LimitKept /\ PortsAccounted /\ NoStrayAgent
      /\ Unshared /\ OneLeasePerSession /\ PortsHeld
  BY DEF LeaseInv
<1>1. /\ agent' = [agent EXCEPT ![l] = "down"]
      /\ UNCHANGED <<leases, lease, created, sticky, agentUsed, ctrlUsed, grpcUsed, session, started, call, cleaning, cleaned, overlapped>>
  BY DEF AgentExits, table, ports, tasks, rest
<1>2. agent' \in [Ids -> {"none", "up", "down"}] /\ \A m \in Ids : agent'[m] = "up" => agent[m] = "up"
  BY <1>0, <1>1 DEF LeaseTypeOK
<1>3. Objects' = Objects
  BY <1>1, ObjectsAre
<1>4. LeaseTypeOK'
  BY <1>0, <1>1, <1>2 DEF LeaseTypeOK
<1>5. OneHolder' /\ Unshared' /\ OneLeasePerSession'
  BY <1>0, <1>1 DEF OneHolder, Unshared, OneLeasePerSession
<1>6. Known'
  BY <1>0, <1>1 DEF Known, Stopped
<1>7. LimitKept' /\ PortsAccounted' /\ NoStrayAgent'
  BY <1>0, <1>1, <1>2, <1>3, LimitStays, MarksStay DEF NoStrayAgent
<1>8. PortsHeld'
  <2>1. \A c \in Callers : CallPort(c)' = CallPort(c)
    BY <1>1 DEF CallPort
  <2>2. \A m \in Ids : LeasePort(m)' = LeasePort(m)
    BY <1>1, <1>3, PortLease
  <2>3. \A s \in LeaseSessions : TaskPort(s)' = TaskPort(s)
    BY <1>1 DEF TaskPort
  <2>4. QED
    BY <1>0, <1>1, <2>1, <2>2, <2>3, PortsStay
<1>9. QED
  BY <1>4, <1>5, <1>6, <1>7, <1>8 DEF LeaseInv

\* CleanupProxyLeases: the whole table passes to the cleanup, which had nothing.
LEMMA CleanupStep == ASSUME LeaseInv, CleanupProxyLeases PROVE LeaseInv'
<1>0. LeaseTypeOK /\ Known /\ OneHolder /\ LimitKept /\ PortsAccounted /\ NoStrayAgent
      /\ Unshared /\ OneLeasePerSession /\ PortsHeld
  BY DEF LeaseInv
<1>1. /\ ~cleaned /\ cleaned' = TRUE /\ cleaning' = leases /\ leases' = {}
      /\ UNCHANGED <<lease, created, sticky, agentUsed, ctrlUsed, grpcUsed, agent, session, started, call, overlapped>>
  BY DEF CleanupProxyLeases, ports, tasks
<1>2. cleaning = {}
  BY <1>0, <1>1 DEF Known
<1>3. Objects' = Objects
  BY <1>1, <1>2, ObjectsAre
<1>4. LeaseTypeOK'
  BY <1>0, <1>1 DEF LeaseTypeOK
<1>5. Known'
  <2>1. leases' \cup cleaning' \subseteq 1..created' /\ (~cleaned' => cleaning' = {})
    BY <1>0, <1>1 DEF Known
  <2>2. QED
    BY <1>0, <1>1, <2>1 DEF Known, Stopped
<1>6. OneHolder' /\ Unshared' /\ OneLeasePerSession'
  BY <1>0, <1>1 DEF OneHolder, Unshared, OneLeasePerSession
<1>7. LimitKept'
  BY <1>0, <1>1, LimitStays
<1>8. PortsAccounted' /\ NoStrayAgent'
  BY <1>0, <1>1, <1>3, MarksStay DEF NoStrayAgent
<1>9. PortsHeld'
  <2>1. \A c \in Callers : CallPort(c)' = CallPort(c)
    BY <1>1 DEF CallPort
  <2>2. \A m \in Ids : LeasePort(m)' = LeasePort(m)
    BY <1>1, <1>3, PortLease
  <2>3. \A s \in LeaseSessions : TaskPort(s)' = TaskPort(s)
    BY <1>1 DEF TaskPort
  <2>4. QED
    BY <1>0, <1>1, <2>1, <2>2, <2>3, PortsStay
<1>10. QED
  BY <1>4, <1>5, <1>6, <1>7, <1>8, <1>9 DEF LeaseInv

\* CleanupFrees: an object goes with all its ports.
LEMMA CleanupFreesStep == ASSUME LeaseInv, NEW k \in Ids, CleanupFrees(k) PROVE LeaseInv'
<1>0. LeaseTypeOK /\ Known /\ OneHolder /\ LimitKept /\ PortsAccounted /\ NoStrayAgent
      /\ Unshared /\ OneLeasePerSession /\ PortsHeld
  BY DEF LeaseInv
<1>1. /\ k \in cleaning /\ cleaning' = cleaning \ {k}
      /\ agentUsed' = agentUsed \ {lease[k].agentPort} /\ ctrlUsed' = ctrlUsed \ {lease[k].ctrlPort}
      /\ grpcUsed' = grpcUsed \ {lease[k].grpcPort} /\ agent' = [agent EXCEPT ![k] = "down"]
      /\ UNCHANGED <<leases, lease, created, sticky, session, started, call, cleaned, overlapped>>
  BY DEF CleanupFrees, Frees, Undo, table, tasks
<1>2. Objects' = Objects \ {k} /\ k \in Objects
  <2>1. \A c \in Callers : Holds(call[c]) => call[c].l # k
    BY <1>0, <1>1 DEF OneHolder
  <2>2. k \notin leases
    BY <1>0, <1>1 DEF OneHolder
  <2>3. \A l : l \in Objects' <=> l \in Objects /\ l # k
    BY <1>1, <2>1, <2>2, ObjectsAre
  <2>4. QED
    BY <1>1, <2>3, ObjectsAre
<1>3. agent' \in [Ids -> {"none", "up", "down"}] /\ \A m \in Ids : agent'[m] = "up" => agent[m] = "up" /\ m # k
  BY <1>0, <1>1 DEF LeaseTypeOK
<1>4. LeaseTypeOK'
  BY <1>0, <1>1, <1>3 DEF LeaseTypeOK
<1>5. Known' /\ OneHolder' /\ Unshared' /\ OneLeasePerSession'
  BY <1>0, <1>1 DEF Known, Stopped, OneHolder, Unshared, OneLeasePerSession
<1>6. LimitKept' /\ PortsAccounted'
  BY <1>0, <1>1, <1>2, LimitStays, MarksGone
<1>7. NoStrayAgent'
  BY <1>0, <1>2, <1>3 DEF NoStrayAgent
<1>8. PortsHeld'
  <2>1. \A c \in Callers : CallPort(c)' = CallPort(c)
    BY <1>1 DEF CallPort
  <2>2. /\ LeasePort(k) = lease[k].grpcPort /\ LeasePort(k)' = NoPort
        /\ \A m \in Ids \ {k} : LeasePort(m)' = LeasePort(m)
    BY <1>1, <1>2 DEF LeasePort
  <2>3. \A s \in LeaseSessions : TaskPort(s)' = TaskPort(s)
    BY <1>1 DEF TaskPort
  <2>4. QED
    BY <1>0, <1>1, <2>1, <2>2, <2>3, LeaseGives
<1>9. QED
  BY <1>4, <1>5, <1>6, <1>7, <1>8 DEF LeaseInv

(***************************************************************************)
(* The theorems.                                                           *)
(***************************************************************************)
\* At the start nothing is held.
LEMMA LeaseInvInit == LeaseInit => LeaseInv
<1> SUFFICES ASSUME LeaseInit PROVE LeaseInv
  OBVIOUS
<1> USE DEF LeaseInit
<1>1. NoLease \in LeaseRec /\ NoLease.session = 0
  BY LeaseAssumption DEF NoLease, LeaseRec
<1>2. \A c \in Callers : call[c] = LeaseIdle
  OBVIOUS
<1>3. LeaseTypeOK
  <2>1. lease \in [Ids -> LeaseRec] /\ call \in [Callers -> CallRec] /\ session \in [LeaseSessions -> TaskRec]
    BY <1>1, IdleIs DEF TaskRec
  <2>2. sticky \in [Owners -> AgentPorts \cup {NoPort}] /\ agent \in [Ids -> {"none", "up", "down"}]
    OBVIOUS
  <2>3. created \in 0..MaxLeases /\ started \in 0..MaxLeaseSessions
    BY LeaseAssumption
  <2> HIDE DEF LeaseInit
  <2>4. /\ leases = {} /\ cleaning = {} /\ cleaned = FALSE /\ overlapped = {}
        /\ agentUsed = {} /\ ctrlUsed = {} /\ grpcUsed = {}
    BY DEF LeaseInit
  <2>5. QED
    BY <2>1, <2>2, <2>3, <2>4 DEF LeaseTypeOK, LeaseRec, CallRec, Pcs, TaskRec
<1>4. Objects = {}
  BY <1>2, IdleIs, ObjectsAre
<1>5. Known
  <2>1. \A l \in Ids : lease[l].session = 0
    BY <1>1
  <2>2. \A c \in Callers : call[c].pc = "idle" /\ ~HasSession(call[c]) /\ ~Starts(call[c])
    BY <1>2, IdleIs DEF Starts
  <2>3. QED
    BY <2>1, <2>2 DEF Known
<1>6. OneHolder /\ Unshared /\ OneLeasePerSession
  BY <1>1, <1>2, IdleIs DEF OneHolder, Unshared, OneLeasePerSession
<1>7. LimitKept
  <2>1. ASSUME NEW o \in Owners PROVE Count(o) <= MaxLeasesPerOwner
    <3>1. {l \in leases : lease[l].owner = o} = {}
      OBVIOUS
    <3>2. Cardinality({}) = 0
      BY FS_EmptySet
    <3>3. QED
      BY <3>1, <3>2, LeaseAssumption DEF Count
  <2>2. QED
    BY <2>1 DEF LimitKept
<1>8. PortsAccounted /\ NoStrayAgent
  BY <1>4 DEF PortsAccounted, NoStrayAgent
<1>9. PortsHeld
  <2>1. /\ \A c \in Callers : CallPort(c) = NoPort
        /\ \A s \in LeaseSessions : TaskPort(s) = NoPort
        /\ \A l \in Ids : LeasePort(l) = NoPort
    BY <1>2, <1>4, IdleIs DEF CallPort, TaskPort, LeasePort
  <2>2. \A h \in Holders : holding[h] = NoPort
    BY <2>1 DEF holding, Holders
  <2>3. QED
    BY <2>2 DEF PortsHeld, Accounts
<1>10. QED
  BY <1>3, <1>5, <1>6, <1>7, <1>8, <1>9 DEF LeaseInv

\* No step breaks the invariant.
LEMMA LeaseInvStep == LeaseInv /\ [LeaseNext]_leaseVars => LeaseInv'
<1> SUFFICES ASSUME LeaseInv, [LeaseNext]_leaseVars PROVE LeaseInv'
  OBVIOUS
<1>1. CASE \E c \in Callers : Creating(c)
  BY <1>1, CreateBeginsStep, CreateAllocatesStep, CreateInsertsStep, CreateExhaustedStep, CreateSpawnsStep,
     CreateFailsStep DEF Creating
<1>2. CASE \E c \in Callers : Starting(c)
  BY <1>2, FindsCreatedStep, StartAllocatesStep, StartFailsStep, StartsSessionStep, StartReadyStep,
     StartGivesUpStep, StartUndoneStep, StartAssignsStep DEF Starting
<1>3. CASE \E c \in Callers : Stopping(c)
  BY <1>3, ReadsSessionStep, StopWaitsStep, StopClearsStep, StopFreesStep, ReclaimsStep, ReclaimFreesStep DEF Stopping
<1>4. CASE \E c \in Callers, op \in {"start", "stop", "release"}, l \in Ids : Finds(c, op, l)
  BY <1>4, FindsStep
<1>5. CASE \E s \in LeaseSessions : SessionEnds(s) \/ FinalizeRemoves(s) \/ FinalizeClears(s) \/ FinalizeFrees(s)
  BY <1>5, SessionEndsStep, FinalizeRemovesStep, FinalizeClearsStep, FinalizeFreesStep
<1>6. CASE \E l \in Ids : AgentExits(l) \/ CleanupFrees(l)
  BY <1>6, AgentExitsStep, CleanupFreesStep
<1>7. CASE CleanupProxyLeases
  BY <1>7, CleanupStep
<1>8. CASE UNCHANGED leaseVars
  <2>1. UNCHANGED <<leases, lease, created, sticky, agentUsed, ctrlUsed, grpcUsed, agent, session, started, call,
                    cleaning, cleaned, overlapped>>
    BY <1>8 DEF leaseVars, ports
  <2>2. Objects' = Objects
    BY <2>1, ObjectsAre
  <2>3. LeaseTypeOK' /\ Known' /\ OneHolder' /\ Unshared' /\ OneLeasePerSession'
    BY <2>1 DEF LeaseInv, LeaseTypeOK, Known, Stopped, OneHolder, Unshared, OneLeasePerSession
  <2>4. LimitKept' /\ PortsAccounted' /\ NoStrayAgent'
    BY <2>1, <2>2, LimitStays, MarksStay DEF LeaseInv, NoStrayAgent
  <2>5. PortsHeld'
    BY <2>1, <2>2, PortLease, PortsStay DEF LeaseInv, CallPort, TaskPort
  <2>6. QED
    BY <2>3, <2>4, <2>5 DEF LeaseInv
<1>9. QED
  BY <1>1, <1>2, <1>3, <1>4, <1>5, <1>6, <1>7, <1>8 DEF LeaseNext

\* Session ports are accounted for when each has one holder.
LEMMA HeldIsAccounted == LeaseInv => SessionPortsAccounted
<1> SUFFICES ASSUME LeaseInv PROVE SessionPortsAccounted
  OBVIOUS
<1>0. LeaseTypeOK /\ PortsHeld
  BY DEF LeaseInv
<1>1. \A c \in Callers : HasPort(call[c]) <=> call[c].pc \in {"probe", "wait", "undo", "assign", "free"}
  BY DEF HasPort
<1>2. /\ \A c \in Callers : CallPort(c) \in grpcUsed \cup overlapped \cup {NoPort}
      /\ \A s \in LeaseSessions : TaskPort(s) \in grpcUsed \cup overlapped \cup {NoPort}
      /\ \A l \in Ids : LeasePort(l) \in grpcUsed \cup overlapped \cup {NoPort}
  BY <1>0, HoldingIs DEF PortsHeld, Accounts
<1>3. {lease[l].grpcPort : l \in leases} \cup InHand \subseteq grpcUsed \cup overlapped \cup {NoPort}
  <2>1. \A l \in leases : lease[l].grpcPort \in grpcUsed \cup overlapped \cup {NoPort}
    <3>1. \A l \in leases : l \in Ids /\ l \in Objects
      BY <1>0, ObjectsAre DEF LeaseTypeOK
    <3>2. QED
      BY <1>2, <3>1 DEF LeasePort
  <2>2. \A p \in InHand : p \in grpcUsed \cup overlapped \cup {NoPort}
    BY <1>1, <1>2 DEF InHand, CallPort, TaskPort
  <2>3. QED
    BY <2>1, <2>2
<1>4. ASSUME NEW p \in grpcUsed PROVE p \in {lease[l].grpcPort : l \in Objects} \cup InHand \cup overlapped
  <2>1. CASE p \in overlapped
    BY <2>1
  <2>2. ASSUME NEW h \in Holders, holding[h] = p PROVE p \in {lease[l].grpcPort : l \in Objects} \cup InHand
    <3>1. p # NoPort
      BY <1>0, LeaseAssumption DEF LeaseTypeOK
    <3>2. \/ \E c \in Callers : CallPort(c) = p
          \/ \E s \in LeaseSessions : TaskPort(s) = p
          \/ \E l \in Ids : LeasePort(l) = p
      BY <1>0, <2>2, HoldingIs DEF Holders
    <3>3. CASE \E c \in Callers : CallPort(c) = p
      BY <1>1, <3>1, <3>3 DEF CallPort, InHand
    <3>4. CASE \E s \in LeaseSessions : TaskPort(s) = p
      BY <3>4 DEF TaskPort, InHand
    <3>5. CASE \E l \in Ids : LeasePort(l) = p
      BY <3>1, <3>5 DEF LeasePort
    <3>6. QED
      BY <3>2, <3>3, <3>4, <3>5
  <2>3. QED
    BY <1>0, <2>1, <2>2 DEF PortsHeld, Accounts
<1>5. QED
  BY <1>3, <1>4 DEF SessionPortsAccounted

\* What a lease holds is held exactly as long as the lease is there, and no owner
\* has more leases than the limit, whatever calls, sessions and shutdown interleave.
THEOREM ResourcesSafe == LeaseSpec => []ResourcesAccounted
<1>1. LeaseInv => ResourcesAccounted
  BY HeldIsAccounted DEF LeaseInv, ResourcesAccounted
<1>2. QED
  BY <1>1, LeaseInvInit, LeaseInvStep, PTL DEF LeaseSpec

\* The code takes a session from a lease in three places: clearLeaseCapture, called by
\* a Stop and by a finalizer, and the next start.
LEMMA ClearsWhat ==
    ASSUME LeaseInv, [LeaseNext]_leaseVars
    PROVE  \A l \in Ids : lease[l].session # 0 /\ lease'[l].session = 0 => Stopped(lease[l].session)
<1>0. LeaseTypeOK /\ Known
  BY DEF LeaseInv
<1>1. CASE UNCHANGED lease
  BY <1>1
<1>2. ASSUME NEW c \in Callers, NEW b \in BOOLEAN, CreateAllocates(c, b)
      PROVE  \A l \in Ids : lease[l].session # 0 => lease'[l] = lease[l]
  <2>1. created \in Nat
    BY <1>0 DEF LeaseTypeOK
  <2>2. PICK k \in Ids : k = created + 1
    BY <1>2 DEF CreateAllocates
  <2>3. lease[k].session = 0
    BY <1>0, <2>1, <2>2 DEF Known
  <2>4. \E n : lease' = [lease EXCEPT ![k] = n]
    BY <1>2, <2>2 DEF CreateAllocates
  <2>5. \A l \in Ids \ {k} : lease'[l] = lease[l]
    BY <1>0, <2>4 DEF LeaseTypeOK
  <2>6. QED
    BY <2>3, <2>5
<1>3. ASSUME NEW c \in Callers, StartAssigns(c)
      PROVE  \A l \in Ids : lease'[l] = lease[l] \/ lease'[l].session # 0
  <2>1. call[c].s # 0
    BY <1>0, <1>3 DEF StartAssigns, At, Known, HasSession
  <2>2. \A l \in Ids : lease[l] \in LeaseRec
    BY <1>0 DEF LeaseTypeOK, LeaseRec
  <2>3. lease' = [lease EXCEPT ![call[c].l].session = call[c].s, ![call[c].l].grpcPort = call[c].port]
    BY <1>3 DEF StartAssigns
  <2>4. \A l \in Ids : l # call[c].l => lease'[l] = lease[l]
    BY <1>0, <2>3 DEF LeaseTypeOK
  <2>5. \A l \in Ids : l = call[c].l => lease'[l].session = call[c].s
    BY <1>0, <2>2, <2>3 DEF LeaseTypeOK, LeaseRec
  <2>6. QED
    BY <2>1, <2>4, <2>5
<1>4. ASSUME NEW c \in Callers, StopClears(c)
      PROVE  \A l \in Ids : lease'[l] = lease[l] \/ Stopped(lease[l].session)
  <2>1. Stopped(call[c].s)
    BY <1>0, <1>4 DEF StopClears, At, Known
  <2>2. UNCHANGED lease \/ lease' = Cleared(call[c].s)
    BY <1>4 DEF StopClears
  <2>3. QED
    BY <2>1, <2>2 DEF Cleared, Capturing
<1>5. ASSUME NEW s \in LeaseSessions, FinalizeClears(s)
      PROVE  \A l \in Ids : lease'[l] = lease[l] \/ Stopped(lease[l].session)
  <2>1. Stopped(s)
    BY <1>5 DEF FinalizeClears, Stopped
  <2>2. UNCHANGED lease \/ lease' = Cleared(s)
    BY <1>5 DEF FinalizeClears
  <2>3. QED
    BY <2>1, <2>2 DEF Cleared, Capturing
<1>6. \/ UNCHANGED lease
      \/ \E c \in Callers, b \in BOOLEAN : CreateAllocates(c, b)
      \/ \E c \in Callers : StartAssigns(c) \/ StopClears(c)
      \/ \E s \in LeaseSessions : FinalizeClears(s)
  <2>1. CASE \E c \in Callers : Creating(c)
    BY <2>1 DEF Creating, CreateBegins, CreateInserts, CreateExhausted, CreateSpawns, CreateFails, table
  <2>2. CASE \E c \in Callers : Starting(c)
    BY <2>2 DEF Starting, FindsCreated, StartAllocates, StartFails, StartsSession, StartReady, StartGivesUp,
       StartUndone, table
  <2>3. CASE \E c \in Callers : Stopping(c)
    BY <2>3 DEF Stopping, ReadsSession, StopWaits, StopFrees, Reclaims, ReclaimFrees, table
  <2>4. CASE \/ \E c \in Callers, op \in {"start", "stop", "release"}, l \in Ids : Finds(c, op, l)
             \/ \E s \in LeaseSessions : SessionEnds(s) \/ FinalizeRemoves(s) \/ FinalizeClears(s) \/ FinalizeFrees(s)
             \/ \E l \in Ids : AgentExits(l) \/ CleanupFrees(l)
             \/ CleanupProxyLeases
    BY <2>4 DEF Finds, SessionEnds, FinalizeRemoves, FinalizeFrees, AgentExits, CleanupFrees, CleanupProxyLeases, table
  <2>5. CASE UNCHANGED leaseVars
    BY <2>5 DEF leaseVars
  <2>6. QED
    BY <2>1, <2>2, <2>3, <2>4, <2>5 DEF LeaseNext
<1>7. QED
  BY <1>1, <1>2, <1>3, <1>4, <1>5, <1>6

\* A lease stops naming a session only when the session's task is gone.
THEOREM ClearedSafe == LeaseSpec => ClearedWhenEnded
<1>1. LeaseInv /\ [LeaseNext]_leaseVars
        => [\A l \in Ids : lease[l].session # 0 /\ lease'[l].session = 0 => Stopped(lease[l].session)]_leaseVars
  BY ClearsWhat
<1>2. QED
  BY <1>1, LeaseInvInit, LeaseInvStep, PTL DEF LeaseSpec, ClearedWhenEnded
=============================================================================
