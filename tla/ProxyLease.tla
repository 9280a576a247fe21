----------------------------- MODULE ProxyLease -----------------------------
(***************************************************************************)
(* Proxy leases of the pipeline: a resident agent process with a fixed      *)
(* CONNECT and a fixed control port, on which capture sessions, each with a *)
(* port of its own, are started and stopped.  API calls run concurrently;   *)
(* leaseMu is held only for single steps, never while a call waits for a    *)
(* process, a session or the agent, so calls on one lease interleave.       *)
(*                                                                          *)
(* A lease object has its ports from the moment they are allocated; it is   *)
(* in the table from CreateInserts to Reclaims.  allocate takes any free    *)
(* port (the code's cursor rotates over them).                              *)
(***************************************************************************)
EXTENDS Integers, FiniteSets

CONSTANTS
    Callers,            \* concurrent API calls
    Owners,             \* an owner has one device
    AgentPorts, CtrlPorts, GrpcPorts, NoPort,
    MaxLeasesPerOwner,
    MaxLeases,          \* bound: lease objects in a behaviour
    MaxLeaseSessions         \* bound: capture sessions in a behaviour

ASSUME LeaseAssumption ==
    /\ NoPort \notin AgentPorts \cup CtrlPorts \cup GrpcPorts /\ Owners # {}
    /\ MaxLeasesPerOwner \in Nat \ {0} /\ MaxLeases \in Nat /\ MaxLeaseSessions \in Nat

VARIABLES
    leases,      \* pipelineService.leases
    lease,       \* lease object -> [owner, agentPort, ctrlPort, grpcPort, session]
    created,     \* lease objects made so far
    sticky,      \* stickyPorts: owner -> port
    agentUsed, ctrlUsed, grpcUsed,
    agent,       \* lease object -> its process: "none", "up", "down"
    session,     \* session -> [st, frees]: its task, and the port finalizeTask releases
    started,     \* sessions started so far
    call,        \* caller -> [pc, op, l, port, s] of the API call it is in
    cleaning,    \* leases CleanupProxyLeases has taken from the table
    cleaned,     \* the pipeline is shutting down
    overlapped   \* history: ports whose session lost its lease to another call

ports == <<agentUsed, ctrlUsed, grpcUsed>>
leaseVars == <<leases, lease, created, sticky, ports, agent, session, started, call, cleaning, cleaned, overlapped>>

Ids == 1..MaxLeases
LeaseSessions == 1..MaxLeaseSessions
NoLease == [owner |-> CHOOSE o \in Owners : TRUE, agentPort |-> NoPort, ctrlPort |-> NoPort, grpcPort |-> NoPort, session |-> 0]
LeaseIdle == [pc |-> "idle", op |-> "none", owner |-> NoLease.owner, l |-> 0, port |-> NoPort, s |-> 0]

LeaseInit ==
    /\ leases = {} /\ lease = [l \in Ids |-> NoLease] /\ created = 0
    /\ sticky = [o \in Owners |-> NoPort]
    /\ agentUsed = {} /\ ctrlUsed = {} /\ grpcUsed = {}
    /\ agent = [l \in Ids |-> "none"]
    /\ session = [s \in LeaseSessions |-> [st |-> "none", frees |-> NoPort]] /\ started = 0
    /\ call = [c \in Callers |-> LeaseIdle]
    /\ cleaning = {} /\ cleaned = FALSE /\ overlapped = {}

At(c, pc) == call[c].pc = pc
Goes(c, pc) == call' = [call EXCEPT ![c].pc = pc]
LeaseReturns(c) == call' = [call EXCEPT ![c] = LeaseIdle]
Count(o) == Cardinality({l \in leases : lease[l].owner = o})

table == <<leases, lease, created, sticky>>
tasks == <<session, started>>
rest == <<cleaning, cleaned, overlapped>>

-----------------------------------------------------------------------------
(* CreateProxyLease *)

CreateBegins(c, o) ==
    /\ At(c, "idle") /\ Count(o) < MaxLeasesPerOwner /\ created < MaxLeases
    /\ call' = [call EXCEPT ![c].pc = "allocate", ![c].owner = o]
    /\ UNCHANGED <<table, ports, agent, tasks, rest>>

(* The port remembered for the device if it is free, else a free one; none  *)
(* when the range is used up, which is not an error.                        *)
allocateAgentPortLocked(o, noSticky) ==
    LET free == AgentPorts \ agentUsed
    IN  IF ~noSticky /\ sticky[o] \in free THEN {sticky[o]}
        ELSE IF free = {} THEN {NoPort} ELSE free

Marked(p) == {p} \ {NoPort}

CreateAllocates(c, noSticky) ==
    LET l == created + 1
    IN  /\ At(c, "allocate") /\ l \in Ids
        /\ \E p \in allocateAgentPortLocked(call[c].owner, noSticky), q \in CtrlPorts \ ctrlUsed :
             /\ agentUsed' = agentUsed \cup Marked(p) /\ ctrlUsed' = ctrlUsed \cup {q}
             /\ lease' = [lease EXCEPT ![l] = [NoLease EXCEPT !.owner = call[c].owner, !.agentPort = p, !.ctrlPort = q]]
        /\ created' = l
        /\ call' = [call EXCEPT ![c].pc = "spawn", ![c].l = l]
        /\ UNCHANGED <<leases, sticky, grpcUsed, agent, tasks, rest>>

(* No control port: the agent port goes back before the lock is released.   *)
CreateExhausted(c) ==
    /\ At(c, "allocate") /\ CtrlPorts \subseteq ctrlUsed
    /\ LeaseReturns(c)
    /\ UNCHANGED <<table, ports, agent, tasks, rest>>

CreateSpawns(c) ==
    /\ At(c, "spawn")
    /\ agent' = [agent EXCEPT ![call[c].l] = "up"]
    /\ Goes(c, "insert")
    /\ UNCHANGED <<table, ports, tasks, rest>>

(* stop the process and releasePorts *)
Undo_KeepsCtrlPort(l) ==
    /\ agentUsed' = agentUsed \ {lease[l].agentPort} /\ UNCHANGED ctrlUsed
    /\ agent' = [agent EXCEPT ![l] = "down"]
Undo(l) ==
    /\ agentUsed' = agentUsed \ {lease[l].agentPort} /\ ctrlUsed' = ctrlUsed \ {lease[l].ctrlPort}
    /\ agent' = [agent EXCEPT ![l] = "down"]

(* A port that cannot be bound, a process that does not start or exits, a   *)
(* control port that does not answer, or the limit reached meanwhile.       *)
CreateFails(c) ==
    /\ call[c].pc \in {"spawn", "insert", "reject"}
    /\ Undo(call[c].l)
    /\ LeaseReturns(c)
    /\ UNCHANGED <<table, grpcUsed, tasks, rest>>

OverLimit(o) == Count(o) >= MaxLeasesPerOwner

(* The limit is checked again; the lease is entered, and unless the request *)
(* says NoAutoStart the call goes on as StartLeaseCapture.                  *)
CreateInserts(c, auto) ==
    LET l == call[c].l
        o == lease[l].owner
    IN  /\ At(c, "insert")
        /\ IF OverLimit(o)
           THEN Goes(c, "reject") /\ UNCHANGED <<leases, sticky>>
           ELSE /\ leases' = leases \cup {l} /\ sticky' = [sticky EXCEPT ![o] = lease[l].agentPort]
                /\ call' = [call EXCEPT ![c] = IF auto THEN [@ EXCEPT !.pc = "find", !.op = "start"] ELSE LeaseIdle]
        /\ UNCHANGED <<lease, created, ports, agent, tasks, rest>>

-----------------------------------------------------------------------------
(* StartLeaseCapture *)

(* getLeaseForOwner, the first step of Start, Stop and Release. *)
Finds(c, op, l) ==
    /\ At(c, "idle") /\ l \in leases
    /\ call' = [call EXCEPT ![c].pc = "found", ![c].op = op, ![c].l = l]
    /\ UNCHANGED <<table, ports, agent, tasks, rest>>

FindsCreated(c) ==
    /\ At(c, "find")
    /\ IF call[c].l \in leases THEN Goes(c, "found") ELSE LeaseReturns(c)
    /\ UNCHANGED <<table, ports, agent, tasks, rest>>

MayStart(l) == lease[l].session = 0 /\ agent[l] = "up" /\ grpcUsed # GrpcPorts

StartAllocates(c) ==
    /\ At(c, "found") /\ call[c].op = "start"
    /\ IF MayStart(call[c].l)
       THEN \E p \in GrpcPorts \ grpcUsed :
              /\ grpcUsed' = grpcUsed \cup {p}
              /\ call' = [call EXCEPT ![c].pc = "probe", ![c].port = p]
       ELSE LeaseReturns(c) /\ UNCHANGED grpcUsed
    /\ UNCHANGED <<table, agentUsed, ctrlUsed, agent, tasks, rest>>

(* The port cannot be bound, or StartSession fails: rollback. *)
StartFails(c) ==
    /\ At(c, "probe")
    /\ grpcUsed' = grpcUsed \ {call[c].port}
    /\ LeaseReturns(c)
    /\ UNCHANGED <<table, agentUsed, ctrlUsed, agent, tasks, rest>>

StartsSession(c) ==
    /\ At(c, "probe") /\ started < MaxLeaseSessions
    /\ started' = started + 1
    /\ session' = [session EXCEPT ![started + 1].st = "running"]
    /\ call' = [call EXCEPT ![c].pc = "wait", ![c].s = started + 1]
    /\ UNCHANGED <<table, ports, agent, rest>>

(* waitMobileReady, and the agent is told to send to the new session. *)
StartReady(c) ==
    /\ At(c, "wait") /\ session[call[c].s].st = "running" /\ agent[call[c].l] = "up"
    /\ Goes(c, "assign")
    /\ UNCHANGED <<table, ports, agent, tasks, rest>>

(* Not ready in time, or the agent does not answer: stopSessionQuiet. *)
StartGivesUp(c) ==
    /\ At(c, "wait")
    /\ Goes(c, "undo")
    /\ UNCHANGED <<table, ports, agent, tasks, rest>>

(* StopSession returns when the task is gone; the port is released after it.*)
Stopped(s) == session[s].st \in {"removed", "clearing", "done"}
StartUndone_KeepsPort(c) ==
    /\ At(c, "undo") /\ Stopped(call[c].s)
    /\ LeaseReturns(c)
    /\ UNCHANGED <<table, ports, agent, tasks, rest>>
StartUndone(c) ==
    /\ At(c, "undo") /\ Stopped(call[c].s)
    /\ grpcUsed' = grpcUsed \ {call[c].port}
    /\ LeaseReturns(c)
    /\ UNCHANGED <<table, agentUsed, ctrlUsed, agent, tasks, rest>>

(* The lease gets the session, whatever has happened to it meanwhile. *)
StartAssigns(c) ==
    LET l == call[c].l
    IN  /\ At(c, "assign")
        /\ lease' = [lease EXCEPT ![l].session = call[c].s, ![l].grpcPort = call[c].port]
        /\ overlapped' = overlapped \cup ({lease[l].grpcPort} \ {NoPort})
                                    \cup (IF l \in leases THEN {} ELSE {call[c].port})
        /\ LeaseReturns(c)
        /\ UNCHANGED <<leases, created, sticky, ports, agent, tasks, cleaning, cleaned>>

-----------------------------------------------------------------------------
(* StopLeaseCapture and ReleaseProxyLease *)

ReadsSession(c) ==
    LET s == lease[call[c].l].session
    IN  /\ At(c, "found") /\ call[c].op \in {"stop", "release"}
        /\ call' = [call EXCEPT ![c] = IF s # 0 THEN [@ EXCEPT !.pc = "stopping", !.s = s]
                                       ELSE IF call[c].op = "stop" THEN LeaseIdle ELSE [@ EXCEPT !.pc = "reclaim"]]
        /\ UNCHANGED <<table, ports, agent, tasks, rest>>

(* The agent is told to stop, an error is ignored; then StopSession, whose  *)
(* wait the request's deadline may end, and with it the call.               *)
StopWaits(c) ==
    /\ At(c, "stopping")
    /\ \/ Stopped(call[c].s) /\ Goes(c, IF call[c].op = "stop" THEN "clear" ELSE "reclaim")
       \/ session[call[c].s].st # "done" /\ LeaseReturns(c)
    /\ UNCHANGED <<table, ports, agent, tasks, rest>>

(* clearLeaseCapture: the leases in the table with this session. *)
Capturing_Any(s) == {l \in leases : lease[l].session # 0}
Capturing(s) == {l \in leases : lease[l].session = s}
Cleared(s) ==
    [l \in Ids |-> IF l \in Capturing(s) THEN [lease[l] EXCEPT !.session = 0, !.grpcPort = NoPort] ELSE lease[l]]

StopClears(c) ==
    /\ At(c, "clear")
    /\ IF Capturing(call[c].s) = {}
       THEN LeaseReturns(c) /\ UNCHANGED lease
       ELSE \E l \in Capturing(call[c].s) :
              /\ lease' = Cleared(call[c].s)
              /\ call' = [call EXCEPT ![c].pc = "free", ![c].port = lease[l].grpcPort]
    /\ UNCHANGED <<leases, created, sticky, ports, agent, tasks, rest>>

StopFrees(c) ==
    /\ At(c, "free")
    /\ grpcUsed' = grpcUsed \ {call[c].port}
    /\ LeaseReturns(c)
    /\ UNCHANGED <<table, agentUsed, ctrlUsed, agent, tasks, rest>>

(* reclaimLease: only the call that takes the lease from the table goes on. *)
Reclaims(c) ==
    /\ At(c, "reclaim")
    /\ leases' = leases \ {call[c].l}
    /\ IF call[c].l \in leases THEN Goes(c, "reclaimed") ELSE LeaseReturns(c)
    /\ UNCHANGED <<lease, created, sticky, ports, agent, tasks, rest>>

(* The process is stopped, and all ports of the lease are released. *)
Frees(l) ==
    /\ Undo(l)
    /\ grpcUsed' = grpcUsed \ {lease[l].grpcPort}

ReclaimFrees(c) ==
    /\ At(c, "reclaimed")
    /\ Frees(call[c].l)
    /\ LeaseReturns(c)
    /\ UNCHANGED <<table, tasks, rest>>

-----------------------------------------------------------------------------
(* LeaseSessions, agents and shutdown *)

(* A task ends, by itself or cancelled. *)
SessionEnds(s) ==
    /\ session[s].st = "running"
    /\ session' = [session EXCEPT ![s].st = "closing"]
    /\ UNCHANGED <<table, ports, agent, started, call, rest>>

(* finalizeTask: removeTask, then clearLeaseCapture. *)
FinalizeRemoves(s) ==
    /\ session[s].st = "closing"
    /\ session' = [session EXCEPT ![s].st = "removed"]
    /\ UNCHANGED <<table, ports, agent, started, call, rest>>

FinalizeClears(s) ==
    /\ session[s].st = "removed"
    /\ IF Capturing(s) = {}
       THEN session' = [session EXCEPT ![s].st = "done"] /\ UNCHANGED lease
       ELSE \E l \in Capturing(s) :
              /\ lease' = Cleared(s)
              /\ session' = [session EXCEPT ![s] = [st |-> "clearing", frees |-> lease[l].grpcPort]]
    /\ UNCHANGED <<leases, created, sticky, ports, agent, started, call, rest>>

FinalizeFrees(s) ==
    /\ session[s].st = "clearing"
    /\ grpcUsed' = grpcUsed \ {session[s].frees}
    /\ session' = [session EXCEPT ![s] = [st |-> "done", frees |-> NoPort]]
    /\ UNCHANGED <<table, agentUsed, ctrlUsed, agent, started, call, rest>>

AgentExits(l) ==
    /\ agent[l] = "up"
    /\ agent' = [agent EXCEPT ![l] = "down"]
    /\ UNCHANGED <<table, ports, tasks, call, rest>>

(* On shutdown; calls that are under way still finish. *)
CleanupProxyLeases ==
    /\ ~cleaned
    /\ cleaned' = TRUE /\ cleaning' = leases /\ leases' = {}
    /\ UNCHANGED <<lease, created, sticky, ports, agent, tasks, call, overlapped>>

CleanupFrees(l) ==
    /\ l \in cleaning
    /\ cleaning' = cleaning \ {l}
    /\ Frees(l)
    /\ UNCHANGED <<table, tasks, call, cleaned, overlapped>>

Creating(c) ==
    \/ \E o \in Owners : CreateBegins(c, o)
    \/ \E b \in BOOLEAN : CreateAllocates(c, b) \/ CreateInserts(c, b)
    \/ CreateExhausted(c) \/ CreateSpawns(c) \/ CreateFails(c)
Starting(c) ==
    \/ FindsCreated(c) \/ StartAllocates(c) \/ StartFails(c) \/ StartsSession(c) \/ StartReady(c)
    \/ StartGivesUp(c) \/ StartUndone(c) \/ StartAssigns(c)
Stopping(c) ==
    \/ ReadsSession(c) \/ StopWaits(c) \/ StopClears(c) \/ StopFrees(c)
    \/ Reclaims(c) \/ ReclaimFrees(c)

LeaseNext ==
    \/ \E c \in Callers : \/ \E op \in {"start", "stop", "release"}, l \in Ids : Finds(c, op, l)
                          \/ Creating(c) \/ Starting(c) \/ Stopping(c)
    \/ \E s \in LeaseSessions : SessionEnds(s) \/ FinalizeRemoves(s) \/ FinalizeClears(s) \/ FinalizeFrees(s)
    \/ \E l \in Ids : AgentExits(l) \/ CleanupFrees(l)
    \/ CleanupProxyLeases

LeaseSpec == LeaseInit /\ [][LeaseNext]_leaseVars

-----------------------------------------------------------------------------
(* Properties *)

(* The type invariant. *)
LeaseTypeOK ==
    /\ leases \subseteq Ids /\ cleaning \subseteq Ids /\ cleaned \in BOOLEAN /\ overlapped \subseteq GrpcPorts
    /\ lease \in [Ids -> [owner : Owners, agentPort : AgentPorts \cup {NoPort}, ctrlPort : CtrlPorts \cup {NoPort},
                          grpcPort : GrpcPorts \cup {NoPort}, session : 0..MaxLeaseSessions]]
    /\ created \in 0..MaxLeases /\ started \in 0..MaxLeaseSessions /\ sticky \in [Owners -> AgentPorts \cup {NoPort}]
    /\ agentUsed \subseteq AgentPorts /\ ctrlUsed \subseteq CtrlPorts /\ grpcUsed \subseteq GrpcPorts
    /\ agent \in [Ids -> {"none", "up", "down"}]
    /\ session \in [LeaseSessions -> [st : {"none", "running", "closing", "removed", "clearing", "done"},
                                 frees : GrpcPorts \cup {NoPort}]]
    /\ call \in [Callers -> [pc : {"idle", "allocate", "spawn", "insert", "reject", "find", "found",
                                   "probe", "wait", "undo", "assign", "stopping", "clear",
                                   "free", "reclaim", "reclaimed"},
                             op : {"none", "start", "stop", "release"}, owner : Owners,
                             l : 0..MaxLeases, port : GrpcPorts \cup {NoPort}, s : 0..MaxLeaseSessions]]

(* Concurrent creations never give an owner more leases than the limit      *)
(* (proxy_lease.go:259, 335): the count is taken before the slow steps and  *)
(* again when the lease is entered.                                         *)
LimitKept == \A o \in Owners : Count(o) <= MaxLeasesPerOwner

(* The lease objects that still own a process and its two ports. *)
Making(c) == call[c].pc \in {"spawn", "insert", "reject"}
Objects == leases \cup cleaning \cup {call[c].l : c \in {x \in Callers : Making(x) \/ At(x, "reclaimed")}}

(* A CONNECT or control port is marked used exactly while one lease, or one *)
(* call that makes or takes down a lease, has it: every error path gives    *)
(* its ports back, none gives back another's, and no two leases share one.  *)
PortsAccounted ==
    /\ agentUsed = {lease[l].agentPort : l \in Objects} \ {NoPort}
    /\ ctrlUsed = {lease[l].ctrlPort : l \in Objects}
    /\ \A l, m \in Objects : l # m => /\ lease[l].ctrlPort # lease[m].ctrlPort
                                      /\ lease[l].agentPort # lease[m].agentPort \/ lease[l].agentPort = NoPort

(* No agent process outlives its lease: reclaimLease, the cleanup and every *)
(* failed creation stop it.                                                 *)
NoStrayAgent == \A l \in Ids : agent[l] = "up" => l \in Objects


(* The session ports calls and finalizers have in hand. *)
InHand ==
    {call[c].port : c \in {x \in Callers : call[x].pc \in {"probe", "wait", "undo", "assign", "free"}}}
    \cup {session[s].frees : s \in LeaseSessions}

(* A session port is marked used while a call or a lease has it, and comes  *)
(* back when they are done, unless the lease was given to another session   *)
(* or removed while the session was being started.                          *)
SessionPortsAccounted ==
    /\ {lease[l].grpcPort : l \in leases} \cup InHand \subseteq grpcUsed \cup overlapped \cup {NoPort}
    /\ grpcUsed \subseteq {lease[l].grpcPort : l \in Objects} \cup InHand \cup overlapped

(* What a lease holds is held exactly as long as the lease is there, and no *)
(* owner has more leases than the limit.                                    *)
ResourcesAccounted == LeaseTypeOK /\ LimitKept /\ PortsAccounted /\ NoStrayAgent /\ SessionPortsAccounted

(* A lease stops naming a session, other than for a new one, only when the  *)
(* task of that session is gone: a late Stop or a finalizer of an earlier   *)
(* session never clears the present one (proxy_lease.go:701-703).           *)
ClearedWhenEnded ==
    [][\A l \in Ids : lease[l].session # 0 /\ lease'[l].session = 0 => Stopped(lease[l].session)]_leaseVars
=============================================================================
