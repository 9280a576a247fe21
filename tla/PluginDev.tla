----------------------------- MODULE PluginDev -----------------------------
(***************************************************************************)
(* The Developer Plane, for one plugin: its sources and binary on disk, the*)
(* processes it launched, the Tracker with the last attempt and what       *)
(* explains it, and what the Runtime Plane (gt-pipeline) sees of it: the   *)
(* registered instance and the proof of a verify.                          *)
(*                                                                         *)
(* The Tracker is a package variable, so each process has its own: status, *)
(* build and explain use that of the process that serves plugindev, gt-mcp *)
(* or gt-plugin-dev; verify runs in gt-pipeline and uses that one's.       *)
(*                                                                         *)
(* Calls overlap; a launched process may exit at any time.                 *)
(***************************************************************************)
EXTENDS Integers, Sequences

CONSTANTS
    DevCallers,     \* tool calls that may overlap
    MaxAttempts,    \* bound: attempts recorded
    MaxLaunches,    \* bound: processes launched
    MaxEdits,       \* bound: edits of the sources
    MaxInstances    \* bound: times a process registers

VARIABLES
    source,         \* version of the sources, 0 when there are none
    binary,         \* [from: the version it was built from, 0 when missing; stale: a source is newer]
    launched,       \* pid -> [killed: by Deactivate, exited, waiting: its goroutine runs]
    tracked,        \* Tracker.procs: a pid or 0
    attempts,       \* all attempts; Tracker.lastTry is the last
    lastExplain,    \* Tracker.lastExplain: of which attempt
    devProof,       \* Tracker.validated where status looks
    runProof,       \* Tracker.validated in gt-pipeline: version verified, 0 when none
    instance,       \* the registered instance: pid, or 0
    registrations,  \* how often one has registered
    dev,            \* the calls in progress
    sequential      \* ghost: activate and deactivate never overlapped one another

devVars == <<source, binary, launched, tracked, attempts, lastExplain, devProof, runProof, instance, registrations, dev, sequential>>

onDisk == <<source, binary>>
tracker == <<tracked, attempts, lastExplain, devProof>>
runtime == <<runProof, instance, registrations>>

NoDev == [op |-> "none", at |-> "idle", pid |-> 0, from |-> 0, about |-> 0]
SetDev(c, r) == dev' = [dev EXCEPT ![c] = r]
MovesTo(c, at) == SetDev(c, [dev[c] EXCEPT !.at = at])
Finishes(c) == SetDev(c, NoDev)
Toggles(op) == op \in {"activate", "deactivate"}

DevInit ==
    /\ source = 0 /\ binary = [from |-> 0, stale |-> FALSE]
    /\ launched = <<>> /\ tracked = 0
    /\ attempts = <<>> /\ lastExplain = 0
    /\ devProof = 0 /\ runProof = 0 /\ instance = 0 /\ registrations = 0
    /\ dev = [c \in DevCallers |-> NoDev]
    /\ sequential = TRUE

-----------------------------------------------------------------------------
(* The tracker *)

\* recordAttempt: ref is the attempt its explanation is about.
recordAttempt(action, ok, msg) ==
    /\ Len(attempts) < MaxAttempts
    /\ attempts' = Append(attempts, [action |-> action, ok |-> ok, msg |-> msg, ref |-> 0])

LastAttempt == Len(attempts)

\* What an explanation says, by the action and its message.
explainActivate(msg) ==
    CASE msg = "no-binary" -> "binary-missing"
      [] msg = "exited" -> "process-crash"
      [] msg = "already-active" -> "already-active"
      [] msg = "start-failed" -> "start-failed"
explainBuild(msg) == IF msg = "no-diagnostics" THEN "build-no-errors" ELSE "compile-error"
Category(a) == IF a.ok THEN "nothing"
               ELSE IF a.action = "build" THEN explainBuild(a.msg)
               ELSE IF a.action = "activate" THEN explainActivate(a.msg) ELSE "other"

\* Explain takes the last attempt, and then writes its reference into the attempt
\* it took; a success gets no reference.
ExplainTarget(c) == dev[c].about
ExplainReads(c) ==
    /\ dev[c].at = "explain"
    /\ IF LastAttempt = 0 THEN Finishes(c)
       ELSE SetDev(c, [dev[c] EXCEPT !.at = "wires", !.about = LastAttempt])
    /\ UNCHANGED <<onDisk, launched, tracker, runtime, sequential>>
ExplainWires(c) ==
    LET a == ExplainTarget(c) IN
    /\ dev[c].at = "wires"
    /\ attempts' = IF Category(attempts[dev[c].about]) = "nothing" THEN attempts
                   ELSE [attempts EXCEPT ![a].ref = dev[c].about]
    /\ lastExplain' = dev[c].about
    /\ Finishes(c)
    /\ UNCHANGED <<onDisk, launched, tracked, devProof, runtime, sequential>>

-----------------------------------------------------------------------------
(* Tool calls *)

Begins(c, op) ==
    /\ dev[c] = NoDev /\ Len(attempts) < MaxAttempts
    /\ SetDev(c, [NoDev EXCEPT !.op = op, !.at = IF op = "explain" THEN "explain" ELSE "begin", !.from = IF op = "build" THEN source ELSE 0])
    /\ sequential' = (sequential /\ (Toggles(op) => \A o \in DevCallers : ~Toggles(dev[o].op)))
    /\ UNCHANGED <<onDisk, launched, tracker, runtime>>

\* Scaffold writes its three files over those that are there; an edit changes one.
Scaffold ==
    /\ source < MaxEdits
    /\ source' = source + 1
    /\ binary' = [binary EXCEPT !.stale = binary.from # 0]
    /\ UNCHANGED <<launched, tracker, runtime, dev, sequential>>

\* go build: the sources as they were when it began, the binary's time when it ends.
BuildSucceeds(c) ==
    /\ dev[c].op = "build" /\ dev[c].at = "begin" /\ dev[c].from # 0
    /\ binary' = [from |-> dev[c].from, stale |-> FALSE]
    /\ recordAttempt("build", TRUE, "")
    /\ MovesTo(c, "clears")
    /\ UNCHANGED <<source, launched, tracked, lastExplain, devProof, runtime, sequential>>
\* RecordBuild forgets the proof in a second critical section.
BuildClears(c) ==
    /\ dev[c].at = "clears" /\ devProof' = 0
    /\ Finishes(c)
    /\ UNCHANGED <<onDisk, launched, tracked, attempts, lastExplain, runtime, sequential>>
\* Diagnostics, a timeout or no project at all; the failure is explained at once.
BuildFails(c) ==
    /\ dev[c].op = "build" /\ dev[c].at = "begin"
    /\ recordAttempt("build", FALSE, IF source = 0 THEN "no-diagnostics" ELSE "diagnostics")
    /\ MovesTo(c, "explain")
    /\ UNCHANGED <<onDisk, launched, tracked, lastExplain, devProof, runtime, sequential>>

\* recordActivateFail.
recordActivateFail(c, msg) == recordAttempt("activate", FALSE, msg) /\ MovesTo(c, "explain")

\* Activate looks for the binary and for a process that is still alive.
ActivateChecks(c) ==
    /\ dev[c].op = "activate" /\ dev[c].at = "begin"
    /\ IF binary.from = 0 THEN recordActivateFail(c, "no-binary")
       ELSE IF tracked # 0 /\ ~launched[tracked].exited THEN recordActivateFail(c, "already-active")
       ELSE MovesTo(c, "starts") /\ UNCHANGED attempts
    /\ UNCHANGED <<onDisk, launched, tracked, lastExplain, devProof, runtime, sequential>>
\* cmd.Start and trackProc, which replaces what was tracked.
ActivateLaunches(c) ==
    /\ dev[c].op = "activate" /\ dev[c].at = "starts"
    /\ \/ /\ recordActivateFail(c, "start-failed")
          /\ UNCHANGED <<launched, tracked>>
       \/ /\ Len(launched) < MaxLaunches
          /\ launched' = Append(launched, [killed |-> FALSE, exited |-> FALSE, waiting |-> TRUE])
          /\ tracked' = Len(launched) + 1
          /\ SetDev(c, [dev[c] EXCEPT !.at = "gate", !.pid = Len(launched) + 1])
          /\ UNCHANGED attempts
    /\ UNCHANGED <<onDisk, lastExplain, devProof, runtime, sequential>>
\* The liveness gate, right after the start and again later.
ActivateGate(c) ==
    /\ dev[c].op = "activate" /\ dev[c].at = "gate"
    /\ IF launched[dev[c].pid].exited THEN recordActivateFail(c, "exited")
       ELSE recordAttempt("activate", TRUE, "") /\ MovesTo(c, "integrates")
    /\ UNCHANGED <<onDisk, launched, tracked, lastExplain, devProof, runtime, sequential>>
\* verifyPluginIntegration: whether an instance of that name is registered, or the
\* poll runs out.
verifyPluginIntegration(c) ==
    /\ dev[c].at = "integrates"
    /\ Finishes(c)
    /\ UNCHANGED <<onDisk, launched, tracker, runtime, sequential>>

\* Deactivate takes the tracked process; a kill fails once Wait has returned.
DeactivateReads(c) ==
    /\ dev[c].op = "deactivate" /\ dev[c].at = "begin"
    /\ IF tracked = 0 THEN recordAttempt("deactivate", FALSE, "no-process") /\ MovesTo(c, "deregisters")
       ELSE SetDev(c, [dev[c] EXCEPT !.at = "kills", !.pid = tracked]) /\ UNCHANGED attempts
    /\ UNCHANGED <<onDisk, launched, tracked, lastExplain, devProof, runtime, sequential>>
DeactivateKills(c) ==
    LET p == dev[c].pid IN
    /\ dev[c].op = "deactivate" /\ dev[c].at = "kills"
    /\ IF launched[p].exited
       THEN recordAttempt("deactivate", FALSE, "kill-failed") /\ MovesTo(c, "deregisters") /\ UNCHANGED launched
       ELSE launched' = [launched EXCEPT ![p].killed = TRUE] /\ MovesTo(c, "drops") /\ UNCHANGED attempts
    /\ UNCHANGED <<onDisk, tracked, lastExplain, devProof, runtime, sequential>>
\* dropProc: by name, whatever is tracked now.
DeactivateDrops(c) ==
    /\ dev[c].op = "deactivate" /\ dev[c].at = "drops"
    /\ tracked' = 0
    /\ recordAttempt("deactivate", TRUE, "") /\ MovesTo(c, "deregisters")
    /\ UNCHANGED <<onDisk, launched, lastExplain, devProof, runtime, sequential>>
\* handleDeactivatePlugin also removes the name from the registry.
Deregisters(c) ==
    /\ dev[c].at = "deregisters"
    /\ instance' = 0
    /\ Finishes(c)
    /\ UNCHANGED <<onDisk, launched, tracker, runProof, registrations, sequential>>

-----------------------------------------------------------------------------
(* The processes and the runtime *)

\* The process ends and Wait returns; the goroutine then drops it, if it is still
\* the one.
ProcessExits(p) ==
    /\ ~launched[p].exited
    /\ launched' = [launched EXCEPT ![p].exited = TRUE]
    /\ UNCHANGED <<onDisk, tracker, runtime, dev, sequential>>
dropIf_Any(p) == 0
dropIf(p) == IF tracked = p THEN 0 ELSE tracked
WaitDrops(p) ==
    /\ launched[p].exited /\ launched[p].waiting
    /\ launched' = [launched EXCEPT ![p].waiting = FALSE]
    /\ tracked' = dropIf(p)
    /\ UNCHANGED <<onDisk, attempts, lastExplain, devProof, runtime, dev, sequential>>
Registers(p) ==
    /\ ~launched[p].exited /\ instance # p /\ registrations < MaxInstances
    /\ instance' = p /\ registrations' = registrations + 1
    /\ UNCHANGED <<onDisk, launched, tracker, runProof, dev, sequential>>
\* The registry notices an instance that is gone.
Expires ==
    /\ instance # 0 /\ launched[instance].exited
    /\ instance' = 0
    /\ UNCHANGED <<onDisk, launched, tracker, runProof, registrations, dev, sequential>>
\* Verify in gt-pipeline, of a registered instance: whatever the verdict is, the
\* proof goes into the tracker of its own process.
Verify ==
    /\ instance # 0 /\ runProof # binary.from
    /\ runProof' = binary.from
    /\ UNCHANGED <<onDisk, launched, tracker, instance, registrations, dev, sequential>>

DevNext ==
    \/ Scaffold \/ Expires \/ Verify
    \/ \E c \in DevCallers :
          \/ \E op \in {"build", "activate", "deactivate", "explain"} : Begins(c, op)
          \/ ExplainReads(c) \/ ExplainWires(c) \/ BuildSucceeds(c) \/ BuildClears(c) \/ BuildFails(c)
          \/ ActivateChecks(c) \/ ActivateLaunches(c) \/ ActivateGate(c) \/ verifyPluginIntegration(c)
          \/ DeactivateReads(c) \/ DeactivateKills(c) \/ DeactivateDrops(c) \/ Deregisters(c)
    \/ \E p \in DOMAIN launched : ProcessExits(p) \/ WaitDrops(p) \/ Registers(p)

DevSpec == DevInit /\ [][DevNext]_devVars

-----------------------------------------------------------------------------
(* Status *)

ArtifactStateOf == IF binary.from # 0 THEN "compiled" ELSE IF source # 0 THEN "scaffolded" ELSE "unknown"
Status == IF ArtifactStateOf = "compiled" /\ ~binary.stale /\ devProof # 0 THEN "validated" ELSE ArtifactStateOf
runtimeState == IF instance # 0 THEN "active"
                ELSE IF tracked # 0 /\ ~launched[tracked].exited THEN "registered" ELSE "offline"
nextAction == CASE Status \in {"unknown", "scaffolded"} -> "build_plugin"
                [] Status = "compiled" /\ runtimeState # "active" -> "activate_plugin"
                [] Status = "compiled" /\ runtimeState = "active" -> "verify"
                [] OTHER -> ""

\* Calls made one after the other never lose a process: every one that was launched
\* and not killed is the one that status shows and deactivate stops, however the
\* exits of earlier processes and their wait goroutines fall between the calls.
NoOrphans ==
    sequential => \A p \in DOMAIN launched : ~launched[p].exited /\ ~launched[p].killed => tracked = p

\* When no call is under way, a failed build or activation that status shows points
\* to an explanation of itself, whatever builds, activations and explanations of
\* the same plugin overlapped; no attempt ever points to that of another one.
FailureExplained ==
    /\ \A i \in DOMAIN attempts : attempts[i].ref \in {0, i} /\ (attempts[i].ok => attempts[i].ref = 0)
    /\ (\A c \in DevCallers : dev[c] = NoDev) /\ LastAttempt # 0 =>
          LET last == attempts[LastAttempt]
          IN ~last.ok /\ last.action # "deactivate" => last.ref = LastAttempt

\* Both: what status shows of the plugin is what happened to it.
DevHonest == NoOrphans /\ FailureExplained

\* A comment of verify.go says that its proof raises the state which status shows
\* to validated.
VerifiedShown == runProof # 0 /\ runProof = binary.from /\ ~binary.stale => Status = "validated"
=============================================================================
