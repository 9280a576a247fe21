------------------------------ MODULE RunBook ------------------------------
(***************************************************************************)
(* Run windows of gt-mcp: begin_capture_run and end_capture_run mark the   *)
(* time in which a user tries something; RunRegistry keeps the open ones in*)
(* memory and every one in a file.                                         *)
(*                                                                         *)
(* Run ids are the sequence numbers of one session.  A handler works in    *)
(* steps: an id is made from the directory without a lock, Begin and End   *)
(* are critical sections that end with writing the file, which may fail or *)
(* leave half a file.  The counts of the summary are left out.             *)
(***************************************************************************)
EXTENDS Integers, FiniteSets

CONSTANTS
    RunCallers,     \* tool calls in progress
    MaxRuns,        \* bound: runs begun
    MaxRunFaults    \* bound: failing writes and restarts

ASSUME RunAssumption == MaxRuns \in Nat

VARIABLES
    runFile,      \* run.json: r -> none, broken, open, ended, stale
    activeRuns,   \* in memory
    aged,         \* runs begun more than an hour ago
    rcalls,       \* calls in progress: c -> [op, r]
    begun,        \* ghost: begun with success
    endTried,     \* ghost: End was called for it
    runFaults

runVars == <<runFile, activeRuns, aged, rcalls, begun, endTried, runFaults>>

RunIds == 1..MaxRuns
RunIdle == [op |-> "none", r |-> 0]

RunInit ==
    /\ runFile = [r \in RunIds |-> "none"]
    /\ activeRuns = {}
    /\ aged = {}
    /\ rcalls = [c \in RunCallers |-> RunIdle]
    /\ begun = {} /\ endTried = {}
    /\ runFaults = MaxRunFaults

\* Writing run.json: done, or failed with the file as it was or cut short.
persist(r, st) ==
    \/ runFile' = [runFile EXCEPT ![r] = st] /\ UNCHANGED runFaults
    \/ /\ runFaults > 0 /\ runFaults' = runFaults - 1
       /\ runFile' \in {runFile, [runFile EXCEPT ![r] = "broken"]}

\* The highest number in the directory, plus one.
GenerateRunID ==
    LET used == {r \in RunIds : runFile[r] # "none"}
    IN IF used = {} THEN 1 ELSE 1 + CHOOSE m \in used : \A r \in used : r <= m

\* begin_capture_run: whether a capture runs with the parameters asked for only
\* chooses the mode and the baseline noted in the record; Begin follows.
handleBeginCaptureRun(c) ==
    /\ rcalls[c] = RunIdle /\ GenerateRunID <= MaxRuns
    /\ rcalls' = [rcalls EXCEPT ![c] = [op |-> "begin", r |-> GenerateRunID]]
    /\ UNCHANGED <<runFile, activeRuns, aged, begun, endTried, runFaults>>

\* An id that is open is refused; the run is open even if the file fails.
Begin(c) ==
    LET r == rcalls[c].r IN
    /\ rcalls[c].op = "begin"
    /\ rcalls' = [rcalls EXCEPT ![c] = RunIdle]
    /\ IF r \in activeRuns THEN UNCHANGED <<runFile, activeRuns, aged, begun, endTried, runFaults>>
       ELSE /\ activeRuns' = activeRuns \cup {r}
            /\ aged' = aged \ {r}
            /\ persist(r, "open")
            /\ begun' = IF runFile'[r] = "open" /\ runFaults' = runFaults THEN begun \cup {r} ELSE begun \ {r}
            /\ endTried' = endTried \ {r}

\* Get: memory first, then the file; what has ended is answered as it is.
GetRun(r) == IF r \in activeRuns THEN "open" ELSE runFile[r]

\* end_capture_run reads the record and counts what was captured, in steps
\* that change nothing; End follows.
handleEndCaptureRun(c, r) ==
    /\ rcalls[c] = RunIdle /\ GetRun(r) = "open"
    /\ rcalls' = [rcalls EXCEPT ![c] = [op |-> "end", r |-> r]]
    /\ UNCHANGED <<runFile, activeRuns, aged, begun, endTried, runFaults>>

\* End: out of memory first, then the file.
End(c) ==
    LET r == rcalls[c].r IN
    /\ rcalls[c].op = "end"
    /\ rcalls' = [rcalls EXCEPT ![c] = RunIdle]
    /\ IF r \notin activeRuns THEN UNCHANGED <<runFile, activeRuns, endTried, runFaults>>
       ELSE /\ activeRuns' = activeRuns \ {r}
            /\ persist(r, "ended")
            /\ endTried' = endTried \cup {r}
    /\ UNCHANGED <<aged, begun>>

\* get_run_status.
handleGetRunStatus(r) == IF GetRun(r) = "open" THEN "active" ELSE IF GetRun(r) \in {"ended", "stale"} THEN "stopped" ELSE "error"

\* Begun runs in memory (ListActive), newest first in the code.
ListActive == activeRuns

AnHourPasses(r) ==
    /\ r \in begun \ aged
    /\ aged' = aged \cup {r}
    /\ UNCHANGED <<runFile, activeRuns, rcalls, begun, endTried, runFaults>>

\* Mutant: every open run counts as stale.
recover_AllStale ==
    /\ activeRuns' = {}
    /\ runFile' = [r \in RunIds |-> IF runFile[r] = "open" THEN "stale" ELSE runFile[r]]

\* A new process: open files become open runs unless they are an hour old.
recover ==
    /\ activeRuns' = {r \in RunIds : runFile[r] = "open" /\ r \notin aged}
    /\ runFile' = [r \in RunIds |-> IF runFile[r] = "open" /\ r \in aged THEN "stale" ELSE runFile[r]]

NewRunRegistry ==
    /\ runFaults > 0 /\ runFaults' = runFaults - 1
    /\ recover
    /\ rcalls' = [c \in RunCallers |-> RunIdle]
    /\ UNCHANGED <<aged, begun, endTried>>

RunNext ==
    \/ \E c \in RunCallers :
          handleBeginCaptureRun(c) \/ Begin(c) \/ End(c) \/ \E r \in RunIds : handleEndCaptureRun(c, r)
    \/ \E r \in RunIds : AnHourPasses(r)
    \/ NewRunRegistry

RunSpec == RunInit /\ [][RunNext]_runVars

-----------------------------------------------------------------------------
\* A run that was begun with success and that nobody has tried to end is open,
\* for an hour at least, through failing writes of other calls, calls that were
\* given the same id, and restarts (run_registry.go).
OpenRunsSurvive == \A r \in begun \ (endTried \cup aged) : r \in activeRuns /\ handleGetRunStatus(r) = "active"

=============================================================================
