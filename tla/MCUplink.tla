------------------------------ MODULE MCUplink ------------------------------
(***************************************************************************)
(* Two behaviours of Uplink in one run, chosen at the start: one capture   *)
(* whose packets go through reconnects, and a runner that is started,      *)
(* stopped and changed while no packets flow and no server need answer.    *)
(***************************************************************************)
EXTENDS Uplink

VARIABLE which

bothVars == <<which, upVars>>
BothInit == which \in {"stream", "runner"} /\ UpInit

OneCapture == runs' <= 1 /\ params' # "port" /\ updates' = 0
NoTraffic == captured' = 0 /\ breaks' = 0

BothNext ==
    /\ UpNext
    /\ which = "stream" => OneCapture
    /\ which = "runner" => NoTraffic
    /\ UNCHANGED which

\* Only the packets need a server that can be reached.
BothFair ==
    \A r \in Runs :
        /\ WF_upVars(Watching(r)) /\ WF_upVars(Ingesting(r))
        /\ WF_upVars(Connecting(r)) /\ WF_upVars(Receives(r))
        /\ SF_upVars(which = "stream" /\ Connects(r)) /\ SF_upVars(which = "stream" /\ TimerFires(r))

BothSpec == BothInit /\ [][BothNext]_bothVars /\ BothFair
=============================================================================
