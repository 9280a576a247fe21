------------------------------ MODULE MCParts -------------------------------
(***************************************************************************)
(* Components that share no state, checked in one run: which of them       *)
(* moves is chosen once, the others stay in their initial state.           *)
(***************************************************************************)
EXTENDS Projects, Accounts, RunBook, TunnelMux, Spool,
        SqlQueries, RawTime, OfflineDecode, VerifyPlugin,
        TraceFlow, EventValue, ProbeRows

\* No retention, or an age limit with a budget of one record.
Switching == {NoRetention, [on |-> TRUE, maxAge |-> TRUE, maxBytes |-> 1]}
AllFaults == {"crash", "power", "io"}

\* Two packets of one session out of order, on a connection seen from both sides,
\* and one of another session.
SqlPackets == << [id |-> "r1", sid |-> "s1", ts |-> 2, conn |-> "c1", up |-> TRUE],
              [id |-> "r2", sid |-> "s1", ts |-> 1, conn |-> "c1", up |-> FALSE],
              [id |-> "r3", sid |-> "s2", ts |-> 1, conn |-> "c2", up |-> FALSE] >>
TwoIds == <<"e1", "e2">>
PortsOf == [c \in {"c1", "c2"} |-> [client |-> IF c = "c1" THEN 50000 ELSE 90, server |-> 100, meta |-> c = "c2"]]

\* A request, its responses, a notice and a close on one flow; a request of the
\* same number on another.
TrcJson(id, seq, rsp, code) == [p \in {"id", "seq", "rsp", "code"} |-> CASE p = "id" -> id [] p = "seq" -> seq [] p = "rsp" -> rsp [] OTHER -> code]
TrcMessage(f, d, base, suffix, json) ==
    [flow |-> f, dir |-> d, base |-> base, name |-> base \o suffix, suffixed |-> suffix # "", push |-> FALSE, src |-> d,
     heartbeat |-> FALSE, tcpClose |-> FALSE, changes |-> {}, json |-> json]
TrcUp == "client_to_server"
TrcDown == "server_to_client"
TrcNone == "absent"
TrcMessages == {
    TrcMessage("f1", TrcUp, "Login", "Req", TrcJson("1", "7", TrcNone, TrcNone)),
    TrcMessage("f1", TrcUp, "Login", "Req", TrcJson("1", "8", TrcNone, TrcNone)),
    TrcMessage("f2", TrcUp, "Login", "Req", TrcJson("1", "7", TrcNone, TrcNone)),
    [TrcMessage("f1", TrcDown, "Login", "Resp", TrcJson("2", TrcNone, "7", "0.0")) EXCEPT !.changes = {<<"hero", "level">>}],
    TrcMessage("f1", TrcDown, "Login", "Resp", TrcJson("2", TrcNone, "8", "5")),
    TrcMessage("f1", TrcDown, "Notice", "", TrcJson("3", "7", TrcNone, TrcNone)),
    TrcMessage("f1", TrcUp, "Move", "", TrcJson("4", TrcNone, "7", TrcNone)),
    [TrcMessage("f1", TrcDown, "close", "", TrcJson(TrcNone, TrcNone, TrcNone, TrcNone)) EXCEPT !.tcpClose = TRUE]}
TrcDef(v, n, r) == [value |-> v, name |-> n, role |-> r]
TrcRpc(n, a, b) == [name |-> n, request |-> a, response |-> b]
TrcProtocols == {
    [id |-> "id", defs |-> <<TrcDef("1", "LoginReq", "request"), TrcDef("2", "LoginResp", "response"), TrcDef("3", "Notice", "push")>>,
     rules |-> <<TrcRpc("rpc", "seq", "rsp")>>, push |-> <<[expr |-> "id", equals |-> {"3"}]>>, code |-> "code", success |-> {"0"}],
    [id |-> "", defs |-> <<>>, rules |-> <<TrcRpc("", "rsp", "seq"), TrcRpc("", "seq", "rsp")>>, push |-> <<>>, code |-> "", success |-> {}],
    [id |-> "id", defs |-> <<TrcDef("1", "a", ""), TrcDef("1", "b", "")>>, rules |-> <<>>, push |-> <<>>, code |-> "", success |-> {}]}
TrcDelays == {-1, 2}

\* A payload with a _meta and kinds JSON has not, and one with state changes.
EvObject(f) == Leaf("object", f)
EvChange == EvObject([subject_id |-> Leaf("string", 5), op |-> Leaf("string", 11), after |-> Leaf("int", 5), version |-> Leaf("uint", 3)])
EvDecoded == {
    EvObject([id |-> Leaf("uint", 4), raw |-> Leaf("bytes", 2), half |-> Leaf("float", 3), _meta |-> EvObject([msg |-> Leaf("string", 1)])]),
    EvObject([_state_changes |-> Leaf("array", ("0" :> EvChange) @@ ("1" :> ValueNull))])}
EvLeaves == {Leaf("float", 8)}

VARIABLE which

allVars ==
    <<which, projVars, accVars, runVars, muxVars, vars, sqlVars, rawVars,
      decVars, verVars, trcVars, evtVars, prbVars>>

AllInit ==
    /\ which \in {"projects", "accounts", "runs", "mux", "spool",
                 "store", "times", "decode", "verify", "trace",
                 "values", "probes"}
    /\ ProjInit /\ AccInit /\ RunInit /\ MuxInit /\ Init
    /\ SqlInit /\ RawInit /\ DecInit /\ VerInit /\ TrcInit /\ EvtInit /\ PrbInit
    /\ which # "projects" => \A s \in Sessions : sess[s].creator = CHOOSE u \in Users : TRUE
    /\ which # "store" => driver = "sqlite"
    /\ which # "trace" => protocol = NoProtocol

AllNext ==
    \/ which = "projects" /\ ProjNext
       /\ UNCHANGED <<which, accVars, runVars, muxVars, vars, sqlVars,
                      rawVars, decVars, verVars, trcVars, evtVars, prbVars>>
    \/ which = "accounts" /\ AccNext
       /\ UNCHANGED <<which, projVars, runVars, muxVars, vars, sqlVars,
                      rawVars, decVars, verVars, trcVars, evtVars, prbVars>>
    \/ which = "runs" /\ RunNext
       /\ UNCHANGED <<which, projVars, accVars, muxVars, vars, sqlVars,
                      rawVars, decVars, verVars, trcVars, evtVars, prbVars>>
    \/ which = "mux" /\ MuxNext
       /\ UNCHANGED <<which, projVars, accVars, runVars, vars, sqlVars,
                      rawVars, decVars, verVars, trcVars, evtVars, prbVars>>
    \/ which = "spool" /\ Next
       /\ UNCHANGED <<which, projVars, accVars, runVars, muxVars, sqlVars,
                      rawVars, decVars, verVars, trcVars, evtVars, prbVars>>
    \/ which = "store" /\ SqlNext
       /\ UNCHANGED <<which, projVars, accVars, runVars, muxVars, vars,
                      rawVars, decVars, verVars, trcVars, evtVars, prbVars>>
    \/ which = "times" /\ RawNext
       /\ UNCHANGED <<which, projVars, accVars, runVars, muxVars, vars,
                      sqlVars, decVars, verVars, trcVars, evtVars, prbVars>>
    \/ which = "decode" /\ DecNext
       /\ UNCHANGED <<which, projVars, accVars, runVars, muxVars, vars,
                      sqlVars, rawVars, verVars, trcVars, evtVars, prbVars>>
    \/ which = "verify" /\ VerNext
       /\ UNCHANGED <<which, projVars, accVars, runVars, muxVars, vars,
                      sqlVars, rawVars, decVars, trcVars, evtVars, prbVars>>
    \/ which = "trace" /\ TrcNext
       /\ UNCHANGED <<which, projVars, accVars, runVars, muxVars, vars,
                      sqlVars, rawVars, decVars, verVars, evtVars, prbVars>>
    \/ which = "values" /\ EvtNext
       /\ UNCHANGED <<which, projVars, accVars, runVars, muxVars, vars,
                      sqlVars, rawVars, decVars, verVars, trcVars, prbVars>>
    \/ which = "probes" /\ PrbNext
       /\ UNCHANGED <<which, projVars, accVars, runVars, muxVars, vars,
                      sqlVars, rawVars, decVars, verVars, trcVars, evtVars>>

AllSpec == AllInit /\ [][AllNext]_allVars
=============================================================================
