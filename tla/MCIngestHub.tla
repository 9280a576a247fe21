---------------------------- MODULE MCIngestHub -----------------------------
(***************************************************************************)
(* An instance of IngestHub for TLC: the sessions of two owners, one of     *)
(* whom pushes as a probe, one source and two streams.  The server opens    *)
(* one agent source for a session.                                          *)
(***************************************************************************)
EXTENDS IngestHub

CONSTANTS se1, se2, src1, push1, push2, probe1, probe2

TwoSessions == {se1, se2}
AliceAndBob == [se \in Sessions |-> IF se = se1 THEN "alice" ELSE "bob"]
TwoPrincipals == {[owner |-> "alice", probe |-> probe1], [owner |-> "bob", probe |-> NoProbe]}
BothProbes == {probe1, probe2}
OneSource == {src1}
TwoStreams == {push1, push2}
=============================================================================
