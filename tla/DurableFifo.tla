---------------------------- MODULE DurableFifo ----------------------------
(***************************************************************************)
(* What the spool promises its user (src/pkg/spool/queue.go:1-12, 59-60):  *)
(* an at-least-once FIFO that survives restarts.  Packets are numbered in  *)
(* the order they were accepted.  Everything up to head is settled, the    *)
(* next inflight packets were handed out and the rest waits.  A restart    *)
(* may move head back, so that at most Redeliver - 1 confirmed packets are *)
(* delivered once more, but never forward: nothing unconfirmed is skipped. *)
(***************************************************************************)
EXTENDS Integers

CONSTANTS Redeliver, Quota

VARIABLES tail, head, inflight, confirmed, up
vars == <<tail, head, inflight, confirmed, up>>

Init == tail = 0 /\ head = 0 /\ inflight = 0 /\ confirmed = 0 /\ up = FALSE

Accept ==
    /\ up /\ tail - head < Quota
    /\ tail' = tail + 1
    /\ UNCHANGED <<head, inflight, confirmed, up>>

HandOut ==
    /\ up
    /\ \E n \in inflight + 1 .. tail - head : inflight' = n
    /\ UNCHANGED <<tail, head, confirmed, up>>

Settle ==
    /\ up
    /\ \E k \in 1 .. inflight :
         /\ head' = head + k
         /\ inflight' = inflight - k
         /\ confirmed' = IF head + k > confirmed THEN head + k ELSE confirmed
    /\ UNCHANGED <<tail, up>>

TakeBack == up /\ inflight' = 0 /\ UNCHANGED <<tail, head, confirmed, up>>

Stop ==
    /\ up /\ up' = FALSE /\ inflight' = 0
    /\ \E h \in 0 .. head : confirmed - h < Redeliver /\ head' = h
    /\ UNCHANGED <<tail, confirmed>>

Restart == ~up /\ up' = TRUE /\ UNCHANGED <<tail, head, inflight, confirmed>>

Next == Accept \/ HandOut \/ Settle \/ TakeBack \/ Stop \/ Restart

Spec == Init /\ [][Next]_vars
=============================================================================
