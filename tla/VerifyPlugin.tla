--------------------------- MODULE VerifyPlugin ---------------------------
(***************************************************************************)
(* plugin.verify: a session's packets are decoded with a plugin, each      *)
(* result is reduced to DecodeIOs, and these are judged: violations of the *)
(* SDK's contract, statistics over the packets, and a verdict.             *)
(*                                                                         *)
(* A packet gives one response for each event and a last one without, or   *)
(* a single one with an error.  The session may still be captured: a       *)
(* packet that arrives late then shifts the pages read by offset, and one  *)
(* already read comes again.  Payloads have an entropy of 0 or 8 bits.     *)
(***************************************************************************)
EXTENDS Integers, Sequences, FiniteSets, SequencesExt

CONSTANTS
    MaxVerified,    \* bound: packets of the session
    MaxShifts       \* bound: packets read a second time

VARIABLES
    corpus,         \* the DecodeIOs collected
    results,        \* ghost: what each packet was decoded to, in the order read
    verified        \* the result, or NoVerdict

verVars == <<corpus, results, verified>>

NoVerdict == [verdict |-> "none"]
Severities == {"warn", "error"}
Events == {<<>>, <<[versioned |-> TRUE, correlated |-> FALSE]>>, <<[versioned |-> FALSE, correlated |-> FALSE]>>,
           <<[versioned |-> TRUE, correlated |-> TRUE], [versioned |-> FALSE, correlated |-> FALSE]>>}
Outcomes == [err : {FALSE}, events : Events, entropy : {0, 8}] \cup
            {[err |-> TRUE, events |-> <<>>, entropy |-> 8]}

VerInit == corpus = <<>> /\ results = <<>> /\ verified = NoVerdict

-----------------------------------------------------------------------------
(* Collecting *)

decodeIOsFromResult(n, r) ==
    LET last == [id |-> n, done |-> TRUE, event |-> FALSE, versioned |-> FALSE, correlated |-> FALSE,
                 err |-> r.err, entropy |-> r.entropy, payload |-> TRUE]
        of(ev) == [id |-> n, done |-> FALSE, event |-> TRUE, versioned |-> ev.versioned, correlated |-> ev.correlated,
                   err |-> FALSE, entropy |-> 0, payload |-> FALSE]
    IN [i \in DOMAIN r.events |-> of(r.events[i])] \o <<last>>

\* forEachRawDecoded hands Verify one packet: the next, or one it had already.
VerifyReads(n, r) ==
    LET had == {results[i].n : i \in DOMAIN results} IN
    /\ verified = NoVerdict
    /\ IF n \in had THEN Len(results) - Cardinality(had) < MaxShifts
       ELSE n = Cardinality(had) + 1 /\ n <= MaxVerified
    /\ corpus' = corpus \o decodeIOsFromResult(n, r)
    /\ results' = Append(results, [n |-> n, r |-> r])
    /\ UNCHANGED verified

-----------------------------------------------------------------------------
(* Judging *)

\* The SDK's checker: a response that is not the last carries an event.
CheckDecodeResponse(io) == io.done \/ io.event

\* The DecodeIOs of one packet taken together.
packetAgg(ios, n) ==
    LET own == {i \in DOMAIN ios : ios[i].id = n}
    IN [err |-> \E i \in own : ios[i].err, hasEvent |-> \E i \in own : ios[i].event,
        correlated |-> \E i \in own : ios[i].correlated, versioned |-> \E i \in own : ios[i].versioned]
Ids(ios) == {ios[i].id : i \in DOMAIN ios}
addPacket_PerResponse(ios) == [i \in DOMAIN ios |-> packetAgg(<<ios[i]>>, ios[i].id)]
addPacket(ios) == [n \in Ids(ios) |-> packetAgg(ios, n)]

Count(agg, Test(_)) == Cardinality({n \in DOMAIN agg : Test(agg[n])})
stats(ios) ==
    LET agg == addPacket(ios)
        fine == {i \in DOMAIN ios : ios[i].payload /\ ~packetAgg(ios, ios[i].id).err}
    IN [total |-> Cardinality(DOMAIN agg),
        errors |-> Count(agg, LAMBDA a : a.err),
        unknown |-> Count(agg, LAMBDA a : ~a.err /\ ~a.hasEvent),
        correlated |-> Count(agg, LAMBDA a : ~a.err /\ a.correlated),
        versioned |-> Count(agg, LAMBDA a : ~a.err /\ a.versioned),
        payloads |-> Cardinality(fine),
        entropy |-> 8 * Cardinality({i \in fine : ios[i].entropy = 8})]

\* Ratios are compared as products; without a packet every ratio is zero.
allUnknown(q) == q.total > 0 /\ 100 * q.unknown >= 95 * q.total
highEntropy(q) == q.payloads > 0 /\ 10 * q.entropy >= 75 * q.payloads
verdict(violations, q) ==
    LET suspectEnc == q.total > 0 /\ 2 * q.unknown >= q.total /\ highEntropy(q)
        lowVersioning == q.total > 0 /\ (q.errors = q.total \/ 2 * q.versioned < q.total - q.errors)
    IN CASE "error" \in violations \/ (q.total > 0 /\ q.errors = q.total) \/ allUnknown(q) -> "fail"
         [] OTHER -> IF "warn" \in violations \/ suspectEnc \/ lowVersioning THEN "warn" ELSE "pass"

\* quality.Verify: an empty corpus is a warning.
qualityVerify(ios) ==
    LET own == IF \A i \in DOMAIN ios : CheckDecodeResponse(ios[i]) THEN {} ELSE {"error"}
    IN [violations |-> own, quality |-> stats(ios), verdict |-> IF ios = <<>> THEN "warn" ELSE verdict(own, stats(ios))]

\* Verify adds what the semantic checks found, of the manifest and of each event,
\* and takes the verdict again.
RecomputeVerdict(res) == [res EXCEPT !.verdict = verdict(res.violations, res.quality)]
VerifyEnds(found) ==
    /\ verified = NoVerdict
    /\ verified' = RecomputeVerdict([qualityVerify(corpus) EXCEPT !.violations = @ \cup found])
    /\ UNCHANGED <<corpus, results>>

VerNext ==
    \/ \E n \in 1..MaxVerified, r \in Outcomes : VerifyReads(n, r)
    \/ \E found \in SUBSET Severities : VerifyEnds(found)
VerSpec == VerInit /\ [][VerNext]_verVars

\* explainVerify: what is wrong with the decoder, in this order.
explainVerify(res, framing) ==
    LET q == res.quality
        when(b, category) == IF b THEN <<category>> ELSE <<>>
    IN when(framing, "wrong-framing") \o when(allUnknown(q), "all-unknown")
       \o when(q.total > 0 /\ 2 * q.unknown >= q.total /\ highEntropy(q), "suspected-encryption")
       \o when(q.total > 1 /\ q.correlated = 0 /\ q.total > q.unknown, "suspected-reassembly")
explainVerifyRequest(res, framing) ==
    IF res.verdict = "pass" THEN <<>>
    ELSE IF explainVerify(res, framing) = <<>> THEN <<"verify-other">> ELSE explainVerify(res, framing)

-----------------------------------------------------------------------------
\* A packet counts once in the verdict and its explanation, however many events it
\* gave and however often it was read: it is an error if one of its decodes failed,
\* and unknown if none of them gave an event.
VerdictByPacket ==
    verified # NoVerdict /\ results # <<>> =>
        LET of(n) == {i \in DOMAIN results : results[i].n = n}
            packets == {results[i].n : i \in DOMAIN results}
            failed == {n \in packets : \E i \in of(n) : results[i].r.err}
            silent == {n \in packets \ failed : \A i \in of(n) : results[i].r.events = <<>>}
            versions == {n \in packets \ failed : \E i \in of(n) : \E j \in DOMAIN results[i].r.events :
                                                      results[i].r.events[j].versioned}
        IN /\ verified.verdict = "pass" =>
                 failed # packets /\ silent # packets
                 /\ 2 * Cardinality(versions) >= Cardinality(packets) - Cardinality(failed)
           /\ (failed = packets \/ silent = packets) => verified.verdict = "fail"
           /\ failed = {} /\ silent = {} /\ versions = packets /\ verified.violations = {} => verified.verdict = "pass"
           /\ silent = packets <=> Head(explainVerifyRequest(verified, FALSE) \o <<"">>) = "all-unknown"

\* A comment and a test of quality.Verify say that nothing to verify is not a pass.
EmptyIsNotPass == verified # NoVerdict /\ results = <<>> => verified.verdict # "pass"
=============================================================================
