----------------------------- MODULE EventValue -----------------------------
(***************************************************************************)
(* The event a decoder produces (pkg/event): its id, its place in a chain  *)
(* and its payload, a tree of typed values.  Objects and arrays are Go     *)
(* maps and slices, so values share them: a payload is a reference into a  *)
(* heap.  An event is meant never to change once built; what is derived    *)
(* from it, and what comes back from the store, must say the same.         *)
(*                                                                         *)
(* A leaf is a kind and a number; the number of a float is in halves.  An  *)
(* array is an object whose keys are "0", "1", ...                         *)
(***************************************************************************)
EXTENDS Integers, Sequences, FiniteSets, SequencesExt, FiniteSetsExt

CONSTANTS
    Decoded,            \* trees a decoder may report, as Go values
    Extra,              \* leaves put under a key later
    EvKeys,             \* keys they are put under
    Mantissa,           \* 2^53: beyond, a float64 has only even integers
    MaxInt,             \* 2^63 - 1
    MaxSequence,        \* 0xFFF
    MaxBuilt,           \* bound: events, derived ones included
    MaxMs               \* bound: milliseconds of the clock

VARIABLES
    heap,               \* what each map or slice holds
    built,              \* events in the order they were built
    now,                \* the clock
    lastMs, sequence    \* uuidv7LastMs, uuidv7Sequence

evtVars == <<heap, built, now, lastMs, sequence>>

Leaf(k, n) == [k |-> k, n |-> n]
ValueNull == Leaf("null", 0)
Containers == {"object", "array"}
Nothing == Leaf("absent", 0)
Ops == {11, 12, 13}                 \* the strings set, delete and merge
Base64 == 1000                      \* the string that spells bytes n is Base64 + n

-----------------------------------------------------------------------------
(* Reading *)

AsInt(v) == IF v.k = "int" \/ (v.k = "uint" /\ v.n <= MaxInt) THEN v.n ELSE 0
AsString(v) == IF v.k = "string" THEN v.n ELSE 0
ValueGet(h, v, key) == IF v.k = "object" /\ key \in DOMAIN h[v.n] THEN h[v.n][key] ELSE Nothing
GetByPath(h, v, path) == FoldLeft(LAMBDA cur, p : ValueGet(h, cur, p), v, path)
MetaValue(h, v, key) == GetByPath(h, v, <<"_meta", key>>)

RECURSIVE Equal(_, _, _)
Equal(h, v, w) ==
    /\ v.k = w.k
    /\ IF v.k \in Containers
       THEN /\ DOMAIN h[v.n] = DOMAIN h[w.n]
            /\ \A x \in DOMAIN h[v.n] : Equal(h, h[v.n][x], h[w.n][x])
       ELSE v.n = w.n

\* ExtractStateChanges: an element that is no object is passed over, a field of
\* another kind is left empty.
ExtractChanges(h, v) ==
    LET raw == ValueGet(h, v, "_state_changes")
        items == IF raw.k = "array" THEN {h[raw.n][x] : x \in DOMAIN h[raw.n]} ELSE {}
    IN  {[subject |-> AsString(ValueGet(h, o, "subject_id")), op |-> AsString(ValueGet(h, o, "op")),
          after |-> ValueGet(h, o, "after"), version |-> AsInt(ValueGet(h, o, "version"))] :
            o \in {i \in items : i.k = "object"}}
\* Validate; what the store writes of them.
ChangeValid(c) == c.subject # 0 /\ c.op \in Ops
StateChanges(h, v) == {c \in ExtractChanges(h, v) : ChangeValid(c)}

-----------------------------------------------------------------------------
(* Conversions: a tree is what a value holds, free of sharing. *)

\* ToAny and valueToMsgpack.
RECURSIVE ToAny(_, _)
ToAny(h, v) ==
    IF v.k \in Containers THEN Leaf(v.k, [x \in DOMAIN h[v.n] |-> ToAny(h, h[v.n][x])]) ELSE v

\* A new map or slice in the heap.
Alloc(h, k, entries) == [heap |-> Append(h, entries), value |-> Leaf(k, Len(h) + 1)]

\* ValueFromAny: every map and slice is made anew.
RECURSIVE ValueFromAny(_, _)
ValueFromAny(h, t) ==
    IF t.k \in Containers
    THEN LET add(x, acc) == LET r == ValueFromAny(acc.heap, t.n[x])
                            IN  [heap |-> r.heap, entries |-> (x :> r.value) @@ acc.entries]
             all == FoldSet(add, [heap |-> h, entries |-> <<>>], DOMAIN t.n)
         IN  Alloc(all.heap, t.k, all.entries)
    ELSE [heap |-> h, value |-> t]

\* The nearest float64 of an integer.
Float64(n) ==
    IF n <= Mantissa \/ n % 2 = 0 THEN n ELSE IF (n \div 2) % 2 = 0 THEN n - 1 ELSE n + 1

\* A number of JSON is a float64; ValueFromAny makes an Int of it when it is integral.
FromNumber(halves) ==
    IF halves % 2 = 0 /\ halves \div 2 <= MaxInt THEN Leaf("int", halves \div 2) ELSE Leaf("float", halves)

\* MarshalJSON and UnmarshalJSON: bytes come back as the string that spells them.
RECURSIVE ThroughJSON(_)
ThroughJSON(t) ==
    CASE t.k \in Containers -> Leaf(t.k, [x \in DOMAIN t.n |-> ThroughJSON(t.n[x])])
      [] t.k \in {"int", "uint"} -> FromNumber(2 * Float64(t.n))
      [] t.k = "float" -> FromNumber(t.n)
      [] t.k = "bytes" -> Leaf("string", Base64 + t.n)
      [] OTHER -> t

\* msgpackToValue: the kind is written beside the value.
FromMsgpack(h, v) == ValueFromAny(h, ToAny(h, v))
ValueFromJSON(h, v) == ValueFromAny(h, ThroughJSON(ToAny(h, v)))

-----------------------------------------------------------------------------
(* Deriving: the map is copied, what it holds is shared. *)

Copied_InPlace(h, v, entries) == [heap |-> [h EXCEPT ![v.n] = entries], value |-> v]
Copied(h, v, entries) == Alloc(h, v.k, entries)
Set(h, v, key, val) == Copied(h, v, (key :> val) @@ h[v.n])
Delete(h, v, key) == Copied(h, v, [x \in DOMAIN h[v.n] \ {key} |-> h[v.n][x]])
Merge(h, v, w) == Copied(h, v, h[w.n] @@ h[v.n])
\* setMetaProtocol: the payload is copied, but a _meta it has is written in place.
SetMetaProtocol(h, v, val) ==
    LET meta == ValueGet(h, v, "_meta")
        inner == IF meta.k = "object"
                 THEN [heap |-> [h EXCEPT ![meta.n] = ("protocol" :> val) @@ @], value |-> meta]
                 ELSE Alloc(h, "object", "protocol" :> val)
    IN  Set(inner.heap, v, "_meta", inner.value)

-----------------------------------------------------------------------------
(* Ids: 48 bits of milliseconds, then a counter of 12 bits, then chance. *)

\* NewEventID under uuidv7Mutex; first is the random start of a new millisecond.
NewEventID(first) ==
    IF now <= lastMs
    THEN IF sequence + 1 > MaxSequence
         THEN [id |-> <<lastMs + 1, 0>>, last |-> lastMs + 1, seq |-> 0]
         ELSE [id |-> <<now, sequence + 1>>, last |-> lastMs, seq |-> sequence + 1]
    ELSE [id |-> <<now, first>>, last |-> now, seq |-> first]

\* ghost: tree is what the event is meant to hold, late whether the clock was behind
\* the last id.
Event(r, id, trace, context, tree, via, from) ==
    [id |-> id, trace |-> trace, context |-> context, value |-> r.value, tree |-> tree, via |-> via, from |-> from,
     late |-> now < lastMs]
Build(r, e) ==
    /\ Len(built) < MaxBuilt
    /\ heap' = r.heap
    /\ built' = Append(built, e)

\* A packet of the decode stream becomes an event, and the capture task enriches it
\* before anybody else holds it (Start of the task with -protocol).
OnDecoded(t, context, protocol, first) ==
    LET r == ValueFromAny(heap, t)
        s == IF protocol THEN SetMetaProtocol(r.heap, r.value, Leaf("string", 7)) ELSE r
        n == NewEventID(first)
        meta == IF "_meta" \in DOMAIN t.n /\ t.n["_meta"].k = "object" THEN t.n["_meta"].n ELSE <<>>
        tree == IF protocol
                THEN Leaf("object", ("_meta" :> Leaf("object", ("protocol" :> Leaf("string", 7)) @@ meta)) @@ t.n)
                ELSE t
    IN  /\ Build(s, Event(s, n.id, 0, context, tree, "decode", 0))
        /\ lastMs' = n.last /\ sequence' = n.seq
        /\ UNCHANGED now

\* WithTrace, WithCausation, ...: another event of the same id and payload.
WithTrace(i) ==
    /\ Build([heap |-> heap, value |-> built[i].value],
             [built[i] EXCEPT !.trace = 1, !.via = "derived", !.from = i])
    /\ UNCHANGED <<now, lastMs, sequence>>

\* Value.Set, Value.Delete and Value.Merge on the payload.
WithPayload(i, r, n) ==
    /\ Build(r, [built[i] EXCEPT !.value = r.value, !.tree = Leaf("object", n), !.via = "derived", !.from = i])
    /\ UNCHANGED <<now, lastMs, sequence>>
Derive(i) ==
    LET e == built[i]
    IN  \/ \E x \in EvKeys, v \in Extra : WithPayload(i, Set(heap, e.value, x, v), (x :> v) @@ e.tree.n)
        \/ \E x \in EvKeys :
              WithPayload(i, Delete(heap, e.value, x), [y \in DOMAIN e.tree.n \ {x} |-> e.tree.n[y]])
        \/ \E j \in DOMAIN built : WithPayload(i, Merge(heap, e.value, built[j].value), built[j].tree.n @@ e.tree.n)

\* MarshalMsgpack of a context: a map of its fields; UnmarshalContextMsgpack takes
\* those of the kind it expects.
MarshalContext(c) == [flow |-> Leaf("string", c.flow), ordinal |-> Leaf("int", c.ordinal)]
UnmarshalContext(o) == [flow |-> AsString(o.flow), ordinal |-> AsInt(o.ordinal)]
\* A row of events written and read back; the payload an old row has, or one goes
\* through for gjson, by way of JSON.
Copy(i, r, via, tree) ==
    /\ Build(r, [built[i] EXCEPT !.value = r.value, !.tree = tree, !.context = UnmarshalContext(MarshalContext(@)), !.via = via,
                                 !.from = i])
    /\ UNCHANGED <<now, lastMs, sequence>>
StoreAndLoad(i) == Copy(i, FromMsgpack(heap, built[i].value), "msgpack", built[i].tree)
ReadJSON(i) ==
    LET r == ValueFromJSON(heap, built[i].value)
    IN  built[i].via # "json" /\ Copy(i, r, "json", ToAny(r.heap, r.value))

\* The clock moves on, or is set back.
Clock(n) == n \in 0 .. MaxMs /\ n # now /\ now' = n /\ UNCHANGED <<heap, built, lastMs, sequence>>

EvtInit ==
    /\ heap = <<>> /\ built = <<>>
    /\ now = 1 /\ lastMs = 0 /\ sequence = 0
EvtNext ==
    \/ \E t \in Decoded, p \in BOOLEAN, first \in {0, MaxSequence} : OnDecoded(t, [flow |-> 3, ordinal |-> 0], p, first)
    \/ \E i \in DOMAIN built : WithTrace(i) \/ Derive(i) \/ StoreAndLoad(i) \/ ReadJSON(i)
    \/ Clock(now + 1) \/ Clock(now - 1)
EvtSpec == EvtInit /\ [][EvtNext]_evtVars

-----------------------------------------------------------------------------
(* Properties *)

\* The paths of a tree and what stands there.
RECURSIVE Flat(_)
Flat(t) ==
    IF t.k \in Containers
    THEN {<< <<>>, t.k, Cardinality(DOMAIN t.n) >>}
         \cup UNION {{<< <<x>> \o f[1], f[2], f[3] >> : f \in Flat(t.n[x])} : x \in DOMAIN t.n}
    ELSE {<< <<>>, t.k, t.n >>}
Carries(i) == Flat(ToAny(heap, built[i].value))

\* However events share the maps of their payloads, each holds what it was built to
\* hold: deriving one from another never shows in the other.
Immutable == \A i \in DOMAIN built : Carries(i) = Flat(built[i].tree)

\* What comes back from the store is what was written, kinds and all, and through JSON
\* an integer that fits a float64 is still that integer.
CopiesFaithful ==
    \A j \in DOMAIN built :
       LET i == built[j].from
       IN  /\ built[j].via = "msgpack" =>
                 /\ Equal(heap, built[i].value, built[j].value) /\ built[i].context = built[j].context
                 /\ StateChanges(heap, built[i].value) = StateChanges(heap, built[j].value)
           /\ built[j].via \in {"msgpack", "json"} =>
                 MetaValue(heap, built[i].value, "protocol") = MetaValue(heap, built[j].value, "protocol")
           /\ built[j].via = "json" =>
                 \A f \in Carries(i) :
                    f[2] \in {"int", "uint"} /\ f[3] <= Mantissa => <<f[1], "int", f[3]>> \in Carries(j)

\* An id made while the clock is not behind the last one's is above every earlier id,
\* also after the counter ran over or the clock was set back.
Fresh(i) == built[i].via = "decode"
Below(a, b) == a[1] < b[1] \/ (a[1] = b[1] /\ a[2] < b[2])
IdsOrdered ==
    \A i, j \in DOMAIN built :
       i < j /\ Fresh(i) /\ Fresh(j) /\ ~built[j].late => Below(built[i].id, built[j].id)

\* Events keep their content, ids their order.
EventsKept == Immutable /\ CopiesFaithful /\ IdsOrdered
=============================================================================
