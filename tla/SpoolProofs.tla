---------------------------- MODULE SpoolProofs ----------------------------
(***************************************************************************)
(* Theorems about the spool, for every quota, segment size, cursor         *)
(* interval, batch size and bound.                                         *)
(***************************************************************************)
EXTENDS Spool, TLAPS, WellFoundedInduction, SequenceTheorems

(***************************************************************************)
(* Extreme elements of sets of naturals, which CHOOSE picks.               *)
(***************************************************************************)
\* A non-empty set of naturals has a least element.
LEMMA LeastExists ==
    ASSUME NEW S, S \subseteq Nat, S # {}
    PROVE  \E m \in S : \A x \in S : m <= x
<1>1. PICK m \in S : \A x \in S : ~ (<<x, m>> \in OpToRel(<, Nat))
  BY NatLessThanWellFounded, WFMin, Zenon
<1>2. \A x \in S : ~ (x < m)
  BY <1>1, Zenon DEF OpToRel
<1>3. QED
  BY <1>2

\* A non-empty set of naturals with an upper bound has a greatest element.
LEMMA GreatestExists ==
    ASSUME NEW b \in Nat, NEW S, S \subseteq 0 .. b, S # {}
    PROVE  \E m \in S : \A x \in S : x <= m
<1> DEFINE T == {n \in Nat : \E x \in S : n = b - x}
<1>1. T \subseteq Nat /\ T # {}
  <2>1. PICK x \in S : x \in 0 .. b
    OBVIOUS
  <2>2. b - x \in T
    BY <2>1
  <2>3. QED
    BY <2>2
<1>2. PICK t \in T : \A n \in T : t <= n
  BY <1>1, LeastExists
<1>3. PICK m \in S : t = b - m
  OBVIOUS
<1>4. ASSUME NEW x \in S
      PROVE  x <= m
  <2>1. b - x \in T
    OBVIOUS
  <2>2. QED
    BY <2>1, <1>2, <1>3
<1>5. QED
  BY <1>4

(***************************************************************************)
(* Type correctness.  bytes and nextIdx stay naturals because they count   *)
(* the index and a part of it; the last segment exists because the segment *)
(* numbers are bounded by the number of rolls.                             *)
(***************************************************************************)
Counts == bytes = Len(entries) /\ nextIdx <= Len(entries)
Segments == 1 .. accepted + downs + 1
SegmentsBounded == DOMAIN segs \subseteq Segments /\ (mode # "down" => wrCur.seg \in Segments)
TypeInv == TypeOK /\ Counts /\ SegmentsBounded

\* The last segment recover finds is one of the listed ones.
LEMMA LastSegment ==
    ASSUME TypeInv, DOMAIN segs # {}
    PROVE  LET last == CHOOSE s \in DOMAIN segs : \A t \in DOMAIN segs : t <= s
           IN  last \in DOMAIN segs /\ \A t \in DOMAIN segs : t <= last
<1>1. accepted + downs + 1 \in Nat /\ DOMAIN segs \subseteq 0 .. accepted + downs + 1
  BY DEF TypeInv, TypeOK, SegmentsBounded, Segments
<1>2. \E s \in DOMAIN segs : \A t \in DOMAIN segs : t <= s
  BY <1>1, GreatestExists
<1>3. QED
  BY <1>2

\* The scan of a segment stops inside the file, at the first torn record it meets.
LEMMA ScanEndFacts ==
    ASSUME TypeInv, NEW s \in DOMAIN segs, NEW off \in Nat
    PROVE  LET stop == ScanEnd(s, off)
           IN  /\ stop \in Nat /\ stop <= Len(segs[s])
               /\ off < Len(segs[s]) => off <= stop
               /\ stop < Len(segs[s]) => off <= stop /\ segs[s][stop + 1] = Torn
               /\ \A i \in off .. stop - 1 : segs[s][i + 1] # Torn
<1> DEFINE torn == {i \in off .. Len(segs[s]) - 1 : segs[s][i + 1] = Torn}
<1>1. segs[s] \in Seq(Nat) /\ Len(segs[s]) \in Nat
  BY DEF TypeInv, TypeOK
<1>2. CASE torn = {}
  <2>1. ScanEnd(s, off) = Len(segs[s])
    BY <1>2 DEF ScanEnd
  <2>2. PICK k \in Nat : k = Len(segs[s])
    BY <1>1
  <2>3. \A i \in off .. k - 1 : segs[s][i + 1] # Torn
    BY <1>2, <2>2
  <2>4. QED
    BY <2>1, <2>2, <2>3
<1>3. CASE torn # {}
  <2> DEFINE m == CHOOSE i \in torn : \A j \in torn : i <= j
  <2>1. ScanEnd(s, off) = m
    BY <1>3 DEF ScanEnd
  <2>2. torn \subseteq Nat
    BY <1>1
  <2>3. m \in torn /\ \A j \in torn : m <= j
    <3>1. \E i \in torn : \A j \in torn : i <= j
      BY ONLY <1>3, <2>2, LeastExists
    <3>2. QED
      BY ONLY <3>1
  <2> HIDE DEF m
  <2>4. QED
    BY <1>1, <2>1, <2>3
<1>4. QED
  BY <1>2, <1>3

\* Segment numbers are positive.
LEMMA SegmentsType ==
    ASSUME TypeInv
    PROVE  Segments \subseteq Nat \ {0} /\ accepted + downs + 1 \in Nat
  BY DEF TypeInv, TypeOK, Segments

\* The empty spool is well typed.
LEMMA TypeInit == Init => TypeInv
  BY SpoolAssumption DEF Init, TypeInv, TypeOK, Counts, SegmentsBounded, Segments,
     Position, Start, NoCursor

\* A Queue that is dropped leaves well-typed memory behind.
LEMMA DiscardType ==
    ASSUME TypeInv, Discard
    PROVE  /\ mode' = "down"
           /\ entries' \in Seq(Position) /\ nextIdx' \in Nat /\ bytes' \in Nat
           /\ wrCur' \in Position /\ scanPos' \in Position /\ files' = {}
           /\ ackSinceCS' \in Nat /\ dropped' \in 0 .. MaxDropped
           /\ retention' \in Retentions \cup {NoRetention}
           /\ DOMAIN segMeta' = {}
           /\ Counts'
  BY SpoolAssumption DEF Discard, Position, Start, Counts

\* The read position is a position.
LEMMA ReadCurType ==
    ASSUME NEW es \in Seq(Position), NEW wr \in Position
    PROVE  ReadCur(es, wr) \in Position
  BY DEF ReadCur

\* A saved index is a function from segment numbers to sizes.
LEMMA SavedSegMetaType ==
    ASSUME TypeInv
    PROVE  LET saved == SavedSegMeta(segMeta, idx)
           IN  /\ DOMAIN saved \subseteq Nat \ {0}
               /\ \A s \in DOMAIN saved : saved[s] \in Nat
  BY DEF SavedSegMeta, TypeInv, TypeOK

\* Rolling keeps the files and adds at most the next one.
LEMMA RolledType ==
    ASSUME TypeInv, mode = "open"
    PROVE  /\ RolledCur \in Position
           /\ DOMAIN RolledSegs = DOMAIN segs \cup {RolledCur.seg}
           /\ \A s \in DOMAIN RolledSegs : RolledSegs[s] \in Seq(Nat)
           /\ RolledCur.seg \in 1 .. accepted + downs + 2
           /\ DOMAIN RolledSegs \subseteq 1 .. accepted + downs + 2
<1>1. wrCur \in Position /\ wrCur.seg \in Nat \ {0} /\ wrCur.off \in Nat
  BY DEF TypeInv, TypeOK, Position
<1>2. RolledCur \in Position /\ RolledCur.seg \in {wrCur.seg, wrCur.seg + 1}
  BY <1>1 DEF RolledCur, Position
<1>3. RolledCur.seg \in 1 .. accepted + downs + 2
  BY <1>1, <1>2 DEF TypeInv, TypeOK, SegmentsBounded, Segments
<1>4. DOMAIN RolledSegs = DOMAIN segs \cup {RolledCur.seg}
  BY DEF RolledSegs
<1>5. \A s \in DOMAIN RolledSegs : RolledSegs[s] \in Seq(Nat)
  BY DEF RolledSegs, TypeInv, TypeOK
<1>6. DOMAIN RolledSegs \subseteq 1 .. accepted + downs + 2
  BY <1>3, <1>4 DEF TypeInv, TypeOK, SegmentsBounded, Segments
<1>7. QED
  BY <1>2, <1>3, <1>4, <1>5, <1>6

\* Open lists the files that are there.
LEMMA TypeOpen ==
    ASSUME TypeInv, NEW r \in Retentions, OpenBegin(r)
    PROVE  TypeInv'
<1> DEFINE listed == DOMAIN segs
           last   == IF listed = {} THEN 1 ELSE CHOOSE s \in listed : \A t \in listed : t <= s
           onDisk == IF listed = {} THEN [s \in {1} |-> << >>] ELSE segs
           stale  == IF ~r.on THEN {s \in listed : s < LoadedCursor.seg} ELSE {}
<1>1. last \in DOMAIN onDisk /\ DOMAIN onDisk \subseteq Segments
  <2>1. CASE listed = {}
    BY <2>1 DEF TypeInv, TypeOK, Segments
  <2>2. CASE listed # {}
    BY <2>2, LastSegment DEF TypeInv, SegmentsBounded
  <2>3. QED
    BY <2>1, <2>2
<1>2. \A s \in DOMAIN onDisk : onDisk[s] \in Seq(Nat)
  BY DEF TypeInv, TypeOK
<1>3. wrCur' = [seg |-> last, off |-> Len(onDisk[last])]
  BY DEF OpenBegin
<1>4. wrCur' \in Position /\ wrCur'.seg \in Segments
  <2> HIDE DEF last, onDisk
  <2>1. last \in Segments /\ last \in Nat \ {0} /\ Len(onDisk[last]) \in Nat
    BY <1>1, <1>2, SegmentsType
  <2>2. QED
    BY <1>3, <2>1 DEF Position
<1>5. segs' = Without(onDisk, stale) /\ idx' = Without(idx, stale)
  BY DEF OpenBegin, DropSegments
<1>6. /\ DOMAIN segs' \subseteq Segments
      /\ \A s \in DOMAIN segs' : segs'[s] \in Seq(Nat)
  BY <1>1, <1>2, <1>5 DEF Without
<1>7. DOMAIN idx' \subseteq Nat \ {0} /\ \A s \in DOMAIN idx' : idx'[s] \in Nat
  BY <1>5 DEF Without, TypeInv, TypeOK
<1>8. segMeta' = [s \in listed \ stale |-> IF s \in DOMAIN idx THEN idx[s] ELSE 0]
  BY DEF OpenBegin
<1>9. DOMAIN segMeta' \subseteq Nat \ {0} /\ \A s \in DOMAIN segMeta' : segMeta'[s] \in Nat
  BY <1>8 DEF TypeInv, TypeOK
<1>10. files' \subseteq Nat \ {0}
  <2>1. files' = {last} \ stale
    BY DEF OpenBegin
  <2>2. last \in Nat \ {0}
    BY <1>1, SegmentsType
  <2> HIDE DEF last, stale
  <2>3. QED
    BY <2>1, <2>2
<1>11. scanPos' \in Position
  <2>1. scanPos' = LoadedCursor
    BY DEF OpenBegin
  <2>2. QED
    BY <2>1 DEF LoadedCursor, TypeInv, TypeOK, Position, NoCursor
<1>12. /\ entries' = << >> /\ nextIdx' = 0 /\ bytes' = 0 /\ ackSinceCS' = 0 /\ dropped' = 0
       /\ mode' = "scanning" /\ retention' = r /\ UNCHANGED <<cursor, history>>
  BY DEF OpenBegin
<1>13. Segments' = Segments
  BY <1>12 DEF Segments, history
<1> HIDE DEF listed, last, onDisk, stale
<1>14. Counts'
  BY <1>12 DEF Counts
<1>15. SegmentsBounded'
  BY <1>4, <1>6, <1>13 DEF SegmentsBounded
<1>16. TypeOK'
  <2>1. DOMAIN segs' \subseteq Nat \ {0}
    BY <1>6, SegmentsType
  <2>2. 0 \in 0 .. MaxDropped
    BY SpoolAssumption
  <2>3. QED
    BY <1>4, <1>6, <1>7, <1>9, <1>10, <1>11, <1>12, <2>1, <2>2
       DEF TypeInv, TypeOK, history
<1>17. QED
  BY <1>14, <1>15, <1>16 DEF TypeInv

\* A scanned segment adds its complete records to the index.
LEMMA TypeScan ==
    ASSUME TypeInv, ScanSegment
    PROVE  TypeInv'
<1> DEFINE s    == scanPos.seg
           off  == scanPos.off
           stop == ScanEnd(s, off)
           cut  == stop < Len(segs[s])
           new  == [i \in 1 .. stop - off |-> [seg |-> s, off |-> off + i - 1]]
<1>1. /\ s \in DOMAIN segs /\ s \in Nat \ {0} /\ off \in Nat
      /\ segs[s] \in Seq(Nat) /\ entries \in Seq(Position) /\ bytes = Len(entries)
      /\ mode = "scanning"
  BY DEF ScanSegment, TypeInv, TypeOK, Position, Counts
<1>2. stop \in Nat /\ stop <= Len(segs[s])
  BY <1>1, ScanEndFacts
<1> HIDE DEF stop
<1>3. /\ entries' = IF off < stop THEN entries \o new ELSE entries
      /\ bytes' = IF off < stop THEN bytes + (stop - off) ELSE bytes
      /\ files' = files \cup {s}
      /\ segs' = IF cut THEN [segs EXCEPT ![s] = SubSeq(@, 1, stop)] ELSE segs
      /\ wrCur' = IF cut THEN [seg |-> s, off |-> stop] ELSE wrCur
      /\ scanPos' \in {[seg |-> s + 1, off |-> 0], Start}
      /\ mode' \in {"scanning", "open"}
      /\ UNCHANGED <<cursor, idx, nextIdx, ackSinceCS, dropped, retention, segMeta, history>>
  BY Zenon DEF ScanSegment, Indexed, Truncated, stop
<1>4. entries' \in Seq(Position) /\ bytes' = Len(entries') /\ Len(entries) <= Len(entries')
  <2>1. CASE off < stop
    <3>1. stop - off \in Nat /\ new \in [1 .. stop - off -> Position]
      BY <1>1, <1>2, <2>1 DEF Position
    <3>2. entries' = entries \o new /\ bytes' = Len(entries) + (stop - off)
      BY <1>1, <1>3, <2>1
    <3> HIDE DEF new, off
    <3>3. new \in Seq(Position) /\ Len(new) = stop - off
      BY <3>1
    <3>4. /\ entries \o new \in Seq(Position)
          /\ Len(entries \o new) = Len(entries) + Len(new)
          /\ Len(entries) \in Nat
      <4>1. entries \in Seq(Position)
        BY <1>1
      <4>2. QED
        BY ONLY <4>1, <3>3, ConcatProperties, LenProperties, Zenon
    <3>5. QED
      BY <3>1, <3>2, <3>3, <3>4
  <2>2. CASE ~(off < stop)
    BY <1>1, <1>3, <2>2
  <2>3. QED
    BY <2>1, <2>2
<1>5. DOMAIN segs' = DOMAIN segs /\ \A t \in DOMAIN segs' : segs'[t] \in Seq(Nat)
  <2>1. SubSeq(segs[s], 1, stop) \in Seq(Nat)
    BY <1>1, <1>2
  <2>2. QED
    BY <1>1, <1>3, <2>1 DEF TypeInv, TypeOK
<1>6. wrCur' \in Position /\ scanPos' \in Position /\ wrCur'.seg \in Segments
  <2>1. mode # "down" /\ wrCur \in Position /\ wrCur.seg \in Segments /\ s \in Segments
    BY <1>1, <1>3 DEF TypeInv, TypeOK, SegmentsBounded
  <2>2. [seg |-> s, off |-> stop] \in Position /\ [seg |-> s + 1, off |-> 0] \in Position
    BY <1>1, <1>2 DEF Position
  <2>3. Start \in Position
    BY DEF Position, Start
  <2>4. wrCur' = wrCur \/ wrCur' = [seg |-> s, off |-> stop]
    BY <1>3
  <2>5. scanPos' = Start \/ scanPos' = [seg |-> s + 1, off |-> 0]
    BY <1>3
  <2> HIDE DEF s
  <2>6. wrCur' \in Position /\ wrCur'.seg \in Segments
    BY <2>1, <2>2, <2>4
  <2>7. QED
    BY <2>2, <2>3, <2>5, <2>6
<1>7. Segments' = Segments
  BY <1>3 DEF Segments, history
<1> HIDE DEF new, cut
<1>8. Counts'
  BY <1>1, <1>3, <1>4 DEF Counts, TypeInv, TypeOK
<1>9. SegmentsBounded'
  BY <1>5, <1>6, <1>7 DEF SegmentsBounded, TypeInv
<1>10. TypeOK'
  <2>1. files' \subseteq Nat \ {0} /\ mode' \in {"down", "scanning", "open"} /\ bytes' \in Nat
    BY <1>1, <1>3, <1>4 DEF TypeInv, TypeOK
  <2>2. UNCHANGED <<cursor, idx, nextIdx, ackSinceCS, dropped, retention, segMeta, history>>
    BY <1>3
  <2>3. DOMAIN segs' \subseteq Nat \ {0}
    BY <1>5 DEF TypeInv, TypeOK
  <2>4. QED
    BY <1>4, <1>5, <1>6, <2>1, <2>2, <2>3 DEF TypeInv, TypeOK, history
<1>11. QED
  BY <1>8, <1>9, <1>10 DEF TypeInv

\* Append writes one record, perhaps into a new segment.
LEMMA TypeAppend ==
    ASSUME TypeInv, AppendPacket
    PROVE  TypeInv'
<1> DEFINE w == RolledCur
<1>1. /\ mode = "open" /\ mode' = mode /\ accepted < MaxPackets /\ accepted' = accepted + 1
      /\ segs' = [RolledSegs EXCEPT ![w.seg] = Append(@, accepted + 1)]
      /\ segMeta' = NotedSegMeta(w.seg)
      /\ entries' = Append(entries, w)
      /\ wrCur' = [w EXCEPT !.off = @ + 1]
      /\ files' = files \cup {w.seg}
      /\ bytes' = bytes + 1
      /\ UNCHANGED <<cursor, idx, nextIdx, ackSinceCS, dropped, retention,
                     scanPos, delivered, acked, gone, downs>>
  BY DEF AppendPacket
<1>2. /\ w \in Position /\ w.seg \in DOMAIN RolledSegs
      /\ \A s \in DOMAIN RolledSegs : RolledSegs[s] \in Seq(Nat)
      /\ w.seg \in 1 .. accepted + downs + 2
      /\ DOMAIN RolledSegs \subseteq 1 .. accepted + downs + 2
  BY <1>1, RolledType
<1> HIDE DEF w
<1>3. accepted \in Nat /\ accepted' \in 0 .. MaxPackets /\ downs \in Nat
  <2>1. accepted \in 0 .. MaxPackets /\ downs \in 0 .. MaxDowns
    BY DEF TypeInv, TypeOK
  <2>2. QED
    BY <1>1, <2>1, SpoolAssumption
<1>4. Segments' = 1 .. accepted + downs + 2
  BY <1>1, <1>3 DEF Segments
<1>5. DOMAIN segs' = DOMAIN RolledSegs /\ \A s \in DOMAIN segs' : segs'[s] \in Seq(Nat)
  <2>1. Append(RolledSegs[w.seg], accepted + 1) \in Seq(Nat)
    BY <1>2, <1>3
  <2>2. QED
    BY <1>1, <1>2, <2>1
<1>6. wrCur' \in Position /\ wrCur'.seg = w.seg
  BY SMTT(20), <1>1, <1>2 DEF Position
<1>7. entries' \in Seq(Position) /\ Len(entries') = Len(entries) + 1
  BY <1>1, <1>2 DEF TypeInv, TypeOK
<1>8. DOMAIN segMeta' \subseteq Nat \ {0} /\ \A s \in DOMAIN segMeta' : segMeta'[s] \in Nat
  <2>1. w.seg \in Nat \ {0}
    BY <1>2 DEF Position
  <2>2. \A t \in DOMAIN segMeta : segMeta[t] \in Nat /\ t \in Nat \ {0}
    BY DEF TypeInv, TypeOK
  <2>3. QED
    BY <1>1, <2>1, <2>2 DEF NotedSegMeta
<1>9. Counts'
  BY <1>1, <1>7 DEF Counts, TypeInv, TypeOK
<1>10. SegmentsBounded'
  BY <1>2, <1>4, <1>5, <1>6 DEF SegmentsBounded
<1>11. TypeOK'
  <2>1. files' \subseteq Nat \ {0}
    BY <1>1, <1>2 DEF Position, TypeInv, TypeOK
  <2>2. DOMAIN segs' \subseteq Nat \ {0}
    BY <1>2, <1>3, <1>5
  <2>3. bytes' \in Nat
    BY <1>1 DEF TypeInv, TypeOK
  <2>4. QED
    BY <1>1, <1>3, <1>5, <1>6, <1>7, <1>8, <2>1, <2>2, <2>3 DEF TypeInv, TypeOK
<1>12. QED
  BY <1>9, <1>10, <1>11 DEF TypeInv

\* What is read from a file is a number.
LEMMA PacketsType ==
    ASSUME TypeInv, NEW I \in SUBSET (1 .. Len(entries))
    PROVE  Packets(I) \subseteq Nat
<1>1. ASSUME NEW i \in I, OnDisk(entries[i])
      PROVE  PacketAt(entries[i]) \in Nat
  <2>1. entries[i] \in Position /\ entries[i].off \in Nat
    <3>1. i \in 1 .. Len(entries) /\ entries \in Seq(Position)
      BY DEF TypeInv, TypeOK
    <3>2. entries[i] \in Position
      BY <3>1
    <3>3. QED
      BY <3>2 DEF Position
  <2>2. segs[entries[i].seg] \in Seq(Nat) /\ entries[i].off + 1 \in 1 .. Len(segs[entries[i].seg])
    BY SMTT(20), <1>1, <2>1 DEF OnDisk, TypeInv, TypeOK
  <2>3. QED
    BY <2>2 DEF PacketAt
<1>2. QED
  BY <1>1 DEF Packets

\* What one Next hands out is a non-empty run that starts behind nextIdx.
LEMMA NextBatchFacts ==
    ASSUME TypeInv, NEW n \in 1 .. MaxBatch, NextBatch(n)
    PROVE  /\ nextIdx' \in nextIdx + 1 .. Len(entries)
           /\ files' = files \cup {entries[nextIdx + 1].seg}
           /\ delivered' = delivered \cup Packets(nextIdx + 1 .. nextIdx')
<1> DEFINE avail == Len(entries) - nextIdx
           head  == entries[nextIdx + 1]
           upTo  == nextIdx + Lesser(n, avail)
           same  == {i \in nextIdx + 1 .. upTo :
                       \A j \in nextIdx + 1 .. i : entries[j].seg = head.seg}
           last  == CHOOSE i \in same : \A j \in same : j <= i
<1>1. /\ avail > 0 /\ nextIdx' = last
      /\ files' = files \cup {head.seg}
      /\ delivered' = delivered \cup Packets(same)
  BY DEF NextBatch
<1>2. nextIdx \in Nat /\ Len(entries) \in Nat /\ n \in Nat \ {0}
  BY SpoolAssumption DEF TypeInv, TypeOK
<1>3. upTo \in nextIdx + 1 .. Len(entries)
  BY <1>1, <1>2 DEF Lesser
<1>4. nextIdx + 1 \in same /\ same \subseteq 0 .. Len(entries) /\ same \subseteq nextIdx + 1 .. upTo
  BY <1>2, <1>3
<1>5. last \in same /\ \A j \in same : j <= last
  <2>1. \E i \in same : \A j \in same : j <= i
    BY ONLY <1>2, <1>4, GreatestExists
  <2>2. QED
    BY ONLY <2>1
<1>6. \A i \in nextIdx + 1 .. last : i \in same
  <2>1. last \in nextIdx + 1 .. upTo /\ \A j \in nextIdx + 1 .. last : entries[j].seg = head.seg
    BY <1>5
  <2> HIDE DEF last
  <2>2. QED
    BY <1>2, <1>3, <2>1
<1> HIDE DEF last, same, upTo
<1>7. nextIdx' \in nextIdx + 1 .. Len(entries)
  BY <1>1, <1>2, <1>3, <1>4, <1>5
<1>8. same = nextIdx + 1 .. nextIdx'
  <2>1. same \subseteq nextIdx + 1 .. last
    BY <1>2, <1>3, <1>4, <1>5
  <2>2. QED
    BY <1>1, <1>6, <2>1
<1>9. QED
  BY <1>1, <1>7, <1>8

\* Next moves the in-flight mark within the index.
LEMMA TypeDeliver ==
    ASSUME TypeInv, NEW n \in 1 .. MaxBatch, NextBatch(n)
    PROVE  TypeInv'
<1>1. UNCHANGED <<disk, mode, entries, bytes, wrCur, ackSinceCS, dropped,
                  retention, segMeta, scanPos, accepted, acked, gone, downs>>
  BY DEF NextBatch
<1>2. nextIdx' \in nextIdx + 1 .. Len(entries) /\ nextIdx \in Nat /\ Len(entries) \in Nat
  BY NextBatchFacts DEF TypeInv, TypeOK
<1>3. nextIdx' \in Nat /\ nextIdx' <= Len(entries)
  BY <1>2
<1>4. delivered' \subseteq Nat
  <2>1. nextIdx + 1 .. nextIdx' \in SUBSET (1 .. Len(entries))
    BY <1>2, <1>3
  <2>2. QED
    BY <2>1, NextBatchFacts, PacketsType DEF TypeInv, TypeOK
<1>5. files' \subseteq Nat \ {0}
  <2>1. entries[nextIdx + 1] \in Position
    BY <1>2 DEF TypeInv, TypeOK
  <2>2. QED
    BY <2>1, NextBatchFacts DEF TypeInv, TypeOK, Position
<1>6. TypeOK'
  BY <1>1, <1>3, <1>4, <1>5 DEF TypeInv, TypeOK, disk
<1>7. Counts' /\ SegmentsBounded'
  BY <1>1, <1>3 DEF TypeInv, Counts, SegmentsBounded, Segments, disk
<1>8. QED
  BY <1>6, <1>7 DEF TypeInv

\* The confirmation of k records in flight drops the first k of the index.
LEMMA AckFacts ==
    ASSUME TypeInv, NEW n \in 1 .. MaxBatch, NEW saveFails \in BOOLEAN, AckN(n, saveFails)
    PROVE  LET k == AckCount(n)
           IN  /\ k \in 1 .. nextIdx /\ k \in 1 .. Len(entries)
               /\ entries' = SubSeq(entries, k + 1, Len(entries))
               /\ entries' \in Seq(Position) /\ Len(entries') = Len(entries) - k
               /\ \A i \in 1 .. Len(entries') : entries'[i] = entries[i + k]
               /\ bytes' = bytes - k /\ nextIdx' = nextIdx - k
               /\ acked' = acked \cup Packets(1 .. k)
<1> DEFINE k == AckCount(n)
<1>1. /\ k > 0 /\ entries' = SubSeq(entries, k + 1, Len(entries))
      /\ bytes' = bytes - k /\ nextIdx' = nextIdx - k
      /\ acked' = acked \cup Packets(1 .. k)
  BY DEF AckN
<1>2. nextIdx \in Nat /\ entries \in Seq(Position) /\ Len(entries) \in Nat /\ nextIdx <= Len(entries)
  BY DEF TypeInv, TypeOK, Counts
<1>3. k \in 1 .. nextIdx /\ k \in 1 .. Len(entries)
  BY <1>1, <1>2, SpoolAssumption DEF AckCount, Lesser
<1> HIDE DEF k
<1>4. /\ entries' \in Seq(Position) /\ Len(entries') = Len(entries) - k
      /\ \A i \in 1 .. Len(entries') : entries'[i] = entries[i + k]
  BY <1>1, <1>2, <1>3
<1>5. QED
  BY <1>1, <1>3, <1>4 DEF k

\* AckN takes records off the head of the index.
LEMMA TypeAck ==
    ASSUME TypeInv, NEW n \in 1 .. MaxBatch, NEW saveFails \in BOOLEAN, AckN(n, saveFails)
    PROVE  TypeInv'
<1> DEFINE k == AckCount(n)
<1>1. /\ k \in 1 .. nextIdx /\ k \in 1 .. Len(entries)
      /\ entries' \in Seq(Position) /\ Len(entries') = Len(entries) - k
      /\ bytes' = bytes - k /\ nextIdx' = nextIdx - k
      /\ acked' = acked \cup Packets(1 .. k)
  BY AckFacts
<1>2. /\ \E drop : /\ segs' = Without(segs, drop) /\ idx' = Without(idx, drop)
                   /\ segMeta' = Without(segMeta, drop) /\ files' = files \ drop
      /\ cursor' \in {cursor, ReadCur(entries', wrCur)}
      /\ ackSinceCS' \in {0, ackSinceCS + k}
      /\ UNCHANGED <<mode, wrCur, dropped, retention, scanPos, accepted, delivered, gone, downs>>
  BY DEF AckN, DropSegments
<1> HIDE DEF k
<1>3. PICK drop : /\ segs' = Without(segs, drop) /\ idx' = Without(idx, drop)
                  /\ segMeta' = Without(segMeta, drop) /\ files' = files \ drop
  BY <1>2
<1>4. /\ DOMAIN segs' \subseteq DOMAIN segs /\ \A s \in DOMAIN segs' : segs'[s] \in Seq(Nat)
      /\ DOMAIN idx' \subseteq Nat \ {0} /\ \A s \in DOMAIN idx' : idx'[s] \in Nat
      /\ DOMAIN segMeta' \subseteq Nat \ {0} /\ \A s \in DOMAIN segMeta' : segMeta'[s] \in Nat
      /\ files' \subseteq Nat \ {0}
  BY <1>3 DEF Without, TypeInv, TypeOK
<1>5. cursor' \in Position \cup {NoCursor}
  BY <1>1, <1>2, ReadCurType DEF TypeInv, TypeOK
<1>6. ackSinceCS' \in Nat /\ nextIdx' \in Nat /\ bytes' \in Nat
  BY <1>1, <1>2 DEF TypeInv, TypeOK, Counts
<1>7. acked' \subseteq Nat
  <2>1. 1 .. k \in SUBSET (1 .. Len(entries))
    BY <1>1 DEF TypeInv, TypeOK
  <2>2. QED
    BY <1>1, <2>1, PacketsType DEF TypeInv, TypeOK
<1>8. Counts'
  BY <1>1 DEF TypeInv, TypeOK, Counts
<1>9. SegmentsBounded'
  BY <1>2, <1>4 DEF TypeInv, SegmentsBounded, Segments
<1>10. TypeOK'
  BY <1>1, <1>2, <1>4, <1>5, <1>6, <1>7 DEF TypeInv, TypeOK
<1>11. QED
  BY <1>8, <1>9, <1>10 DEF TypeInv

\* Steps that leave the files, the index and the write position alone.
LEMMA TypeQuiet ==
    ASSUME TypeInv, AppendFull \/ AppendFails \/ Requeue \/ SetRetention
    PROVE  TypeInv'
<1>1. /\ UNCHANGED <<disk, mode, entries, bytes, wrCur, files, ackSinceCS, segMeta, scanPos, history>>
      /\ nextIdx' \in {nextIdx, 0}
      /\ dropped' = dropped \/ (dropped < MaxDropped /\ dropped' = dropped + 1)
      /\ retention' \in Retentions \cup {retention}
  BY DEF AppendFull, AppendFails, Requeue, SetRetention, EnableRetention
<1>2. dropped' \in 0 .. MaxDropped
  <2>1. dropped \in 0 .. MaxDropped
    BY DEF TypeInv, TypeOK
  <2>2. QED
    BY <1>1, <2>1, SpoolAssumption
<1>3. nextIdx' \in Nat /\ nextIdx' <= Len(entries)
  BY <1>1 DEF TypeInv, TypeOK, Counts
<1>4. retention' \in Retentions \cup {NoRetention}
  BY <1>1 DEF TypeInv, TypeOK
<1>5. Counts' /\ SegmentsBounded'
  BY <1>1, <1>3 DEF TypeInv, Counts, SegmentsBounded, Segments, disk, history
<1>6. TypeOK'
  BY <1>1, <1>2, <1>3, <1>4 DEF TypeInv, TypeOK, disk, history
<1>7. QED
  BY <1>5, <1>6 DEF TypeInv

\* EnforceRetention removes whole segments.
LEMMA TypeEnforce ==
    ASSUME TypeInv, EnforceRetention
    PROVE  TypeInv'
<1>1. \E drop :
        /\ segMeta' = Without(segMeta, drop)
        /\ segs' = Without(segs, drop)
        /\ idx' = Without(SavedSegMeta(segMeta, idx), drop)
        /\ files' = files \ drop
  BY DEF EnforceRetention, DropSegments
<1>2. UNCHANGED <<cursor, mode, entries, nextIdx, bytes, wrCur, ackSinceCS, dropped,
                  retention, scanPos, history>>
  BY DEF EnforceRetention
<1>3. PICK drop :
        /\ segMeta' = Without(segMeta, drop)
        /\ segs' = Without(segs, drop)
        /\ idx' = Without(SavedSegMeta(segMeta, idx), drop)
        /\ files' = files \ drop
  BY <1>1
<1>4. /\ DOMAIN segs' \subseteq DOMAIN segs /\ \A s \in DOMAIN segs' : segs'[s] \in Seq(Nat)
      /\ DOMAIN segMeta' \subseteq Nat \ {0} /\ \A s \in DOMAIN segMeta' : segMeta'[s] \in Nat
      /\ files' \subseteq Nat \ {0}
  BY <1>3 DEF Without, TypeInv, TypeOK
<1>5. DOMAIN idx' \subseteq Nat \ {0} /\ \A s \in DOMAIN idx' : idx'[s] \in Nat
  <2> DEFINE saved == SavedSegMeta(segMeta, idx)
  <2>1. DOMAIN saved \subseteq Nat \ {0} /\ \A s \in DOMAIN saved : saved[s] \in Nat
    BY SavedSegMetaType
  <2> HIDE DEF saved
  <2>2. idx' = Without(saved, drop)
    BY <1>3 DEF saved
  <2>3. QED
    BY <2>1, <2>2 DEF Without
<1>6. Counts' /\ SegmentsBounded'
  BY <1>2, <1>4 DEF TypeInv, Counts, SegmentsBounded, Segments, history
<1>7. TypeOK'
  BY <1>2, <1>4, <1>5 DEF TypeInv, TypeOK, history
<1>8. QED
  BY <1>6, <1>7 DEF TypeInv

\* Steps after which there is no Queue any more.
LEMMA TypeStop ==
    ASSUME TypeInv, Discard,
           cursor' \in Position \cup {NoCursor},
           DOMAIN idx' \subseteq Nat \ {0}, \A s \in DOMAIN idx' : idx'[s] \in Nat,
           downs' \in {downs, downs + 1}, downs' \in 0 .. MaxDowns,
           DOMAIN segs' \subseteq Segments', \A s \in DOMAIN segs' : segs'[s] \in Seq(Nat),
           gone' \subseteq Nat, UNCHANGED <<accepted, delivered, acked>>
    PROVE  TypeInv'
<1>1. DOMAIN segs' \subseteq Nat \ {0}
  <2>1. accepted \in 0 .. MaxPackets
    BY DEF TypeInv, TypeOK
  <2>2. accepted' + downs' + 1 \in Nat
    <3>1. accepted' = accepted /\ downs' \in 0 .. MaxDowns
      OBVIOUS
    <3>2. accepted' \in Nat /\ downs' \in Nat
      BY <2>1, <3>1, SpoolAssumption
    <3>3. \A a, d \in Nat : a + d + 1 \in Nat
      OBVIOUS
    <3>4. QED
      BY ONLY <3>2, <3>3, Zenon
  <2>3. QED
    BY <2>2 DEF Segments
<1>2. SegmentsBounded'
  BY DiscardType DEF SegmentsBounded
<1>3. TypeOK'
  BY <1>1, DiscardType DEF TypeInv, TypeOK
<1>4. QED
  BY <1>2, <1>3, DiscardType DEF TypeInv

\* Close saves the read position.
LEMMA TypeClose ==
    ASSUME TypeInv, Close \/ OpenFails
    PROVE  TypeInv'
<1>1. /\ Discard /\ cursor' = ReadCur(entries, wrCur) /\ idx' = SavedSegMeta(segMeta, idx)
      /\ downs' = downs \/ (downs < MaxDowns /\ downs' = downs + 1)
      /\ UNCHANGED <<segs, accepted, delivered, acked, gone>>
  BY DEF Close, OpenFails, history
<1>2. cursor' \in Position
  BY <1>1, ReadCurType DEF TypeInv, TypeOK
<1>3. DOMAIN idx' \subseteq Nat \ {0} /\ \A s \in DOMAIN idx' : idx'[s] \in Nat
  BY <1>1, SavedSegMetaType
<1>4. downs' \in 0 .. MaxDowns /\ downs' \in {downs, downs + 1}
  <2>1. downs \in 0 .. MaxDowns
    BY DEF TypeInv, TypeOK
  <2>2. QED
    BY <1>1, <2>1, SpoolAssumption
<1>5. DOMAIN segs' \subseteq Segments'
  BY <1>1, <1>4, SpoolAssumption DEF TypeInv, TypeOK, SegmentsBounded, Segments
<1>6. (\A s \in DOMAIN segs' : segs'[s] \in Seq(Nat)) /\ gone' \subseteq Nat
  BY <1>1 DEF TypeInv, TypeOK
<1>7. QED
  BY <1>1, <1>2, <1>3, <1>4, <1>5, <1>6, TypeStop

\* A crash may leave a torn record or an empty segment.
LEMMA TypeCrash ==
    ASSUME TypeInv, Crash
    PROVE  TypeInv'
<1>1. /\ Discard /\ downs < MaxDowns /\ downs' = downs + 1
      /\ UNCHANGED <<cursor, idx, accepted, delivered, acked, gone>>
      /\ \/ segs' = segs
         \/ /\ mode = "open"
            /\ segs' \in {RolledSegs, [RolledSegs EXCEPT ![RolledCur.seg] = Append(@, Torn)]}
  BY DEF Crash
<1>2. downs' \in 0 .. MaxDowns /\ accepted \in Nat /\ downs \in Nat
  <2>1. downs \in 0 .. MaxDowns /\ accepted \in 0 .. MaxPackets
    BY DEF TypeInv, TypeOK
  <2>2. QED
    BY <1>1, <2>1, SpoolAssumption
<1>3. Segments' = 1 .. accepted + downs + 2
  BY <1>1, <1>2 DEF Segments
<1>4. DOMAIN segs' \subseteq Segments' /\ \A s \in DOMAIN segs' : segs'[s] \in Seq(Nat)
  <2>1. CASE segs' = segs
    <3>1. Segments \subseteq Segments'
      <4>1. Segments = 1 .. accepted + downs + 1
        BY DEF Segments
      <4>2. QED
        BY ONLY <1>2, <1>3, <4>1
    <3>2. QED
      BY <2>1, <3>1 DEF TypeInv, TypeOK, SegmentsBounded
  <2>2. CASE mode = "open" /\ segs' = RolledSegs
    BY <1>3, <2>2, RolledType
  <2>3. CASE mode = "open" /\ segs' = [RolledSegs EXCEPT ![RolledCur.seg] = Append(@, Torn)]
    <3>1. /\ DOMAIN RolledSegs \subseteq Segments' /\ RolledCur.seg \in DOMAIN RolledSegs
          /\ \A s \in DOMAIN RolledSegs : RolledSegs[s] \in Seq(Nat)
      BY <1>3, <2>3, RolledType
    <3>2. Append(RolledSegs[RolledCur.seg], Torn) \in Seq(Nat)
      BY <3>1 DEF Torn
    <3>3. QED
      BY <2>3, <3>1, <3>2
  <2>4. QED
    BY <1>1, <2>1, <2>2, <2>3
<1>5. /\ cursor' \in Position \cup {NoCursor}
      /\ DOMAIN idx' \subseteq Nat \ {0} /\ \A s \in DOMAIN idx' : idx'[s] \in Nat
      /\ gone' \subseteq Nat
  BY <1>1 DEF TypeInv, TypeOK
<1>6. QED
  BY <1>1, <1>2, <1>4, <1>5, TypeStop

\* A power loss cuts the last file.
LEMMA TypePower ==
    ASSUME TypeInv, PowerLoss
    PROVE  TypeInv'
<1>1. /\ Discard /\ downs < MaxDowns /\ downs' = downs + 1
      /\ UNCHANGED <<cursor, idx, accepted, delivered, acked>>
      /\ wrCur.seg \in DOMAIN segs
  BY DEF PowerLoss
<1>2. PICK n \in Nat :
        /\ n <= Len(segs[wrCur.seg])
        /\ segs' = [segs EXCEPT ![wrCur.seg] = SubSeq(segs[wrCur.seg], 1, n)]
        /\ gone' = gone \cup {segs[wrCur.seg][i] : i \in n + 1 .. Len(segs[wrCur.seg])}
  <2> DEFINE file  == segs[wrCur.seg]
             least == IF Len(file) > SyncWindow THEN Len(file) - SyncWindow ELSE 0
  <2>1. file \in Seq(Nat) /\ Len(file) \in Nat
    BY <1>1 DEF TypeInv, TypeOK
  <2>2. least \in Nat
    BY <2>1, SpoolAssumption
  <2>3. PICK n \in least .. Len(file) :
          /\ segs' = [segs EXCEPT ![wrCur.seg] = SubSeq(file, 1, n)]
          /\ gone' = gone \cup {file[i] : i \in n + 1 .. Len(file)}
    BY DEF PowerLoss
  <2>4. n \in Nat /\ n <= Len(file)
    BY <2>1, <2>2
  <2>5. QED
    BY <2>3, <2>4
<1>3. downs' \in 0 .. MaxDowns /\ accepted \in Nat /\ downs \in Nat
  <2>1. downs \in 0 .. MaxDowns /\ accepted \in 0 .. MaxPackets
    BY DEF TypeInv, TypeOK
  <2>2. QED
    BY <1>1, <2>1, SpoolAssumption
<1>4. Segments \subseteq Segments'
  BY <1>1, <1>3 DEF Segments
<1>5. segs[wrCur.seg] \in Seq(Nat) /\ SubSeq(segs[wrCur.seg], 1, n) \in Seq(Nat)
  <2>1. segs[wrCur.seg] \in Seq(Nat)
    BY <1>1 DEF TypeInv, TypeOK
  <2>2. QED
    BY <1>2, <2>1
<1>6. DOMAIN segs' \subseteq Segments' /\ \A s \in DOMAIN segs' : segs'[s] \in Seq(Nat)
  BY <1>1, <1>2, <1>4, <1>5 DEF TypeInv, TypeOK, SegmentsBounded
<1>7. gone' \subseteq Nat
  <2>1. \A i \in n + 1 .. Len(segs[wrCur.seg]) : segs[wrCur.seg][i] \in Nat
    BY <1>2, <1>5
  <2>2. gone \subseteq Nat
    BY DEF TypeInv, TypeOK
  <2>3. QED
    BY <1>2, <2>1, <2>2
<1>8. /\ cursor' \in Position \cup {NoCursor}
      /\ DOMAIN idx' \subseteq Nat \ {0} /\ \A s \in DOMAIN idx' : idx'[s] \in Nat
  BY <1>1 DEF TypeInv, TypeOK
<1>9. QED
  BY <1>1, <1>3, <1>6, <1>7, <1>8, TypeStop

\* Every step keeps the type invariant.
LEMMA TypeStep == TypeInv /\ [Next]_vars => TypeInv'
<1> SUFFICES ASSUME TypeInv, [Next]_vars
             PROVE  TypeInv'
  OBVIOUS
<1>1. CASE Open
  BY <1>1, TypeOpen DEF Open
<1>2. CASE ScanSegment
  BY <1>2, TypeScan
<1>3. CASE OpenFails \/ Close
  BY <1>3, TypeClose
<1>4. CASE AppendPacket
  BY <1>4, TypeAppend
<1>5. CASE AppendFull \/ AppendFails \/ Requeue \/ SetRetention
  BY <1>5, TypeQuiet
<1>6. CASE Deliver
  BY <1>6, TypeDeliver DEF Deliver
<1>7. CASE Acknowledge
  BY <1>7, TypeAck DEF Acknowledge
<1>8. CASE EnforceRetention
  BY <1>8, TypeEnforce
<1>9. CASE Crash
  BY <1>9, TypeCrash
<1>10. CASE PowerLoss
  BY <1>10, TypePower
<1>11. CASE UNCHANGED vars
  BY <1>11 DEF vars, disk, memory, history, TypeInv, TypeOK, Counts, SegmentsBounded, Segments
<1>12. QED
  BY <1>1, <1>2, <1>3, <1>4, <1>5, <1>6, <1>7, <1>8, <1>9, <1>10, <1>11 DEF Next

\* Whatever the quota, the segment size, the retention policies and the faults,
\* the queue and its files stay well typed: the byte count never goes negative
\* and no more records are in flight than the index holds.
THEOREM TypeCorrect == Spec => [](TypeOK /\ Counts)
<1>1. TypeInv => TypeOK /\ Counts
  BY DEF TypeInv
<1>2. QED
  BY TypeInit, TypeStep, <1>1, PTL DEF Spec

(***************************************************************************)
(* No loss.  The invariant follows a packet that is not confirmed: its     *)
(* record is on disk at or behind the cursor, every segment from the       *)
(* cursor on is there, and a torn record can only be the very last one.    *)
(* Without crashes the cursor file is only read after Close has saved it,  *)
(* so nothing is asked of it while the queue is open; with crashes it must *)
(* be right in every state.                                                *)
(***************************************************************************)
\* The configurations in which nothing is lost: no window, no power loss, and
\* archive mode wherever the process may crash.
SafeConfig ==
    /\ Retentions \subseteq {NoRetention, KeepAll}
    /\ "power" \notin Faults
    /\ "crash" \in Faults => NoRetention \notin Retentions

AtOrAfter(p, c) == p.seg > c.seg \/ (p.seg = c.seg /\ p.off >= c.off)
At(s, i) == [seg |-> s, off |-> i - 1]

TornLast ==
    \A s \in DOMAIN segs : \A i \in 1 .. Len(segs[s]) :
        segs[s][i] = Torn =>
            mode # "open" /\ i = Len(segs[s]) /\ \A t \in DOMAIN segs : t <= s

\* a cursor from which recover finds every segment that follows
GoodCursor(c) ==
    /\ c.seg \in DOMAIN segs
    /\ \A s \in DOMAIN segs : \A t \in c.seg .. s : t \in DOMAIN segs
    /\ c.off <= Len(segs[c.seg])
    /\ \A i \in 1 .. Len(segs[c.seg]) : segs[c.seg][i] = Torn => c.off < i

\* every packet without a confirmation has its record at or behind c
Covers(c) ==
    \A p \in 1 .. accepted : p \in acked \/
        \E s \in DOMAIN segs : \E i \in 1 .. Len(segs[s]) :
            segs[s][i] = p /\ AtOrAfter(At(s, i), c)

CursorInv ==
    mode # "open" \/ "crash" \in Faults =>
        \/ DOMAIN segs = {} /\ accepted = 0 /\ mode = "down" /\ LoadedCursor = Start
        \/ DOMAIN segs # {} /\ GoodCursor(LoadedCursor) /\ Covers(LoadedCursor)

WriteInv ==
    mode # "down" =>
        /\ wrCur.seg \in DOMAIN segs /\ \A t \in DOMAIN segs : t <= wrCur.seg
        /\ wrCur.off = Len(segs[wrCur.seg])
        /\ retention \in Retentions

IndexInv ==
    mode # "down" =>
        /\ \A k \in 1 .. Len(entries) : OnDisk(entries[k])
        /\ \A j, k \in 1 .. Len(entries) : j < k => AtOrAfter(entries[k], entries[j])

ScanInv ==
    mode = "scanning" =>
        LET c == LoadedCursor
        IN  /\ scanPos.seg \in DOMAIN segs
            /\ \/ scanPos = c /\ entries = << >>
               \/ scanPos.off = 0 /\ scanPos.seg > c.seg
            /\ \A k \in 1 .. Len(entries) : entries[k].seg < scanPos.seg /\ AtOrAfter(entries[k], c)
            /\ \A s \in DOMAIN segs : \A i \in 1 .. Len(segs[s]) :
                 s < scanPos.seg /\ AtOrAfter(At(s, i), c) =>
                     \E k \in 1 .. Len(entries) : entries[k] = At(s, i)

OpenInv ==
    mode = "open" =>
        /\ entries # << >> =>
             \A t \in entries[1].seg .. wrCur.seg : t \in DOMAIN segs
        /\ \A p \in 1 .. accepted : p \in acked \/ p \in Packets(1 .. Len(entries))

LossInv == TornLast /\ CursorInv /\ WriteInv /\ IndexInv /\ ScanInv /\ OpenInv

\* Types the steps below use over and over.
LEMMA DiskFacts ==
    ASSUME TypeInv
    PROVE  /\ LoadedCursor \in Position /\ LoadedCursor.seg \in Nat \ {0} /\ LoadedCursor.off \in Nat
           /\ \A s \in DOMAIN segs : /\ s \in Nat \ {0} /\ segs[s] \in Seq(Nat) /\ Len(segs[s]) \in Nat
           /\ wrCur.seg \in Nat \ {0} /\ wrCur.off \in Nat /\ wrCur = [seg |-> wrCur.seg, off |-> wrCur.off]
           /\ scanPos.seg \in Nat \ {0} /\ scanPos.off \in Nat
           /\ Len(entries) \in Nat
           /\ \A k \in 1 .. Len(entries) :
                entries[k] \in Position /\ entries[k].seg \in Nat \ {0} /\ entries[k].off \in Nat
<1>1. LoadedCursor \in Position
  BY DEF LoadedCursor, TypeInv, TypeOK, Position, NoCursor
<1>2. \A s \in DOMAIN segs : /\ s \in Nat \ {0} /\ segs[s] \in Seq(Nat) /\ Len(segs[s]) \in Nat
  BY DEF TypeInv, TypeOK
<1>3. wrCur \in Position /\ scanPos \in Position
  BY DEF TypeInv, TypeOK
<1>4. Len(entries) \in Nat /\ \A k \in 1 .. Len(entries) : entries[k] \in Position
  BY DEF TypeInv, TypeOK
<1>5. QED
  BY <1>1, <1>2, <1>3, <1>4 DEF Position

\* Nothing is lost at first.
LEMMA LossInit == Init => LossInv
  BY DEF Init, LossInv, TornLast, CursorInv, WriteInv, IndexInv, ScanInv, OpenInv,
     LoadedCursor, NoCursor, Start

\* Open keeps the invariant: the scan will start at a good position.
LEMMA LossOpen ==
    ASSUME TypeInv, LossInv, NEW r \in Retentions, OpenBegin(r)
    PROVE  LossInv'
<1> DEFINE listed == DOMAIN segs
           last   == IF listed = {} THEN 1 ELSE CHOOSE s \in listed : \A t \in listed : t <= s
           onDisk == IF listed = {} THEN [s \in {1} |-> << >>] ELSE segs
           c      == LoadedCursor
           stale  == IF ~r.on THEN {s \in listed : s < c.seg} ELSE {}
<1>1. /\ mode = "down" /\ mode' = "scanning" /\ entries' = << >> /\ retention' = r
      /\ wrCur' = [seg |-> last, off |-> Len(onDisk[last])]
      /\ segs' = Without(onDisk, stale) /\ scanPos' = c
      /\ cursor' = cursor /\ accepted' = accepted /\ acked' = acked
  BY DEF OpenBegin, DropSegments, history
<1>2. LoadedCursor' = c
  BY <1>1 DEF LoadedCursor
<1>3. c.seg \in Nat \ {0} /\ \A s \in DOMAIN segs : s \in Nat \ {0} /\ Len(segs[s]) \in Nat
  BY DiskFacts
<1>4. CASE listed = {}
  <2>1. accepted = 0 /\ c = Start /\ last = 1 /\ stale = {}
    BY <1>1, <1>4 DEF LossInv, CursorInv
  <2>2. segs' = [s \in {1} |-> << >>] /\ wrCur' = [seg |-> 1, off |-> 0]
    BY <1>1, <1>4, <2>1 DEF Without
  <2> HIDE DEF c, last, stale, listed, onDisk
  <2>3. DOMAIN segs' = {1} /\ segs'[1] = << >> /\ Len(segs'[1]) = 0
    BY <2>2
  <2>4. CursorInv'
    BY <1>1, <1>2, <2>1, <2>3 DEF CursorInv, GoodCursor, Covers, Start
  <2>5. QED
    BY <1>1, <1>2, <2>1, <2>2, <2>3, <2>4
       DEF LossInv, TornLast, WriteInv, IndexInv, ScanInv, OpenInv, Start
<1>5. CASE listed # {}
  <2>1. GoodCursor(c) /\ Covers(c)
    BY <1>1, <1>5 DEF LossInv, CursorInv
  <2>2. last \in listed /\ \A t \in listed : t <= last
    BY <1>5, LastSegment
  <2>3. /\ DOMAIN segs' = listed \ stale
        /\ \A s \in listed \ stale : segs'[s] = segs[s]
        /\ wrCur' = [seg |-> last, off |-> Len(segs[last])]
    BY <1>1, <1>5 DEF Without
  <2>4. \A s \in listed : s >= c.seg => s \in DOMAIN segs'
    BY <1>3, <2>3
  <2>5. DOMAIN segs' \subseteq DOMAIN segs
    BY <2>3
  <2>6. c.seg \in listed /\ last >= c.seg
    BY <2>1, <2>2 DEF GoodCursor
  <2> HIDE DEF last, stale, onDisk
  <2>7. GoodCursor(c)'
    <3>1. c.seg \in DOMAIN segs' /\ segs'[c.seg] = segs[c.seg]
      BY <1>3, <2>3, <2>4, <2>6
    <3>2. \A s \in DOMAIN segs' : \A t \in c.seg .. s : t \in DOMAIN segs'
      BY <1>3, <2>1, <2>4, <2>5 DEF GoodCursor
    <3>3. c' = c
      BY <1>2
    <3> HIDE DEF c
    <3>4. QED
      BY <2>1, <3>1, <3>2, <3>3 DEF GoodCursor
  <2>8. Covers(c)'
    <3> HIDE DEF c
    <3>1. SUFFICES ASSUME NEW p \in 1 .. accepted, p \notin acked
                   PROVE  \E s \in DOMAIN segs' : \E i \in 1 .. Len(segs'[s]) :
                             segs'[s][i] = p /\ AtOrAfter(At(s, i), c)
      BY <1>1, <1>2 DEF Covers, c
    <3>2. PICK s \in DOMAIN segs : \E i \in 1 .. Len(segs[s]) :
                             segs[s][i] = p /\ AtOrAfter(At(s, i), c)
      BY <2>1, <3>1 DEF Covers
    <3>3. s >= c.seg
      BY <1>3, <3>2 DEF AtOrAfter, At
    <3>4. QED
      BY <2>3, <2>4, <3>2, <3>3
  <2>9. CursorInv'
    BY <1>2, <2>4, <2>6, <2>7, <2>8, <1>3 DEF CursorInv
  <2>10. WriteInv'
    BY <1>1, <1>3, <2>2, <2>3, <2>4, <2>6 DEF WriteInv
  <2>11. TornLast'
    BY <1>1, <2>3, <2>5 DEF LossInv, TornLast
  <2>12. ScanInv'
    <3>1. ~(\E s \in DOMAIN segs' : \E i \in 1 .. Len(segs'[s]) :
               s < c.seg /\ AtOrAfter(At(s, i), c))
      BY <1>3, <2>5 DEF AtOrAfter, At
    <3> HIDE DEF c
    <3>2. QED
      BY <1>1, <1>2, <1>3, <2>4, <2>6, <3>1 DEF ScanInv
  <2>13. IndexInv' /\ OpenInv'
    BY <1>1 DEF IndexInv, OpenInv
  <2>14. QED
    BY <2>9, <2>10, <2>11, <2>12, <2>13 DEF LossInv
<1>6. QED
  BY <1>4, <1>5

\* The scan adds the complete records of its segment behind what it has found.
LEMMA ScanFacts ==
    ASSUME TypeInv, LossInv, ScanSegment
    PROVE  LET s    == scanPos.seg
               off  == scanPos.off
               stop == ScanEnd(s, off)
           IN  /\ \A k \in 1 .. Len(entries) : k \in 1 .. Len(entries') /\ entries'[k] = entries[k]
               /\ \A k \in 1 .. Len(entries') : k > Len(entries) =>
                    /\ entries'[k] = [seg |-> s, off |-> off + (k - Len(entries)) - 1]
                    /\ off + (k - Len(entries)) - 1 < stop
               /\ \A i \in 1 .. stop : i - 1 >= off =>
                    \E k \in 1 .. Len(entries') : entries'[k] = At(s, i)
<1> DEFINE s    == scanPos.seg
           off  == scanPos.off
           stop == ScanEnd(s, off)
           new  == [i \in 1 .. stop - off |-> [seg |-> s, off |-> off + i - 1]]
<1>1. /\ s \in DOMAIN segs /\ s \in Nat \ {0} /\ off \in Nat
      /\ entries \in Seq(Position) /\ Len(entries) \in Nat
  BY DiskFacts DEF ScanSegment, TypeInv, TypeOK
<1>2. stop \in Nat
  BY <1>1, ScanEndFacts
<1>3. entries' = IF off < stop THEN entries \o new ELSE entries
  BY DEF ScanSegment, Indexed
<1> HIDE DEF stop, off, s
<1>4. CASE off < stop
  <2>1. stop - off \in Nat /\ new \in [1 .. stop - off -> Position]
    BY <1>1, <1>2, <1>4 DEF Position
  <2>2. \A i \in 1 .. stop - off : new[i] = [seg |-> s, off |-> off + i - 1]
    OBVIOUS
  <2> HIDE DEF new
  <2>3. new \in Seq(Position) /\ Len(new) = stop - off
    BY <2>1
  <2>4. /\ Len(entries') = Len(entries) + (stop - off)
        /\ \A i \in 1 .. Len(entries) + Len(new) :
              entries'[i] = IF i <= Len(entries) THEN entries[i] ELSE new[i - Len(entries)]
    <3>1. entries' = entries \o new
      BY <1>3, <1>4
    <3>2. /\ Len(entries \o new) = Len(entries) + Len(new)
          /\ \A i \in 1 .. Len(entries) + Len(new) : (entries \o new)[i] =
                IF i <= Len(entries) THEN entries[i] ELSE new[i - Len(entries)]
      BY ONLY <1>1, <2>3, ConcatProperties, Zenon
    <3>3. QED
      BY <2>3, <3>1, <3>2
  <2>5. \A k \in 1 .. Len(entries) : k \in 1 .. Len(entries') /\ entries'[k] = entries[k]
    BY <1>1, <2>1, <2>3, <2>4
  <2>6. \A k \in 1 .. Len(entries') : k > Len(entries) =>
            /\ entries'[k] = [seg |-> s, off |-> off + (k - Len(entries)) - 1]
            /\ off + (k - Len(entries)) - 1 < stop
    <3>1. SUFFICES ASSUME NEW k \in 1 .. Len(entries'), k > Len(entries)
                   PROVE  /\ entries'[k] = [seg |-> s, off |-> off + (k - Len(entries)) - 1]
                          /\ off + (k - Len(entries)) - 1 < stop
      OBVIOUS
    <3>2. k - Len(entries) \in 1 .. stop - off /\ entries'[k] = new[k - Len(entries)]
      BY <1>1, <2>1, <2>3, <2>4, <3>1
    <3>3. QED
      BY <1>1, <1>2, <2>2, <3>2
  <2>7. ASSUME NEW i \in 1 .. stop, i - 1 >= off
        PROVE  \E k \in 1 .. Len(entries') : entries'[k] = At(s, i)
    <3> DEFINE k == Len(entries) + (i - off)
    <3>1. k \in 1 .. Len(entries') /\ k > Len(entries) /\ off + (k - Len(entries)) - 1 = i - 1
      BY <1>1, <1>2, <1>4, <2>1, <2>4, <2>7
    <3> HIDE DEF k
    <3>2. QED
      BY <2>6, <3>1 DEF At
  <2>8. QED
    BY <2>5, <2>6, <2>7 DEF stop, off, s
<1>5. CASE ~(off < stop)
  <2>1. entries' = entries
    BY <1>3, <1>5
  <2>2. \A i \in 1 .. stop : ~(i - 1 >= off)
    BY <1>1, <1>2, <1>5
  <2>3. QED
    BY <1>1, <2>1, <2>2 DEF stop, off, s
<1>6. QED
  BY <1>4, <1>5

\* A scanned segment is covered by the index from now on.
LEMMA LossScan ==
    ASSUME TypeInv, TypeInv', LossInv, ScanSegment
    PROVE  LossInv'
<1> DEFINE s    == scanPos.seg
           off  == scanPos.off
           stop == ScanEnd(s, off)
           c    == LoadedCursor
           cut  == stop < Len(segs[s])
           more == ~cut /\ s + 1 \in DOMAIN segs
<1>1. /\ mode = "scanning" /\ s \in DOMAIN segs
      /\ segs' = IF cut THEN [segs EXCEPT ![s] = SubSeq(@, 1, stop)] ELSE segs
      /\ wrCur' = IF cut THEN [seg |-> s, off |-> stop] ELSE wrCur
      /\ scanPos' = IF more THEN [seg |-> s + 1, off |-> 0] ELSE Start
      /\ mode' = IF more THEN "scanning" ELSE "open"
      /\ cursor' = cursor /\ retention' = retention /\ accepted' = accepted /\ acked' = acked
  BY Zenon DEF ScanSegment, Truncated, ScansOn, history
<1>2. /\ DOMAIN segs # {} /\ GoodCursor(c) /\ Covers(c)
      /\ TornLast /\ WriteInv /\ IndexInv /\ ScanInv
  BY <1>1 DEF LossInv, CursorInv
<1>3. c' = c
  BY <1>1 DEF LoadedCursor
<1>4. /\ c.seg \in Nat \ {0} /\ c.off \in Nat /\ s \in Nat \ {0} /\ off \in Nat
      /\ Len(entries) \in Nat
      /\ \A t \in DOMAIN segs : t \in Nat \ {0} /\ segs[t] \in Seq(Nat) /\ Len(segs[t]) \in Nat
      /\ \A k \in 1 .. Len(entries) : entries[k].seg \in Nat \ {0} /\ entries[k].off \in Nat
      /\ scanPos = [seg |-> s, off |-> off]
  BY DiskFacts DEF TypeInv, TypeOK, Position
<1>5. /\ stop \in Nat /\ stop <= Len(segs[s])
      /\ off < Len(segs[s]) => off <= stop
      /\ cut => off <= stop /\ segs[s][stop + 1] = Torn
      /\ \A i \in off .. stop - 1 : segs[s][i + 1] # Torn
  BY <1>1, <1>4, ScanEndFacts
<1>6. /\ \A k \in 1 .. Len(entries) : k \in 1 .. Len(entries') /\ entries'[k] = entries[k]
      /\ \A k \in 1 .. Len(entries') : k > Len(entries) =>
            /\ entries'[k] = [seg |-> s, off |-> off + (k - Len(entries)) - 1]
            /\ off + (k - Len(entries)) - 1 < stop
      /\ \A i \in 1 .. stop : i - 1 >= off =>
            \E k \in 1 .. Len(entries') : entries'[k] = At(s, i)
  BY ScanFacts
<1>7. /\ (scanPos = c /\ entries = << >>) \/ (off = 0 /\ s > c.seg)
      /\ \A k \in 1 .. Len(entries) : entries[k].seg < s /\ AtOrAfter(entries[k], c)
      /\ \A t \in DOMAIN segs : \A i \in 1 .. Len(segs[t]) :
            t < s /\ AtOrAfter(At(t, i), c) => \E k \in 1 .. Len(entries) : entries[k] = At(t, i)
  BY <1>1, <1>2 DEF ScanInv
<1> HIDE DEF stop
<1>8. s >= c.seg /\ (s = c.seg => off = c.off)
  BY <1>4, <1>7
<1>9. cut => stop + 1 = Len(segs[s]) /\ \A t \in DOMAIN segs : t <= s
  <2>1. SUFFICES ASSUME cut
                 PROVE  stop + 1 = Len(segs[s]) /\ \A t \in DOMAIN segs : t <= s
    OBVIOUS
  <2>2. segs[s][stop + 1] = Torn /\ Len(segs[s]) \in Nat /\ stop < Len(segs[s])
    BY <1>1, <1>4, <1>5, <2>1
  <2>3. stop + 1 \in 1 .. Len(segs[s])
    BY <1>5, <2>2
  <2>4. QED
    BY <1>1, <1>2, <2>2, <2>3 DEF TornLast
<1>10. ~more => \A t \in DOMAIN segs : t <= s
  <2>1. SUFFICES ASSUME ~cut, s + 1 \notin DOMAIN segs, NEW t \in DOMAIN segs, t > s
                 PROVE  FALSE
    BY <1>4, <1>9
  <2>2. s + 1 \in c.seg .. t
    BY <1>4, <1>8, <2>1
  <2>3. QED
    BY <1>2, <2>1, <2>2 DEF GoodCursor
<1>11. /\ DOMAIN segs' = DOMAIN segs
       /\ \A t \in DOMAIN segs : t # s => segs'[t] = segs[t]
       /\ Len(segs'[s]) = stop /\ \A i \in 1 .. stop : segs'[s][i] = segs[s][i]
  <2>1. CASE cut
    <3>1. segs' = [segs EXCEPT ![s] = SubSeq(segs[s], 1, stop)]
      BY <1>1, <2>1
    <3>2. Len(SubSeq(segs[s], 1, stop)) = stop /\ \A i \in 1 .. stop : SubSeq(segs[s], 1, stop)[i] = segs[s][i]
      BY <1>1, <1>4, <1>5
    <3>3. QED
      BY <1>1, <3>1, <3>2
  <2>2. CASE ~cut
    <3>1. segs' = segs /\ Len(segs[s]) = stop
      BY <1>1, <1>4, <1>5, <2>2
    <3>2. QED
      BY <3>1
  <2>3. QED
    BY <2>1, <2>2
<1>12. \A t \in DOMAIN segs : \A i \in 1 .. Len(segs[t]) : segs[t][i] # Torn =>
          i \in 1 .. Len(segs'[t]) /\ segs'[t][i] = segs[t][i]
  <2>1. SUFFICES ASSUME NEW t \in DOMAIN segs, NEW i \in 1 .. Len(segs[t]), segs[t][i] # Torn
                 PROVE  i \in 1 .. Len(segs'[t]) /\ segs'[t][i] = segs[t][i]
    OBVIOUS
  <2>2. CASE t # s
    BY <1>11, <2>2
  <2>3. CASE t = s /\ cut
    <3>1. i # stop + 1 /\ stop + 1 = Len(segs[s]) /\ Len(segs[s]) \in Nat
      BY <1>4, <1>5, <1>9, <2>1, <2>3
    <3>2. i \in 1 .. stop
      BY <1>5, <2>3, <3>1
    <3>3. QED
      BY <1>11, <2>3, <3>2
  <2>4. CASE t = s /\ ~cut
    <3>1. Len(segs[s]) = stop
      BY <1>4, <1>5, <2>4
    <3>2. QED
      BY <1>11, <2>4, <3>1
  <2>5. QED
    BY <2>2, <2>3, <2>4
<1>13. \A t \in DOMAIN segs : \A i \in 1 .. Len(segs'[t]) :
          i \in 1 .. Len(segs[t]) /\ segs'[t][i] = segs[t][i]
  <2>1. SUFFICES ASSUME NEW t \in DOMAIN segs, NEW i \in 1 .. Len(segs'[t])
                 PROVE  i \in 1 .. Len(segs[t]) /\ segs'[t][i] = segs[t][i]
    OBVIOUS
  <2>2. CASE t # s
    BY <1>11, <2>2
  <2>3. CASE t = s
    <3>1. i \in 1 .. stop /\ Len(segs[s]) \in Nat
      BY <1>4, <1>11, <2>3
    <3>2. QED
      BY <1>5, <1>11, <2>3, <3>1
  <2>4. QED
    BY <2>2, <2>3
<1>14. TornLast'
  <2>1. CASE more
    <3>1. segs' = segs /\ mode' = "scanning"
      BY <1>1, <2>1
    <3>2. QED
      BY <1>2, <3>1 DEF TornLast
  <2>2. CASE ~more
    <3>1. SUFFICES ASSUME NEW t \in DOMAIN segs, NEW i \in 1 .. Len(segs'[t]), segs'[t][i] = Torn
                   PROVE  FALSE
      BY <1>11 DEF TornLast
    <3>2. i \in 1 .. Len(segs[t]) /\ segs[t][i] = Torn
      BY <1>13, <3>1
    <3>3. t = s /\ i = Len(segs[s])
      BY SMTT(20), <1>1, <1>2, <1>4, <1>10, <2>2, <3>2 DEF TornLast
    <3>4. i <= stop
      BY <1>11, <3>1, <3>3
    <3>5. i - 1 >= off
      <4>1. CASE s = c.seg
        BY <1>2, <1>4, <1>8, <3>2, <3>3, <4>1 DEF GoodCursor
      <4>2. CASE s # c.seg
        BY <1>4, <1>7, <4>2
      <4>3. QED
        BY <4>1, <4>2
    <3>6. i - 1 \in off .. stop - 1
      BY <1>4, <1>5, <3>4, <3>5
    <3>7. QED
      BY <1>5, <3>2, <3>3, <3>6
  <2>3. QED
    BY <2>1, <2>2
<1>15. GoodCursor(c)'
  <2> HIDE DEF c
  <2>1. c.seg \in DOMAIN segs' /\ \A u \in DOMAIN segs' : \A t \in c.seg .. u : t \in DOMAIN segs'
    BY <1>2, <1>11 DEF GoodCursor
  <2>2. c.off <= Len(segs'[c.seg])
    <3>1. CASE c.seg = s /\ cut
      BY <1>2, <1>4, <1>5, <1>9, <1>11, <3>1 DEF GoodCursor
    <3>2. CASE ~(c.seg = s /\ cut)
      BY <1>1, <1>2, <1>4, <1>5, <1>11, <3>2 DEF GoodCursor
    <3>3. QED
      BY <3>1, <3>2
  <2>3. \A i \in 1 .. Len(segs'[c.seg]) : segs'[c.seg][i] = Torn => c.off < i
    BY <1>2, <1>13 DEF GoodCursor
  <2>4. QED
    BY <1>3, <2>1, <2>2, <2>3 DEF GoodCursor
<1>16. Covers(c)'
  <2> HIDE DEF c
  <2>1. SUFFICES ASSUME NEW p \in 1 .. accepted, p \notin acked
                 PROVE  \E t \in DOMAIN segs' : \E i \in 1 .. Len(segs'[t]) :
                             segs'[t][i] = p /\ AtOrAfter(At(t, i), c)
    BY <1>1, <1>3 DEF Covers
  <2>2. PICK t \in DOMAIN segs : \E i \in 1 .. Len(segs[t]) :
                            segs[t][i] = p /\ AtOrAfter(At(t, i), c)
    BY <1>2, <2>1 DEF Covers
  <2>3. PICK i \in 1 .. Len(segs[t]) : segs[t][i] = p /\ AtOrAfter(At(t, i), c)
    BY <2>2
  <2>4. segs[t][i] # Torn
    BY <2>1, <2>3 DEF Torn
  <2>5. QED
    BY <1>11, <1>12, <2>3, <2>4
<1>17. CursorInv'
  BY <1>2, <1>3, <1>11, <1>15, <1>16 DEF CursorInv
<1>18. WriteInv'
  <2>1. CASE cut
    BY <1>1, <1>2, <1>9, <1>11, <2>1 DEF WriteInv
  <2>2. CASE ~cut
    BY <1>1, <1>2, <2>2 DEF WriteInv
  <2>3. QED
    BY <2>1, <2>2
<1>19. \A k \in 1 .. Len(entries') :
          /\ entries'[k].seg \in Nat /\ entries'[k].off \in Nat
          /\ entries'[k].seg <= s /\ AtOrAfter(entries'[k], c)
          /\ entries'[k].seg \in DOMAIN segs' /\ entries'[k].off < Len(segs'[entries'[k].seg])
  <2>1. SUFFICES ASSUME NEW k \in 1 .. Len(entries')
                 PROVE  /\ entries'[k].seg \in Nat /\ entries'[k].off \in Nat
                        /\ entries'[k].seg <= s /\ AtOrAfter(entries'[k], c)
                        /\ entries'[k].seg \in DOMAIN segs'
                        /\ entries'[k].off < Len(segs'[entries'[k].seg])
    OBVIOUS
  <2>2. Len(entries') \in Nat
    BY DEF TypeInv, TypeOK
  <2>3. k \in Nat
    BY <2>2
  <2>4. CASE k <= Len(entries)
    <3>1. k \in 1 .. Len(entries) /\ entries'[k] = entries[k]
      BY <1>4, <1>6, <2>4, <2>3, <2>1
    <3>2. OnDisk(entries[k]) /\ entries[k].seg < s /\ AtOrAfter(entries[k], c)
      BY <1>1, <1>2, <1>7, <3>1 DEF IndexInv
    <3>3. entries[k].seg # s /\ entries[k].seg \in DOMAIN segs /\ segs'[entries[k].seg] = segs[entries[k].seg]
      BY <1>4, <1>11, <3>1, <3>2 DEF OnDisk
    <3>4. entries[k].seg \in Nat /\ entries[k].off \in Nat /\ entries[k].seg <= s
      BY <1>4, <3>1, <3>2
    <3>5. QED
      BY <1>11, <3>1, <3>2, <3>3, <3>4 DEF OnDisk
  <2>5. CASE k > Len(entries)
    <3>1. /\ entries'[k] = [seg |-> s, off |-> off + (k - Len(entries)) - 1]
          /\ off + (k - Len(entries)) - 1 < stop
      BY <1>6, <2>5
    <3>2. off + (k - Len(entries)) - 1 \in Nat /\ off + (k - Len(entries)) - 1 >= off
      BY <1>4, <2>5, <2>3
    <3> DEFINE o == off + (k - Len(entries)) - 1
    <3>3. entries'[k].seg = s /\ entries'[k].off = o
      BY <3>1
    <3>4. o \in Nat /\ o >= off /\ o < stop
      BY <3>1, <3>2
    <3> HIDE DEF o
    <3>5. AtOrAfter(entries'[k], c)
      BY <1>4, <1>8, <3>3, <3>4 DEF AtOrAfter
    <3>6. s \in Nat /\ s <= s /\ s \in DOMAIN segs' /\ o < Len(segs'[s])
      <4>1. s \in Nat /\ s <= s
        BY <1>4
      <4>2. s \in DOMAIN segs' /\ Len(segs'[s]) = stop
        BY <1>1, <1>11, Zenon
      <4>3. QED
        BY <3>4, <4>1, <4>2
    <3> HIDE DEF s, c
    <3>7. QED
      BY <3>3, <3>4, <3>5, <3>6
  <2>6. QED
    BY <1>4, <2>3, <2>4, <2>5
<1>20. IndexInv'
  <2>1. \A k \in 1 .. Len(entries') : OnDisk(entries[k])'
    BY <1>19 DEF OnDisk
  <2>2. ASSUME NEW j \in 1 .. Len(entries'), NEW k \in 1 .. Len(entries'), j < k
        PROVE  AtOrAfter(entries'[k], entries'[j])
    <3>1. Len(entries') \in Nat
      BY DEF TypeInv, TypeOK
    <3>2. j \in Nat /\ k \in Nat /\ j >= 1 /\ k >= 1
      BY <3>1
    <3>3. CASE k <= Len(entries)
      <4>1. /\ j \in 1 .. Len(entries) /\ k \in 1 .. Len(entries)
            /\ entries'[j] = entries[j] /\ entries'[k] = entries[k]
        <5>1. j \in 1 .. Len(entries) /\ k \in 1 .. Len(entries)
          BY <1>4, <2>2, <3>2, <3>3
        <5>2. QED
          BY <1>6, <5>1
      <4>2. QED
        BY <1>1, <1>2, <2>2, <4>1 DEF IndexInv
    <3>4. CASE k > Len(entries) /\ j <= Len(entries)
      <4>1. j \in 1 .. Len(entries) /\ entries'[j] = entries[j] /\ entries'[k].seg = s
        <5>1. j \in 1 .. Len(entries)
          BY <1>4, <3>2, <3>4
        <5>2. QED
          <6>1. entries'[k] = [seg |-> s, off |-> off + (k - Len(entries)) - 1]
            BY <1>6, <3>4
          <6>2. entries'[k].seg = s
            BY <6>1
          <6>3. QED
            BY <1>6, <5>1, <6>2
      <4>2. QED
        BY <1>4, <1>7, <4>1 DEF AtOrAfter
    <3>5. CASE k > Len(entries) /\ j > Len(entries)
      <4>1. /\ entries'[j] = [seg |-> s, off |-> off + (j - Len(entries)) - 1]
            /\ entries'[k] = [seg |-> s, off |-> off + (k - Len(entries)) - 1]
        BY <1>6, <3>5
      <4>2. QED
        <5>1. off + (k - Len(entries)) - 1 >= off + (j - Len(entries)) - 1
          BY <1>4, <2>2, <3>2
        <5>2. QED
          BY <4>1, <5>1 DEF AtOrAfter
    <3>6. QED
      BY <1>4, <3>2, <3>3, <3>4, <3>5
  <2>3. QED
    BY <2>1, <2>2 DEF IndexInv
<1>21. ASSUME NEW t \in DOMAIN segs', NEW i \in 1 .. Len(segs'[t]), t <= s, AtOrAfter(At(t, i), c)
       PROVE  \E k \in 1 .. Len(entries') : entries'[k] = At(t, i)
  <2> i \in Nat /\ t \in DOMAIN segs /\ i \in 1 .. Len(segs[t])
    BY <1>4, <1>11, <1>13
  <2>1. CASE t < s
    BY <1>6, <1>7, <1>21, <2>1
  <2>2. CASE t = s
    <3>1. i \in 1 .. stop
      BY <1>11, <1>21, <2>2
    <3>2. i - 1 >= off
      <4>1. CASE s = c.seg
        BY <1>4, <1>8, <1>21, <2>2, <4>1 DEF AtOrAfter, At
      <4>2. CASE s # c.seg
        BY <1>4, <1>7, <3>1, <4>2
      <4>3. QED
        BY <4>1, <4>2
    <3>3. QED
      BY <1>6, <2>2, <3>1, <3>2
  <2>3. QED
    BY <1>4, <1>21, <2>1, <2>2
<1>22. ScanInv'
  <2> SUFFICES ASSUME more
               PROVE  ScanInv'
    BY <1>1 DEF ScanInv
  <2>1. scanPos' = [seg |-> s + 1, off |-> 0] /\ s + 1 \in DOMAIN segs'
    BY <1>1, <1>11
  <2>2. scanPos'.off = 0 /\ scanPos'.seg = s + 1 /\ s + 1 > c.seg
    BY <1>4, <1>8, <2>1
  <2>3. \A k \in 1 .. Len(entries') : entries'[k].seg < s + 1
    BY <1>4, <1>19
  <2>4. \A t \in DOMAIN segs' : t < s + 1 => t <= s
    BY <1>4, <1>11
  <2> HIDE DEF s, c, more
  <2>5. QED
    BY <1>3, <1>19, <1>21, <2>1, <2>2, <2>3, <2>4 DEF ScanInv, c
<1>23. OpenInv'
  <2> SUFFICES ASSUME ~more
               PROVE  OpenInv'
    BY <1>1 DEF OpenInv
  <2>1. ASSUME entries' # << >>, NEW t \in entries'[1].seg .. wrCur'.seg
        PROVE  t \in DOMAIN segs'
    <3>1. Len(entries') \in Nat /\ entries' \in Seq(Position)
      BY DEF TypeInv, TypeOK
    <3>2. 1 \in 1 .. Len(entries')
      BY <2>1, <3>1
    <3>3. entries'[1].seg \in Nat /\ entries'[1].seg >= c.seg
      BY <1>4, <1>19, <3>2 DEF AtOrAfter
    <3>4. wrCur'.seg \in DOMAIN segs' /\ wrCur'.seg \in Nat
      BY <1>1, <1>4, <1>11, <1>18 DEF WriteInv
    <3>5. t \in c.seg .. wrCur'.seg
      BY <1>4, <2>1, <3>3, <3>4
    <3>6. QED
      BY <1>2, <1>11, <3>4, <3>5 DEF GoodCursor
  <2>2. ASSUME NEW p \in 1 .. accepted', p \notin acked'
        PROVE  p \in Packets(1 .. Len(entries))'
    <3>1. PICK t \in DOMAIN segs' : \E i \in 1 .. Len(segs'[t]) :
                            segs'[t][i] = p /\ AtOrAfter(At(t, i), c)
      <4> HIDE DEF c
      <4>1. QED
        BY <1>3, <1>16, <2>2 DEF Covers
    <3>2. PICK i \in 1 .. Len(segs'[t]) : segs'[t][i] = p /\ AtOrAfter(At(t, i), c)
      BY <3>1
    <3>3. t <= s
      BY <1>10, <1>11
    <3>4. PICK k \in 1 .. Len(entries') : entries'[k] = At(t, i)
      BY <1>21, <3>2, <3>3
    <3>5. (OnDisk(entries[k]))' /\ (PacketAt(entries[k]))' = p
      <4>1. i \in Nat
        BY <1>4, <1>11, <1>13
      <4>2. QED
        BY <1>19, <3>2, <3>4, <4>1 DEF OnDisk, PacketAt, At
    <3>6. QED
      BY <3>5 DEF Packets
  <2>3. QED
    BY <2>1, <2>2 DEF OpenInv
<1>24. QED
  BY <1>14, <1>17, <1>18, <1>20, <1>22, <1>23 DEF LossInv

\* Steps that touch neither the files, nor the index, nor the history.
LEMMA LossFrame ==
    ASSUME LossInv, UNCHANGED <<segs, cursor, mode, entries, wrCur, scanPos, accepted, acked>>,
           mode # "down" => retention' \in Retentions
    PROVE  LossInv'
<1>1. LoadedCursor' = LoadedCursor
  BY DEF LoadedCursor
<1>2. TornLast' /\ IndexInv'
  BY DEF LossInv, TornLast, IndexInv, OnDisk
<1>3. CursorInv'
  BY <1>1 DEF LossInv, CursorInv, GoodCursor, Covers
<1>4. WriteInv'
  BY DEF LossInv, WriteInv
<1>5. ScanInv'
  BY <1>1 DEF LossInv, ScanInv
<1>6. OpenInv'
  BY DEF LossInv, OpenInv, Packets, PacketAt, OnDisk
<1>7. QED
  BY <1>2, <1>3, <1>4, <1>5, <1>6 DEF LossInv

\* Rolling opens an empty segment behind the last one.
LEMMA RollFacts ==
    ASSUME TypeInv, WriteInv, mode # "down"
    PROVE  LET w == RolledCur
           IN  /\ w \in Position /\ w.seg \in Nat \ {0} /\ w.off \in Nat
               /\ w = [seg |-> w.seg, off |-> w.off]
               /\ DOMAIN RolledSegs = DOMAIN segs \cup {w.seg}
               /\ \A t \in DOMAIN segs : RolledSegs[t] = segs[t] /\ t <= w.seg
               /\ RolledSegs[w.seg] \in Seq(Nat) /\ Len(RolledSegs[w.seg]) = w.off
               /\ w.seg \notin DOMAIN segs => w.off = 0 /\ w.seg = wrCur.seg + 1
               /\ w.seg \in DOMAIN segs => w = wrCur
<1>1. /\ wrCur.seg \in DOMAIN segs /\ wrCur.off = Len(segs[wrCur.seg])
      /\ \A t \in DOMAIN segs : t <= wrCur.seg /\ t \in Nat \ {0} /\ segs[t] \in Seq(Nat)
      /\ wrCur.seg \in Nat \ {0} /\ wrCur.off \in Nat /\ wrCur = [seg |-> wrCur.seg, off |-> wrCur.off]
      /\ wrCur \in Position
  BY DiskFacts DEF WriteInv, TypeInv, TypeOK
<1>2. CASE wrCur.off >= SegBytes
  <2>1. RolledCur = [seg |-> wrCur.seg + 1, off |-> 0]
    BY <1>2 DEF RolledCur
  <2>2. wrCur.seg + 1 \notin DOMAIN segs /\ wrCur.seg + 1 \in Nat \ {0}
    BY <1>1
  <2>3. \A t \in DOMAIN segs : t <= wrCur.seg + 1
    BY <1>1
  <2>4. RolledSegs[wrCur.seg + 1] = << >>
    BY <2>1, <2>2 DEF RolledSegs
  <2>5. << >> \in Seq(Nat) /\ Len(<< >>) = 0
    OBVIOUS
  <2>6. DOMAIN RolledSegs = DOMAIN segs \cup {wrCur.seg + 1} /\ \A t \in DOMAIN segs : RolledSegs[t] = segs[t]
    BY <2>1 DEF RolledSegs
  <2>7. RolledCur \in Position /\ RolledCur.seg = wrCur.seg + 1 /\ RolledCur.off = 0
        /\ RolledCur = [seg |-> RolledCur.seg, off |-> RolledCur.off]
    BY <2>1, <2>2 DEF Position
  <2>8. RolledCur.off \in Nat /\ RolledCur.seg \notin DOMAIN segs
    BY <2>2, <2>7
  <2>9. Len(RolledSegs[RolledCur.seg]) = RolledCur.off /\ RolledSegs[RolledCur.seg] \in Seq(Nat)
    BY <2>4, <2>5, <2>7
  <2>10. QED
    BY <2>2, <2>3, <2>6, <2>7, <2>8, <2>9, Zenon
<1>3. CASE ~(wrCur.off >= SegBytes)
  <2>1. RolledCur = wrCur
    BY <1>3 DEF RolledCur
  <2>2. DOMAIN RolledSegs = DOMAIN segs \cup {wrCur.seg} /\ \A t \in DOMAIN segs : RolledSegs[t] = segs[t]
    BY <2>1 DEF RolledSegs
  <2>3. QED
    BY <1>1, <2>1, <2>2
<1>4. QED
  BY <1>2, <1>3

\* Adding one record x keeps every other record where it is.
Grown(x) == [RolledSegs EXCEPT ![RolledCur.seg] = Append(@, x)]

\* D is the disk with record x added at position w.
Grows(D, w, x) ==
    /\ DOMAIN D = DOMAIN segs \cup {w.seg}
    /\ \A t \in DOMAIN segs : \A i \in 1 .. Len(segs[t]) :
         i \in 1 .. Len(D[t]) /\ D[t][i] = segs[t][i]
    /\ Len(D[w.seg]) = w.off + 1 /\ D[w.seg][w.off + 1] = x
    /\ \A t \in DOMAIN D : \A i \in 1 .. Len(D[t]) :
         \/ t \in DOMAIN segs /\ i \in 1 .. Len(segs[t]) /\ D[t][i] = segs[t][i]
         \/ t = w.seg /\ i = w.off + 1

\* What Append, or a crash inside it, does to the files.
LEMMA GrowFacts ==
    ASSUME TypeInv, WriteInv, mode # "down", NEW x \in Nat
    PROVE  Grows(Grown(x), RolledCur, x)
<1> DEFINE w == RolledCur
           R == RolledSegs
           D == [R EXCEPT ![w.seg] = Append(@, x)]
<1>1. /\ w.seg \in Nat \ {0} /\ w.off \in Nat
      /\ DOMAIN R = DOMAIN segs \cup {w.seg}
      /\ \A t \in DOMAIN segs : R[t] = segs[t]
      /\ R[w.seg] \in Seq(Nat) /\ Len(R[w.seg]) = w.off
      /\ w.seg \notin DOMAIN segs => w.off = 0
  BY RollFacts
<1>2. \A t \in DOMAIN segs : segs[t] \in Seq(Nat) /\ Len(segs[t]) \in Nat
  BY DiskFacts
<1> HIDE DEF w, R
<1>3. DOMAIN D = DOMAIN segs \cup {w.seg} /\ D[w.seg] = Append(R[w.seg], x)
      /\ \A t \in DOMAIN segs : t # w.seg => D[t] = segs[t]
  BY <1>1
<1> HIDE DEF D
<1>4. /\ Len(D[w.seg]) = w.off + 1 /\ D[w.seg][w.off + 1] = x
      /\ \A i \in 1 .. w.off : D[w.seg][i] = R[w.seg][i]
  BY <1>1, <1>3
<1>5. ASSUME NEW t \in DOMAIN segs, NEW i \in 1 .. Len(segs[t])
      PROVE  i \in 1 .. Len(D[t]) /\ D[t][i] = segs[t][i]
  <2>1. CASE t = w.seg
    <3>1. segs[t] = R[w.seg] /\ i \in 1 .. w.off
      BY <1>1, <2>1
    <3>2. QED
      BY <1>1, <1>4, <2>1, <3>1
  <2>2. CASE t # w.seg
    BY <1>3, <2>2
  <2>3. QED
    BY <2>1, <2>2
<1>6. ASSUME NEW t \in DOMAIN D, NEW i \in 1 .. Len(D[t])
      PROVE  \/ t \in DOMAIN segs /\ i \in 1 .. Len(segs[t]) /\ D[t][i] = segs[t][i]
             \/ t = w.seg /\ i = w.off + 1
  <2>1. CASE t = w.seg
    <3>1. i \in 1 .. w.off + 1
      BY <1>4, <2>1
    <3>2. i = w.off + 1 \/ i \in 1 .. w.off
      BY <1>1, <3>1
    <3>3. CASE i \in 1 .. w.off
      <4>1. w.seg \in DOMAIN segs
        BY <1>1, <3>3
      <4>2. QED
        BY <1>1, <1>4, <2>1, <3>3, <4>1
    <3>4. QED
      BY <2>1, <3>2, <3>3
  <2>2. CASE t # w.seg
    BY <1>3, <2>2
  <2>3. QED
    BY <2>1, <2>2
<1>7. D = Grown(x)
  BY DEF D, R, w, Grown
<1>8. QED
  BY <1>3, <1>4, <1>5, <1>6, <1>7 DEF w, Grows

\* The cursor file stays good, and covers what it covered, while a segment is
\* rolled or a record is added behind the last one.
LEMMA GrowCursor ==
    ASSUME TypeInv, WriteInv, mode # "down", GoodCursor(LoadedCursor), cursor' = cursor,
           DOMAIN segs' = DOMAIN segs \cup {RolledCur.seg},
           \A t \in DOMAIN segs : \A i \in 1 .. Len(segs[t]) :
                i \in 1 .. Len(segs'[t]) /\ segs'[t][i] = segs[t][i],
           \A t \in DOMAIN segs' : \A i \in 1 .. Len(segs'[t]) :
                \/ t \in DOMAIN segs /\ i \in 1 .. Len(segs[t]) /\ segs'[t][i] = segs[t][i]
                \/ t = RolledCur.seg /\ i = RolledCur.off + 1,
           \A t \in DOMAIN segs : Len(segs'[t]) \in Nat
    PROVE  /\ GoodCursor(LoadedCursor)'
           /\ AtOrAfter(RolledCur, LoadedCursor)
           /\ \A p \in 1 .. accepted : Covers(LoadedCursor) =>
                p \in acked \/ \E s \in DOMAIN segs' : \E i \in 1 .. Len(segs'[s]) :
                                  segs'[s][i] = p /\ AtOrAfter(At(s, i), LoadedCursor)
<1> DEFINE c == LoadedCursor
           w == RolledCur
<1>1. /\ c.seg \in Nat \ {0} /\ c.off \in Nat
      /\ \A t \in DOMAIN segs : t \in Nat \ {0} /\ Len(segs[t]) \in Nat
  BY DiskFacts
<1>2. /\ w.seg \in Nat \ {0} /\ w.off \in Nat
      /\ w.seg \notin DOMAIN segs => w.off = 0 /\ w.seg = wrCur.seg + 1
      /\ w.seg \in DOMAIN segs => w = wrCur
      /\ \A t \in DOMAIN segs : t <= w.seg
  BY RollFacts
<1>3. /\ wrCur.seg \in DOMAIN segs /\ wrCur.off = Len(segs[wrCur.seg])
      /\ \A t \in DOMAIN segs : t <= wrCur.seg
  BY DEF WriteInv
<1>4. LoadedCursor' = c
  BY DEF LoadedCursor
<1>5. /\ c.seg \in DOMAIN segs /\ c.off <= Len(segs[c.seg])
      /\ \A s \in DOMAIN segs : \A t \in c.seg .. s : t \in DOMAIN segs
      /\ \A i \in 1 .. Len(segs[c.seg]) : segs[c.seg][i] = Torn => c.off < i
  BY DEF GoodCursor
<1> HIDE DEF c, w
<1>6. c.seg \in DOMAIN segs' /\ c.off <= Len(segs'[c.seg])
  <2>1. CASE Len(segs[c.seg]) = 0
    BY <1>1, <1>5, <2>1
  <2>2. CASE Len(segs[c.seg]) # 0
    <3>1. Len(segs[c.seg]) \in 1 .. Len(segs[c.seg])
      BY <1>1, <1>5, <2>2
    <3>2. Len(segs[c.seg]) \in 1 .. Len(segs'[c.seg])
      BY <1>5, <3>1
    <3>3. QED
      BY <1>1, <1>5, <3>2
  <2>3. QED
    BY <2>1, <2>2
<1>7. ASSUME NEW s \in DOMAIN segs', NEW t \in c.seg .. s
      PROVE  t \in DOMAIN segs'
  <2>1. CASE s \in DOMAIN segs
    BY <1>5, <2>1
  <2>2. CASE s \notin DOMAIN segs
    <3>1. s = wrCur.seg + 1 /\ s = w.seg
      BY <1>2, <2>2 DEF w
    <3>2. t = s \/ t \in c.seg .. wrCur.seg
      BY <1>1, <1>3, <3>1
    <3>3. QED
      BY <1>3, <1>5, <3>2
  <2>3. QED
    BY <2>1, <2>2
<1>8. w.seg >= c.seg /\ (w.seg = c.seg => w.off >= c.off)
  <2>1. w.seg >= c.seg
    BY <1>1, <1>2, <1>5
  <2>2. w.seg = c.seg => w = wrCur /\ w.off = Len(segs[c.seg])
    BY <1>2, <1>3, <1>5
  <2>3. QED
    BY <1>1, <1>5, <2>1, <2>2
<1>9. ASSUME NEW i \in 1 .. Len(segs'[c.seg]), segs'[c.seg][i] = Torn
      PROVE  c.off < i
  <2>1. \/ i \in 1 .. Len(segs[c.seg]) /\ segs'[c.seg][i] = segs[c.seg][i]
        \/ c.seg = w.seg /\ i = w.off + 1
    BY <1>6 DEF w
  <2>2. QED
    BY <1>1, <1>2, <1>5, <1>8, <1>9, <2>1
<1>10. GoodCursor(LoadedCursor)'
  BY <1>4, <1>6, <1>7, <1>9 DEF GoodCursor
<1>11. AtOrAfter(w, c)
  BY <1>1, <1>2, <1>8 DEF AtOrAfter
<1>12. ASSUME NEW p \in 1 .. accepted, Covers(c), p \notin acked
       PROVE  \E s \in DOMAIN segs' : \E i \in 1 .. Len(segs'[s]) :
                   segs'[s][i] = p /\ AtOrAfter(At(s, i), c)
  <2>1. PICK s \in DOMAIN segs : \E i \in 1 .. Len(segs[s]) :
                   segs[s][i] = p /\ AtOrAfter(At(s, i), c)
    BY <1>12 DEF Covers
  <2>2. QED
    BY <2>1
<1>13. QED
  BY <1>10, <1>11, <1>12 DEF c, w

\* Append keeps the invariant.
LEMMA LossAppend ==
    ASSUME TypeInv, LossInv, AppendPacket
    PROVE  LossInv'
<1> DEFINE w == RolledCur
           x == accepted + 1
<1>1. /\ mode = "open" /\ mode' = "open"
      /\ segs' = [RolledSegs EXCEPT ![w.seg] = Append(@, x)]
      /\ entries' = Append(entries, w) /\ wrCur' = [w EXCEPT !.off = @ + 1]
      /\ accepted' = x /\ acked' = acked /\ cursor' = cursor /\ retention' = retention
  BY DEF AppendPacket
<1>2. /\ TornLast /\ CursorInv /\ WriteInv /\ IndexInv /\ OpenInv
  BY DEF LossInv
<1>3. /\ x \in Nat /\ x # Torn /\ accepted \in Nat
  BY DEF TypeInv, TypeOK, Torn
<1>4. /\ w \in Position /\ w.seg \in Nat \ {0} /\ w.off \in Nat /\ w = [seg |-> w.seg, off |-> w.off]
      /\ w.seg \notin DOMAIN segs => w.off = 0 /\ w.seg = wrCur.seg + 1
      /\ w.seg \in DOMAIN segs => w = wrCur
      /\ \A t \in DOMAIN segs : t <= w.seg
  BY <1>1, <1>2, RollFacts
<1>5. /\ wrCur.seg \in DOMAIN segs /\ wrCur.off = Len(segs[wrCur.seg])
      /\ \A t \in DOMAIN segs : t <= wrCur.seg /\ t \in Nat \ {0} /\ Len(segs[t]) \in Nat
      /\ wrCur.seg \in Nat \ {0} /\ retention \in Retentions
      /\ entries \in Seq(Position) /\ Len(entries) \in Nat
      /\ \A k \in 1 .. Len(entries) : entries[k].seg \in Nat \ {0} /\ entries[k].off \in Nat
  BY <1>1, <1>2, DiskFacts DEF WriteInv, TypeInv, TypeOK
<1>6. /\ DOMAIN segs' = DOMAIN segs \cup {w.seg}
      /\ \A t \in DOMAIN segs : \A i \in 1 .. Len(segs[t]) :
            i \in 1 .. Len(segs'[t]) /\ segs'[t][i] = segs[t][i]
      /\ Len(segs'[w.seg]) = w.off + 1 /\ segs'[w.seg][w.off + 1] = x
      /\ \A t \in DOMAIN segs' : \A i \in 1 .. Len(segs'[t]) :
            \/ t \in DOMAIN segs /\ i \in 1 .. Len(segs[t]) /\ segs'[t][i] = segs[t][i]
            \/ t = w.seg /\ i = w.off + 1
  <2> HIDE DEF x
  <2>1. mode # "down" /\ segs' = Grown(x)
    BY <1>1 DEF Grown
  <2>2. Grows(segs', w, x)
    BY <1>2, <1>3, <2>1, GrowFacts, Zenon
  <2>3. QED
    BY <2>2 DEF Grows
<1>7. \A t \in DOMAIN segs : Len(segs'[t]) \in Nat
  <2>1. ASSUME NEW t \in DOMAIN segs PROVE Len(segs'[t]) \in Nat
    <3>1. t # w.seg => segs'[t] = segs[t]
      BY <1>1, <1>2, RollFacts
    <3>2. QED
      BY <1>4, <1>5, <1>6, <3>1
  <2>2. QED
    BY <2>1
<1> HIDE DEF w, x
<1>8. TornLast'
  BY SMTT(20), <1>1, <1>2, <1>3, <1>6 DEF TornLast
<1>9. CursorInv'
  <2>1. SUFFICES ASSUME "crash" \in Faults
                 PROVE  DOMAIN segs' # {} /\ GoodCursor(LoadedCursor)' /\ Covers(LoadedCursor)'
    BY <1>1 DEF CursorInv
  <2>2. GoodCursor(LoadedCursor) /\ Covers(LoadedCursor)
    BY <1>1, <1>2, <2>1 DEF CursorInv
  <2>3. /\ GoodCursor(LoadedCursor)' /\ AtOrAfter(w, LoadedCursor)
        /\ \A p \in 1 .. accepted :
             p \in acked \/ \E s \in DOMAIN segs' : \E i \in 1 .. Len(segs'[s]) :
                               segs'[s][i] = p /\ AtOrAfter(At(s, i), LoadedCursor)
    BY <1>1, <1>2, <1>6, <1>7, <2>2, GrowCursor DEF w
  <2>4. LoadedCursor' = LoadedCursor
    BY <1>1 DEF LoadedCursor
  <2>5. ASSUME NEW p \in 1 .. accepted', p \notin acked
        PROVE  \E s \in DOMAIN segs' : \E i \in 1 .. Len(segs'[s]) :
                        segs'[s][i] = p /\ AtOrAfter(At(s, i), LoadedCursor)
    <3>1. CASE p \in 1 .. accepted
      BY <2>3, <2>5, <3>1
    <3>2. CASE p = x
      <4>1. w.off + 1 \in 1 .. Len(segs'[w.seg]) /\ At(w.seg, w.off + 1) = w
        BY <1>4, <1>6 DEF At
      <4>2. QED
        BY <1>6, <2>3, <3>2, <4>1
    <3>3. QED
      BY <1>1, <1>3, <3>1, <3>2 DEF x
  <2>6. QED
    BY <1>1, <1>6, <2>3, <2>4, <2>5 DEF Covers
<1>10. WriteInv'
  <2>1. wrCur'.seg = w.seg /\ wrCur'.off = w.off + 1
    BY <1>1, <1>4
  <2>2. \A t \in DOMAIN segs' : t <= w.seg
    BY <1>4, <1>6
  <2>3. QED
    BY <1>1, <1>5, <1>6, <2>1, <2>2 DEF WriteInv
<1>11. /\ Len(entries') = Len(entries) + 1 /\ entries'[Len(entries) + 1] = w
       /\ \A k \in 1 .. Len(entries) : entries'[k] = entries[k]
  BY <1>1, <1>4, <1>5
<1>12. \A k \in 1 .. Len(entries) :
          OnDisk(entries[k]) /\ (OnDisk(entries[k]))' /\ (PacketAt(entries[k]))' = PacketAt(entries[k])
  <2>1. SUFFICES ASSUME NEW k \in 1 .. Len(entries)
                 PROVE  OnDisk(entries[k]) /\ (OnDisk(entries[k]))' /\ (PacketAt(entries[k]))' = PacketAt(entries[k])
    OBVIOUS
  <2> DEFINE e == entries[k]
  <2>2. e.seg \in DOMAIN segs /\ e.off < Len(segs[e.seg]) /\ OnDisk(e)
    BY <1>1, <1>2 DEF IndexInv, OnDisk
  <2>3. e.seg \in Nat /\ e.off \in Nat /\ Len(segs[e.seg]) \in Nat
    BY <1>5, <2>2
  <2>4. entries'[k] = e
    BY <1>11
  <2> HIDE DEF e
  <2>5. e.off + 1 \in 1 .. Len(segs[e.seg])
    BY <2>2, <2>3
  <2>6. e.off + 1 \in 1 .. Len(segs'[e.seg]) /\ segs'[e.seg][e.off + 1] = segs[e.seg][e.off + 1]
        /\ e.seg \in DOMAIN segs'
    BY <1>6, <2>2, <2>5
  <2>7. e.off < Len(segs'[e.seg])
    BY <1>7, <2>2, <2>3, <2>6
  <2>8. QED
    BY <2>2, <2>4, <2>6, <2>7 DEF OnDisk, PacketAt, e
<1>13. PICK n : n = Len(entries) + 1
  OBVIOUS
<1>14. /\ n \in Nat /\ n \in 1 .. Len(entries') /\ Len(entries') = n /\ entries'[n] = w
       /\ \A k \in 1 .. Len(entries') : k = n \/ k \in 1 .. Len(entries)
  BY <1>5, <1>11, <1>13
<1>15. (OnDisk(entries[n]))' /\ (PacketAt(entries[n]))' = x
  <2>1. w.seg \in DOMAIN segs' /\ w.off < Len(segs'[w.seg])
    BY <1>4, <1>6
  <2>2. QED
    BY <1>6, <1>14, <2>1 DEF OnDisk, PacketAt
<1>16. IndexInv'
  <2>1. \A k \in 1 .. Len(entries') : (OnDisk(entries[k]))'
    BY <1>12, <1>14, <1>15
  <2>2. ASSUME NEW j \in 1 .. Len(entries'), NEW k \in 1 .. Len(entries'), j < k
        PROVE  AtOrAfter(entries'[k], entries'[j])
    <3>1. j \in 1 .. Len(entries)
      BY <1>5, <1>13, <1>14, <2>2
    <3>2. CASE k \in 1 .. Len(entries)
      BY <1>1, <1>2, <1>11, <2>2, <3>1, <3>2 DEF IndexInv
    <3>3. CASE k = n
      <4>1. entries'[k] = w /\ entries'[j] = entries[j]
        BY <1>11, <1>14, <3>1, <3>3
      <4>2. entries[j].seg \in DOMAIN segs /\ entries[j].off < Len(segs[entries[j].seg])
        BY <1>12, <3>1 DEF OnDisk
      <4>3. w.seg >= entries[j].seg /\ entries[j].seg \in Nat /\ entries[j].off \in Nat
        BY <1>4, <1>5, <3>1, <4>2
      <4>4. w.seg = entries[j].seg => w.off >= entries[j].off
        BY <1>4, <1>5, <4>2, <4>3
      <4>5. QED
        BY <1>4, <4>1, <4>3, <4>4 DEF AtOrAfter
    <3>4. QED
      BY <1>14, <3>2, <3>3
  <2>3. QED
    BY <2>1, <2>2 DEF IndexInv
<1>17. OpenInv'
  <2>1. ASSUME NEW t \in entries'[1].seg .. wrCur'.seg
        PROVE  t \in DOMAIN segs'
    <3>1. wrCur'.seg = w.seg
      BY <1>1, <1>4
    <3>2. CASE entries = << >>
      <4>1. n = 1 /\ entries'[1] = w
        BY <1>13, <1>14, <3>2
      <4>2. t = w.seg
        BY <1>4, <2>1, <3>1, <4>1
      <4>3. QED
        BY <1>6, <4>2
    <3>3. CASE entries # << >>
      <4>1. 1 \in 1 .. Len(entries)
        BY <1>5, <3>3
      <4>2. entries'[1] = entries[1] /\ entries[1].seg \in Nat
        BY <1>5, <1>11, <4>1
      <4>3. w.seg = wrCur.seg \/ w.seg = wrCur.seg + 1
        BY <1>4
      <4>4. t \in entries[1].seg .. wrCur.seg \/ t = w.seg
        BY <1>4, <1>5, <2>1, <3>1, <4>2, <4>3
      <4>5. QED
        BY <1>1, <1>2, <1>6, <3>3, <4>4 DEF OpenInv
    <3>4. QED
      BY <3>2, <3>3
  <2>2. ASSUME NEW p \in 1 .. accepted', p \notin acked'
        PROVE  p \in Packets(1 .. Len(entries))'
    <3>1. CASE p = x
      BY <1>14, <1>15, <3>1 DEF Packets
    <3>2. CASE p \in 1 .. accepted
      <4>1. p \in Packets(1 .. Len(entries))
        BY <1>1, <1>2, <2>2, <3>2 DEF OpenInv
      <4>2. PICK k \in 1 .. Len(entries) : PacketAt(entries[k]) = p
        BY <4>1 DEF Packets
      <4>3. k \in 1 .. Len(entries')
        BY <1>5, <1>11
      <4>4. (OnDisk(entries[k]))' /\ (PacketAt(entries[k]))' = p
        BY <1>12, <4>2
      <4>5. QED
        BY <4>3, <4>4 DEF Packets
    <3>3. QED
      BY <1>1, <1>3, <3>1, <3>2 DEF x
  <2>3. QED
    BY <2>1, <2>2 DEF OpenInv
<1>18. ScanInv'
  BY <1>1 DEF ScanInv
<1>19. QED
  BY <1>8, <1>9, <1>10, <1>16, <1>17, <1>18 DEF LossInv

\* A crash keeps the invariant: the saved cursor is good.
LEMMA LossCrash ==
    ASSUME TypeInv, LossInv, Crash
    PROVE  LossInv'
<1>1. /\ "crash" \in Faults /\ mode # "down" /\ mode' = "down" /\ entries' = << >>
      /\ cursor' = cursor /\ accepted' = accepted /\ acked' = acked
      /\ LoadedCursor' = LoadedCursor
  BY DEF Crash, Discard, LoadedCursor
<1>2. WriteInv' /\ IndexInv' /\ ScanInv' /\ OpenInv'
  BY <1>1 DEF WriteInv, IndexInv, ScanInv, OpenInv
<1>3. /\ TornLast /\ WriteInv /\ GoodCursor(LoadedCursor) /\ Covers(LoadedCursor) /\ DOMAIN segs # {}
  BY <1>1 DEF LossInv, CursorInv
<1>4. CASE segs' = segs
  <2>1. TornLast'
    BY <1>1, <1>3, <1>4 DEF TornLast
  <2>2. CursorInv'
    BY <1>1, <1>3, <1>4 DEF CursorInv, GoodCursor, Covers
  <2>3. QED
    BY <1>2, <2>1, <2>2 DEF LossInv
<1>5. CASE segs' # segs
  <2> DEFINE w == RolledCur
  <2>1. mode = "open" /\ segs' \in {RolledSegs, [RolledSegs EXCEPT ![w.seg] = Append(@, Torn)]}
    BY <1>5 DEF Crash
  <2>2. /\ w.seg \in Nat \ {0} /\ w.off \in Nat
        /\ DOMAIN RolledSegs = DOMAIN segs \cup {w.seg}
        /\ \A t \in DOMAIN segs : RolledSegs[t] = segs[t] /\ t <= w.seg
        /\ RolledSegs[w.seg] \in Seq(Nat) /\ Len(RolledSegs[w.seg]) = w.off
        /\ w.seg \notin DOMAIN segs => w.off = 0
    BY <1>1, <1>3, RollFacts
  <2>3. \A t \in DOMAIN segs : t \in Nat \ {0} /\ segs[t] \in Seq(Nat) /\ Len(segs[t]) \in Nat
    BY DiskFacts
  <2> HIDE DEF w
  <2>4. /\ DOMAIN segs' = DOMAIN segs \cup {w.seg}
        /\ \A t \in DOMAIN segs : \A i \in 1 .. Len(segs[t]) :
              i \in 1 .. Len(segs'[t]) /\ segs'[t][i] = segs[t][i]
        /\ \A t \in DOMAIN segs' : \A i \in 1 .. Len(segs'[t]) :
              \/ t \in DOMAIN segs /\ i \in 1 .. Len(segs[t]) /\ segs'[t][i] = segs[t][i]
              \/ t = w.seg /\ i = w.off + 1 /\ i = Len(segs'[t])
        /\ \A t \in DOMAIN segs : Len(segs'[t]) \in Nat
    <3>1. CASE segs' = RolledSegs
      <4>1. \A t \in DOMAIN segs' : t \in DOMAIN segs \/ (t = w.seg /\ Len(segs'[t]) = 0)
        BY <2>2, <3>1
      <4>2. \A t \in DOMAIN segs : segs'[t] = segs[t]
        BY <2>2, <3>1
      <4>3. DOMAIN segs' = DOMAIN segs \cup {w.seg}
        BY <2>2, <3>1
      <4>4. QED
        BY <2>3, <4>1, <4>2, <4>3
    <3>2. CASE segs' = [RolledSegs EXCEPT ![w.seg] = Append(@, Torn)]
      <4>1. /\ DOMAIN segs' = DOMAIN segs \cup {w.seg}
            /\ \A t \in DOMAIN segs : \A i \in 1 .. Len(segs[t]) :
                  i \in 1 .. Len(segs'[t]) /\ segs'[t][i] = segs[t][i]
            /\ Len(segs'[w.seg]) = w.off + 1
            /\ \A t \in DOMAIN segs' : \A i \in 1 .. Len(segs'[t]) :
                  \/ t \in DOMAIN segs /\ i \in 1 .. Len(segs[t]) /\ segs'[t][i] = segs[t][i]
                  \/ t = w.seg /\ i = w.off + 1
        <5>1. Torn \in Nat
          BY DEF Torn
        <5>2. segs' = Grown(Torn)
          BY <3>2 DEF Grown, w
        <5>3. Grows(segs', w, Torn)
          BY <1>1, <1>3, <5>1, <5>2, GrowFacts, Zenon DEF w
        <5>4. QED
          BY <5>3 DEF Grows
      <4>2. \A t \in DOMAIN segs : t # w.seg => segs'[t] = segs[t]
        BY <2>2, <3>2
      <4>3. \A t \in DOMAIN segs : Len(segs'[t]) \in Nat
        BY <2>2, <2>3, <4>1, <4>2
      <4>4. QED
        BY <4>1, <4>3
    <3>3. QED
      BY <2>1, <3>1, <3>2
  <2>5. TornLast'
    <3>1. \A t \in DOMAIN segs : \A i \in 1 .. Len(segs[t]) : segs[t][i] # Torn
      BY <1>3, <2>1 DEF TornLast
    <3>2. \A t \in DOMAIN segs' : t <= w.seg
      BY <2>2, <2>4
    <3>3. SUFFICES ASSUME NEW t \in DOMAIN segs', NEW i \in 1 .. Len(segs'[t]), segs'[t][i] = Torn
                   PROVE  i = Len(segs'[t]) /\ \A u \in DOMAIN segs' : u <= t
      BY <1>1 DEF TornLast
    <3>4. t = w.seg /\ i = Len(segs'[t])
      BY <2>4, <3>1, <3>3
    <3>5. QED
      BY <3>2, <3>4
  <2>6. /\ GoodCursor(LoadedCursor)'
        /\ \A p \in 1 .. accepted :
             p \in acked \/ \E s \in DOMAIN segs' : \E i \in 1 .. Len(segs'[s]) :
                               segs'[s][i] = p /\ AtOrAfter(At(s, i), LoadedCursor)
    BY <1>1, <1>3, <2>4, GrowCursor DEF w
  <2>7. CursorInv'
    BY <1>1, <1>3, <2>4, <2>6 DEF CursorInv, Covers
  <2>8. QED
    BY <1>2, <2>5, <2>7 DEF LossInv
<1>6. QED
  BY <1>4, <1>5

\* The read position of an open queue, also once its first k entries are
\* confirmed, is one the next Open can start from without missing a packet.
LEMMA HeadGood ==
    ASSUME TypeInv, LossInv, mode = "open", NEW k \in 0 .. Len(entries)
    PROVE  LET rest == SubSeq(entries, k + 1, Len(entries))
               h    == ReadCur(rest, wrCur)
           IN  /\ GoodCursor(h) /\ h \in Position /\ h.seg <= wrCur.seg
               /\ rest \in Seq(Position) /\ Len(rest) = Len(entries) - k
               /\ \A j \in 1 .. Len(rest) : j + k \in 1 .. Len(entries) /\ rest[j] = entries[j + k]
               /\ \A j \in 1 .. Len(rest) : AtOrAfter(rest[j], h)
               /\ \A t \in h.seg .. wrCur.seg : t \in DOMAIN segs
               /\ \A p \in 1 .. accepted : \/ p \in acked \/ p \in Packets(1 .. k)
                    \/ \E j \in 1 .. Len(rest) : OnDisk(rest[j]) /\ PacketAt(rest[j]) = p
<1> DEFINE rest == SubSeq(entries, k + 1, Len(entries))
           h    == ReadCur(rest, wrCur)
<1>1. /\ TornLast /\ WriteInv /\ IndexInv /\ OpenInv
  BY DEF LossInv
<1>2. /\ wrCur.seg \in DOMAIN segs /\ wrCur.off = Len(segs[wrCur.seg])
      /\ \A t \in DOMAIN segs : t <= wrCur.seg
      /\ \A t \in DOMAIN segs : t \in Nat \ {0} /\ segs[t] \in Seq(Nat) /\ Len(segs[t]) \in Nat
      /\ wrCur.seg \in Nat \ {0} /\ wrCur.off \in Nat
      /\ wrCur \in Position /\ entries \in Seq(Position) /\ Len(entries) \in Nat
      /\ \A j \in 1 .. Len(entries) :
           entries[j] \in Position /\ entries[j].seg \in Nat \ {0} /\ entries[j].off \in Nat
  BY <1>1, DiskFacts DEF WriteInv, TypeInv, TypeOK
<1>3. k \in Nat /\ k <= Len(entries)
  BY <1>2
<1>4. rest \in Seq(Position) /\ Len(rest) = Len(entries) - k
  BY <1>2, <1>3
<1>5. \A j \in 1 .. Len(rest) : j + k \in 1 .. Len(entries) /\ rest[j] = entries[j + k]
  <2>1. SUFFICES ASSUME NEW j \in 1 .. Len(rest)
                 PROVE  j + k \in 1 .. Len(entries) /\ rest[j] = entries[j + k]
    OBVIOUS
  <2>2. j \in 1 .. Len(entries) - k /\ j + k \in 1 .. Len(entries)
    BY <1>2, <1>3, <1>4, <2>1
  <2>3. rest[j] = entries[k + 1 + j - 1] /\ k + 1 + j - 1 = j + k
    BY <1>2, <1>3, <2>2
  <2>4. QED
    BY <2>2, <2>3
<1> HIDE DEF rest
<1>6. \A i \in 1 .. Len(entries) : entries[i].seg \in DOMAIN segs /\ entries[i].off < Len(segs[entries[i].seg])
  BY <1>1 DEF IndexInv, OnDisk
<1>7. \A s \in DOMAIN segs : \A i \in 1 .. Len(segs[s]) : segs[s][i] # Torn
  BY <1>1 DEF TornLast
<1>8. CASE rest = << >>
  <2>1. h = wrCur /\ Len(rest) = 0
    BY <1>8 DEF ReadCur
  <2> HIDE DEF h
  <2>2. \A s \in DOMAIN segs : \A t \in h.seg .. s : t \in DOMAIN segs
    <3>1. SUFFICES ASSUME NEW s \in DOMAIN segs, NEW t \in h.seg .. s PROVE t = wrCur.seg
      BY <1>2
    <3>2. s \in Nat /\ s <= wrCur.seg /\ t \in wrCur.seg .. s
      BY <1>2, <2>1, <3>1
    <3>3. QED
      BY <1>2, <3>2
  <2>3. h \in Position /\ h.seg <= wrCur.seg /\ h.off <= Len(segs[h.seg]) /\ h.seg \in DOMAIN segs
    BY <1>2, <2>1
  <2>4. GoodCursor(h)
    BY <1>7, <2>2, <2>3 DEF GoodCursor
  <2>5. \A t \in h.seg .. wrCur.seg : t \in DOMAIN segs
    BY <1>2, <2>2
  <2>6. k = Len(entries)
    BY <1>2, <1>3, <1>4, <2>1
  <2>7. \A p \in 1 .. accepted : p \in acked \/ p \in Packets(1 .. k)
    BY <1>1, <2>6 DEF OpenInv
  <2>8. ~ \E j \in 1 .. Len(rest) : TRUE
    BY <2>1
  <2>9. QED
    BY <1>4, <1>5, <2>3, <2>4, <2>5, <2>7, <2>8 DEF h, rest
<1>9. CASE rest # << >>
  <2>1. h = rest[1] /\ 1 \in 1 .. Len(rest)
    BY <1>4, <1>9 DEF ReadCur
  <2>2. 1 + k \in 1 .. Len(entries) /\ h = entries[1 + k] /\ 1 \in 1 .. Len(entries)
    BY <1>2, <1>5, <2>1
  <2> HIDE DEF h
  <2>3. /\ h \in Position /\ h.seg \in Nat /\ h.off \in Nat /\ h.seg \in DOMAIN segs
        /\ h.off < Len(segs[h.seg]) /\ h.seg <= wrCur.seg
    BY <1>2, <1>6, <2>2
  <2>4. h.seg >= entries[1].seg /\ entries[1].seg \in Nat
    <3>1. k = 0 \/ 1 < 1 + k
      BY <1>3
    <3>2. CASE k = 0
      BY <1>2, <2>2, <3>2
    <3>3. CASE 1 < 1 + k
      <4>1. AtOrAfter(entries[1 + k], entries[1])
        BY <1>1, <2>2, <3>3 DEF IndexInv
      <4>2. QED
        BY <1>2, <2>2, <4>1 DEF AtOrAfter
    <3>4. QED
      BY <3>1, <3>2, <3>3
  <2>5. \A t \in h.seg .. wrCur.seg : t \in DOMAIN segs
    <3>1. entries # << >>
      BY <2>2
    <3>2. \A t \in h.seg .. wrCur.seg : t \in entries[1].seg .. wrCur.seg
      BY <1>2, <2>3, <2>4
    <3>3. QED
      BY <1>1, <3>1, <3>2 DEF OpenInv
  <2>6. \A s \in DOMAIN segs : \A t \in h.seg .. s : t \in DOMAIN segs
    <3>1. \A s \in DOMAIN segs : \A t \in h.seg .. s : t \in h.seg .. wrCur.seg
      BY <1>2, <2>3
    <3>2. QED
      BY <2>5, <3>1
  <2>7. GoodCursor(h)
    <3>1. h.off <= Len(segs[h.seg])
      BY <1>2, <2>3
    <3>2. QED
      BY <1>7, <2>3, <2>6, <3>1 DEF GoodCursor
  <2>8. ASSUME NEW j \in 1 .. Len(rest)
        PROVE  AtOrAfter(rest[j], h)
    <3>1. j + k \in 1 .. Len(entries) /\ rest[j] = entries[j + k] /\ j \in Nat
      BY <1>2, <1>3, <1>4, <1>5
    <3>2. CASE j = 1
      BY <2>1, <2>3, <3>2 DEF AtOrAfter
    <3>3. CASE j > 1
      <4>1. 1 + k < j + k
        BY <1>3, <3>1, <3>3
      <4>2. QED
        BY <1>1, <2>2, <3>1, <4>1 DEF IndexInv
    <3>4. QED
      BY <1>2, <1>3, <1>4, <3>1, <3>2, <3>3
  <2>9. ASSUME NEW p \in 1 .. accepted, p \notin acked, p \notin Packets(1 .. k)
        PROVE  \E j \in 1 .. Len(rest) : OnDisk(rest[j]) /\ PacketAt(rest[j]) = p
    <3>1. p \in Packets(1 .. Len(entries))
      BY <1>1, <2>9 DEF OpenInv
    <3>2. PICK i \in 1 .. Len(entries) : OnDisk(entries[i]) /\ PacketAt(entries[i]) = p
      BY <3>1 DEF Packets
    <3>3. i \notin 1 .. k
      BY <2>9, <3>2 DEF Packets
    <3>4. i - k \in 1 .. Len(rest) /\ (i - k) + k = i
      BY <1>2, <1>3, <1>4, <3>3
    <3>5. rest[i - k] = entries[i]
      BY <1>5, <3>4
    <3>6. QED
      BY <3>2, <3>4, <3>5
  <2>10. QED
    BY <1>4, <1>5, <2>3, <2>5, <2>7, <2>8, <2>9 DEF h, rest
<1>10. QED
  BY <1>8, <1>9

\* Close saves a good cursor.
LEMMA LossClose ==
    ASSUME TypeInv, LossInv, Close
    PROVE  LossInv'
<1> DEFINE h == ReadCur(entries, wrCur)
<1>1. /\ mode = "open" /\ mode' = "down" /\ entries' = << >> /\ segs' = segs
      /\ cursor' = h /\ accepted' = accepted /\ acked' = acked
  BY DEF Close, Discard
<1>2. WriteInv' /\ IndexInv' /\ ScanInv' /\ OpenInv'
  BY <1>1 DEF WriteInv, IndexInv, ScanInv, OpenInv
<1>3. TornLast'
  BY <1>1 DEF LossInv, TornLast
<1>4. entries \in Seq(Position) /\ Len(entries) \in Nat /\ 0 \in 0 .. Len(entries)
      /\ SubSeq(entries, 0 + 1, Len(entries)) = entries
  BY DEF TypeInv, TypeOK
<1>5. /\ GoodCursor(h) /\ h \in Position
      /\ \A j \in 1 .. Len(entries) : AtOrAfter(entries[j], h)
      /\ \A p \in 1 .. accepted : \/ p \in acked \/ p \in Packets(1 .. 0)
           \/ \E j \in 1 .. Len(entries) : OnDisk(entries[j]) /\ PacketAt(entries[j]) = p
  BY <1>1, <1>4, HeadGood
<1>6. LoadedCursor' = h
  BY <1>1, <1>5 DEF LoadedCursor, Position
<1> HIDE DEF h
<1>7. GoodCursor(LoadedCursor)' /\ DOMAIN segs' # {}
  BY <1>1, <1>5, <1>6 DEF GoodCursor
<1>8. ASSUME NEW p \in 1 .. accepted, p \notin acked
      PROVE  \E s \in DOMAIN segs : \E i \in 1 .. Len(segs[s]) :
                segs[s][i] = p /\ AtOrAfter(At(s, i), h)
  <2>1. Packets(1 .. 0) = {}
    BY DEF Packets
  <2>2. PICK j \in 1 .. Len(entries) : OnDisk(entries[j]) /\ PacketAt(entries[j]) = p
    BY <1>5, <1>8, <2>1
  <2>3. entries[j] \in Position
    BY <1>4
  <2> DEFINE s == entries[j].seg
             i == entries[j].off + 1
  <2>4. s \in DOMAIN segs /\ i \in 1 .. Len(segs[s]) /\ segs[s][i] = p
    <3>1. s \in DOMAIN segs /\ entries[j].off < Len(segs[s]) /\ segs[s][i] = p
      BY <2>2 DEF OnDisk, PacketAt
    <3>2. Len(segs[s]) \in Nat
      BY <3>1, DiskFacts
    <3>3. entries[j].off \in Nat
      BY <2>3 DEF Position
    <3>4. QED
      BY <3>1, <3>2, <3>3
  <2>5. At(s, i) = entries[j]
    BY <2>3 DEF At, Position
  <2>6. AtOrAfter(At(s, i), h)
    BY <1>5, <2>5
  <2> HIDE DEF s, i
  <2>7. QED
    BY <2>4, <2>6
<1>9. Covers(LoadedCursor)'
  BY <1>1, <1>6, <1>8 DEF Covers
<1>10. QED
  BY <1>2, <1>3, <1>7, <1>9 DEF LossInv, CursorInv

\* AckN keeps the invariant: what it saves is good, and what it deletes is confirmed.
LEMMA LossAck ==
    ASSUME SafeConfig, TypeInv, LossInv, NEW n \in 1 .. MaxBatch, NEW saveFails \in BOOLEAN,
           AckN(n, saveFails)
    PROVE  LossInv'
<1>1. PICK k : k = AckCount(n)
  OBVIOUS
<1> DEFINE rest == SubSeq(entries, k + 1, Len(entries))
           due  == CursorDue(k)
           h    == ReadCur(rest, wrCur)
           drop == IF due /\ saveFails THEN {} ELSE Confirmed(h)
<1>2. k \in 1 .. Len(entries) /\ entries' = rest /\ acked' = acked \cup Packets(1 .. k)
  BY <1>1, AckFacts
<1>3. /\ mode = "open" /\ mode' = "open" /\ wrCur' = wrCur /\ retention' = retention
      /\ accepted' = accepted
      /\ cursor' = IF due /\ ~saveFails THEN h ELSE cursor
      /\ segs' = Without(segs, drop)
  BY <1>1 DEF AckN, DropSegments
<1>4. k \in 0 .. Len(entries)
  <2>1. Len(entries) \in Nat
    BY DiskFacts
  <2>2. QED
    BY <1>2, <2>1
<1>5. /\ GoodCursor(h) /\ h \in Position /\ h.seg <= wrCur.seg
      /\ rest \in Seq(Position) /\ Len(rest) = Len(entries) - k
      /\ \A j \in 1 .. Len(rest) : j + k \in 1 .. Len(entries) /\ rest[j] = entries[j + k]
      /\ \A j \in 1 .. Len(rest) : AtOrAfter(rest[j], h)
      /\ \A t \in h.seg .. wrCur.seg : t \in DOMAIN segs
      /\ \A p \in 1 .. accepted : \/ p \in acked \/ p \in Packets(1 .. k)
           \/ \E j \in 1 .. Len(rest) : OnDisk(rest[j]) /\ PacketAt(rest[j]) = p
  BY <1>3, <1>4, HeadGood
<1>6. /\ TornLast /\ CursorInv /\ WriteInv /\ IndexInv /\ OpenInv
  BY DEF LossInv
<1>7. drop = {} \/ drop = {s \in files : s < h.seg}
  BY DEF Confirmed
<1>8. "crash" \in Faults => drop = {}
  <2>1. SUFFICES ASSUME "crash" \in Faults PROVE retention.on
    BY DEF Confirmed
  <2>2. retention \in Retentions /\ NoRetention \notin Retentions /\ Retentions \subseteq {NoRetention, KeepAll}
    BY <1>3, <1>6, <2>1 DEF SafeConfig, WriteInv
  <2>3. retention = KeepAll
    BY <2>2
  <2>4. QED
    BY <2>3 DEF KeepAll
<1> HIDE DEF rest, h, due, drop
<1>9. /\ wrCur.seg \in DOMAIN segs /\ wrCur.off = Len(segs[wrCur.seg])
      /\ \A t \in DOMAIN segs : t <= wrCur.seg
      /\ \A t \in DOMAIN segs : t \in Nat \ {0} /\ Len(segs[t]) \in Nat
      /\ wrCur.seg \in Nat \ {0} /\ retention \in Retentions /\ files \subseteq Nat \ {0}
      /\ h.seg \in Nat \ {0} /\ h.off \in Nat /\ Len(entries) \in Nat
  BY <1>3, <1>5, <1>6, DiskFacts DEF WriteInv, TypeInv, TypeOK, Position
<1>10. DOMAIN segs' = DOMAIN segs \ drop /\ \A t \in DOMAIN segs' : segs'[t] = segs[t]
  BY <1>3 DEF Without
<1>11. \A t \in DOMAIN segs : t >= h.seg => t \in DOMAIN segs' /\ segs'[t] = segs[t]
  BY <1>7, <1>9, <1>10
<1>12. ASSUME NEW j \in 1 .. Len(rest)
       PROVE  /\ OnDisk(rest[j]) /\ rest[j].seg \in Nat /\ rest[j].seg >= h.seg
              /\ rest[j].seg \in DOMAIN segs' /\ segs'[rest[j].seg] = segs[rest[j].seg]
  <2>1. OnDisk(rest[j])
    BY <1>3, <1>5, <1>6 DEF IndexInv
  <2>2. rest[j] \in Position
    BY <1>5
  <2>3. rest[j].seg \in Nat /\ rest[j].seg >= h.seg
    <3>1. rest[j].seg \in Nat
      BY <2>2 DEF Position
    <3>2. AtOrAfter(rest[j], h)
      BY <1>5
    <3>3. QED
      BY <1>9, <3>1, <3>2 DEF AtOrAfter
  <2>4. QED
    BY <1>11, <2>1, <2>3 DEF OnDisk
<1>13. \A j \in 1 .. Len(rest) : (OnDisk(entries[j]))' /\ (PacketAt(entries[j]))' = PacketAt(rest[j])
  BY <1>2, <1>12 DEF OnDisk, PacketAt
<1>14. IndexInv'
  <2>1. ASSUME NEW i \in 1 .. Len(rest), NEW j \in 1 .. Len(rest), i < j
        PROVE  AtOrAfter(rest[j], rest[i])
    <3>1. /\ i + k \in 1 .. Len(entries) /\ rest[i] = entries[i + k]
          /\ j + k \in 1 .. Len(entries) /\ rest[j] = entries[j + k]
      BY <1>5
    <3>2. i + k < j + k
      BY <1>4, <1>5, <1>9, <2>1
    <3>3. QED
      BY <1>3, <1>6, <3>1, <3>2 DEF IndexInv
  <2>2. QED
    BY <1>2, <1>13, <2>1 DEF IndexInv
<1>15. WriteInv'
  <2>1. wrCur.seg \in DOMAIN segs' /\ segs'[wrCur.seg] = segs[wrCur.seg]
    BY <1>5, <1>9, <1>11
  <2>2. QED
    BY <1>3, <1>9, <1>10, <2>1 DEF WriteInv
<1>16. TornLast'
  BY <1>3, <1>6, <1>10 DEF TornLast
<1>17. ScanInv'
  BY <1>3 DEF ScanInv
<1>18. OpenInv'
  <2>1. ASSUME rest # << >>, NEW t \in rest[1].seg .. wrCur.seg
        PROVE  t \in DOMAIN segs'
    <3>1. 1 \in 1 .. Len(rest)
      BY <1>5, <2>1
    <3>2. rest[1].seg \in Nat /\ rest[1].seg >= h.seg
      BY <1>12, <3>1
    <3>3. t \in h.seg .. wrCur.seg /\ t >= h.seg
      BY <1>9, <2>1, <3>2
    <3>4. QED
      BY <1>5, <1>11, <3>3
  <2>2. ASSUME NEW p \in 1 .. accepted, p \notin acked'
        PROVE  p \in Packets(1 .. Len(entries))'
    <3>1. p \notin acked /\ p \notin Packets(1 .. k)
      BY <1>2, <2>2
    <3>2. PICK j \in 1 .. Len(rest) : OnDisk(rest[j]) /\ PacketAt(rest[j]) = p
      BY <1>5, <3>1
    <3>3. j \in 1 .. Len(entries') /\ (OnDisk(entries[j]))' /\ (PacketAt(entries[j]))' = p
      BY <1>2, <1>13, <3>2
    <3>4. QED
      BY <3>3 DEF Packets
  <2>3. QED
    BY <1>2, <1>3, <2>1, <2>2 DEF OpenInv
<1>19. CursorInv'
  <2>1. SUFFICES ASSUME "crash" \in Faults
                 PROVE  DOMAIN segs' # {} /\ GoodCursor(LoadedCursor)' /\ Covers(LoadedCursor)'
    BY <1>3 DEF CursorInv
  <2>2. DOMAIN segs' = DOMAIN segs /\ \A s \in DOMAIN segs : segs'[s] = segs[s]
    BY <1>8, <1>10, <2>1
  <2>3. CASE due /\ ~saveFails
    <3>1. cursor' = h /\ LoadedCursor' = h
      BY <1>3, <1>9, <2>3 DEF LoadedCursor
    <3>2. GoodCursor(LoadedCursor)'
      BY <1>5, <2>2, <3>1 DEF GoodCursor
    <3>3. ASSUME NEW p \in 1 .. accepted, p \notin acked'
          PROVE  \E s \in DOMAIN segs : \E i \in 1 .. Len(segs[s]) :
                    segs[s][i] = p /\ AtOrAfter(At(s, i), h)
      <4>1. p \notin acked /\ p \notin Packets(1 .. k)
        BY <1>2, <3>3
      <4>2. PICK j \in 1 .. Len(rest) : OnDisk(rest[j]) /\ PacketAt(rest[j]) = p
        BY <1>5, <4>1
      <4>3. rest[j] \in Position
        BY <1>5
      <4> DEFINE s == rest[j].seg
                 i == rest[j].off + 1
      <4>4. s \in DOMAIN segs /\ rest[j].off < Len(segs[s]) /\ segs[s][i] = p
        BY <4>2 DEF OnDisk, PacketAt
      <4>5. i \in 1 .. Len(segs[s])
        <5>1. Len(segs[s]) \in Nat
          BY <1>9, <4>4
        <5>2. rest[j].off \in Nat
          BY <4>3 DEF Position
        <5>3. QED
          BY <4>4, <5>1, <5>2
      <4>6. At(s, i) = rest[j]
        BY <4>3 DEF At, Position
      <4>7. AtOrAfter(At(s, i), h)
        BY <1>5, <4>6
      <4> HIDE DEF s, i
      <4>8. QED
        BY <4>4, <4>5, <4>7
    <3>4. Covers(LoadedCursor)'
      BY <1>3, <2>2, <3>1, <3>3 DEF Covers
    <3>5. QED
      BY <1>9, <2>2, <3>2, <3>4
  <2>4. CASE ~(due /\ ~saveFails)
    <3>1. LoadedCursor' = LoadedCursor
      BY <1>3, <2>4 DEF LoadedCursor
    <3>2. DOMAIN segs # {} /\ GoodCursor(LoadedCursor) /\ Covers(LoadedCursor)
      BY <1>3, <1>6, <2>1 DEF CursorInv
    <3>3. acked \subseteq acked'
      BY <1>2
    <3>4. QED
      BY <1>3, <2>2, <3>1, <3>2, <3>3 DEF GoodCursor, Covers
  <2>5. QED
    BY <2>3, <2>4
<1>20. QED
  BY <1>14, <1>15, <1>16, <1>17, <1>18, <1>19 DEF LossInv

\* Without a window EnforceRetention finds nothing to drop.
LEMMA NothingExpires ==
    ASSUME SafeConfig, LossInv, EnforceRetention
    PROVE  FALSE
<1>1. mode = "open" /\ retention.on
  BY DEF EnforceRetention
<1>2. retention = KeepAll
  <2>1. retention \in {NoRetention, KeepAll}
    BY <1>1 DEF LossInv, WriteInv, SafeConfig
  <2>2. QED
    BY <1>1, <2>1 DEF NoRetention
<1>3. ~retention.maxAge /\ retention.maxBytes = 0
  BY <1>2 DEF KeepAll
<1>4. PICK drop \in EnforcedDrops(1 .. 1 - 1) : drop # {}
  BY <1>3 DEF EnforceRetention
<1>5. 1 .. 1 - 1 = {}
  OBVIOUS
<1>6. drop = {}
  BY <1>3, <1>4, <1>5 DEF EnforcedDrops
<1>7. QED
  BY <1>4, <1>6

\* Every step keeps the invariant.
LEMMA LossStep ==
    ASSUME SafeConfig, TypeInv, TypeInv', LossInv, [Next]_vars
    PROVE  LossInv'
<1>1. CASE Open
  BY <1>1, LossOpen DEF Open
<1>2. CASE ScanSegment
  BY <1>2, LossScan
<1>3. CASE OpenFails
  BY <1>3 DEF OpenFails, LossInv, ScanInv
<1>4. CASE AppendPacket
  BY <1>4, LossAppend
<1>5. CASE AppendFull \/ AppendFails \/ Requeue
  BY <1>5, LossFrame DEF AppendFull, AppendFails, Requeue, disk, history, LossInv, WriteInv
<1>6. CASE Deliver
  BY <1>6, LossFrame DEF Deliver, NextBatch, disk, LossInv, WriteInv
<1>7. CASE Acknowledge
  BY <1>7, LossAck DEF Acknowledge
<1>8. CASE SetRetention
  BY <1>8, LossFrame DEF SetRetention, EnableRetention, disk, history
<1>9. CASE EnforceRetention
  BY <1>9, NothingExpires
<1>10. CASE Close
  BY <1>10, LossClose
<1>11. CASE Crash
  BY <1>11, LossCrash
<1>12. CASE PowerLoss
  BY <1>12 DEF PowerLoss, SafeConfig
<1>13. CASE UNCHANGED vars
  BY <1>13, LossFrame DEF vars, disk, memory, history, LossInv, WriteInv
<1>14. QED
  BY <1>1, <1>2, <1>3, <1>4, <1>5, <1>6, <1>7, <1>8, <1>9, <1>10, <1>11, <1>12, <1>13
     DEF Next

\* What the invariant says of the packets without a confirmation.
LEMMA LossInvHolds ==
    ASSUME TypeInv, LossInv
    PROVE  NoLoss
<1>1. SUFFICES ASSUME NEW p \in 1 .. accepted, p \notin acked
               PROVE  p \in Held
  BY DEF NoLoss
<1>2. CASE mode = "open"
  BY <1>1, <1>2 DEF LossInv, OpenInv, Held
<1>3. CASE mode # "open"
  <2> DEFINE c == LoadedCursor
  <2>1. GoodCursor(c) /\ Covers(c) /\ TornLast
    BY <1>1, <1>3 DEF LossInv, CursorInv
  <2>2. /\ c.seg \in Nat \ {0} /\ c.off \in Nat
        /\ \A t \in DOMAIN segs : t \in Nat \ {0} /\ segs[t] \in Seq(Nat) /\ Len(segs[t]) \in Nat
    BY DiskFacts
  <2> HIDE DEF c
  <2>3. PICK s \in DOMAIN segs : \E i \in 1 .. Len(segs[s]) :
             segs[s][i] = p /\ AtOrAfter(At(s, i), c)
    BY <1>1, <2>1 DEF Covers
  <2>4. PICK i \in 1 .. Len(segs[s]) : segs[s][i] = p /\ AtOrAfter(At(s, i), c)
    BY <2>3
  <2>5. i \in Nat /\ i >= 1 /\ i <= Len(segs[s]) /\ p # Torn /\ s \in Nat
    BY <2>2, <2>4, <1>1 DEF Torn
  <2> DEFINE q == At(s, i)
  <2>6. q.seg = s /\ q.off = i - 1 /\ q \in [seg : {s}, off : 0 .. Len(segs[s]) - 1]
    BY <2>2, <2>5 DEF At
  <2>7. q.seg >= c.seg /\ (q.seg = c.seg => q.off >= c.off)
    BY <2>2, <2>4, <2>5, <2>6 DEF AtOrAfter
  <2> HIDE DEF q
  <2>8. ASSUME NEW t \in c.seg .. q.seg
        PROVE  /\ t \in DOMAIN segs
               /\ \A j \in 1 .. Len(segs[t]) : segs[t][j] = Torn => t = q.seg /\ j > q.off + 1
    <3>1. t \in DOMAIN segs
      BY <2>1, <2>6 DEF GoodCursor
    <3>2. ASSUME NEW j \in 1 .. Len(segs[t]), segs[t][j] = Torn
          PROVE  t = q.seg /\ j > q.off + 1
      <4>1. j = Len(segs[t]) /\ s <= t
        BY <2>1, <3>1, <3>2 DEF TornLast
      <4>2. t = s
        BY <2>2, <2>5, <2>6, <4>1, <2>8
      <4>3. j # i
        BY <2>4, <2>5, <3>2, <4>2
      <4>4. j > i
        BY <2>2, <2>5, <4>1, <4>2, <4>3
      <4>5. QED
        BY <2>5, <2>6, <4>2, <4>4
    <3>3. QED
      BY <3>1, <3>2
  <2>9. q \in Recoverable
    BY <2>3, <2>6, <2>7, <2>8 DEF Recoverable, c
  <2>10. PacketAt(q) = p
    BY <2>4, <2>5, <2>6 DEF PacketAt
  <2>11. QED
    BY <1>3, <2>9, <2>10 DEF Held
<1>4. QED
  BY <1>2, <1>3

\* A packet Append accepted and nobody confirmed is never lost, for every quota,
\* segment size, cursor interval and batch size, as long as the retention window
\* is off, no power is lost, and a process that may crash runs in archive mode.
THEOREM NoLossSafe ==
    ASSUME SafeConfig
    PROVE  Spec => []NoLoss
<1>1. Init => TypeInv /\ LossInv
  BY TypeInit, LossInit
<1>2. TypeInv /\ LossInv /\ [Next]_vars => (TypeInv /\ LossInv)'
  BY TypeStep, LossStep
<1>3. TypeInv /\ LossInv => NoLoss
  BY LossInvHolds
<1>4. QED
  BY <1>1, <1>2, <1>3, PTL DEF Spec

(***************************************************************************)
(* Only what was handed out is confirmed.  A record in flight is the one   *)
(* that was read when it was handed out: its segment number is never used  *)
(* again once the segment is gone, because no position of the index lies   *)
(* behind the write position, and a record is never written over.          *)
(***************************************************************************)
NoneAhead ==
    mode = "scanning" =>
       /\ nextIdx = 0 /\ \A s \in DOMAIN segs : s <= wrCur.seg
       /\ \A i \in 1 .. Len(entries) : entries[i].seg < scanPos.seg

Writable ==
    mode # "down" =>
       /\ wrCur.seg \in files => wrCur.seg \in DOMAIN segs
       /\ wrCur.seg \in DOMAIN segs => wrCur.off <= Len(segs[wrCur.seg])

\* Position p is not behind the write position, and its record is there if its
\* segment is.
Indexes(p) == p.seg <= wrCur.seg /\ (p.seg \in DOMAIN segs => p.off < Len(segs[p.seg]))

IndexBehind == mode # "down" => \A i \in 1 .. Len(entries) : Indexes(entries[i])

HandedOut ==
    mode = "open" =>
       \A i \in 1 .. nextIdx : OnDisk(entries[i]) => PacketAt(entries[i]) \in delivered

DeliveryInv == NoneAhead /\ Writable /\ IndexBehind /\ HandedOut /\ AckedWereDelivered

\* Open starts with an empty index and the last segment as the one to write.
LEMMA DeliveryOpen ==
    ASSUME TypeInv, DeliveryInv, NEW r \in Retentions, OpenBegin(r)
    PROVE  DeliveryInv'
<1> DEFINE listed == DOMAIN segs
           last   == IF listed = {} THEN 1 ELSE CHOOSE s \in listed : \A t \in listed : t <= s
           onDisk == IF listed = {} THEN [s \in {1} |-> << >>] ELSE segs
           stale  == IF ~r.on THEN {s \in listed : s < LoadedCursor.seg} ELSE {}
<1>1. /\ wrCur' = [seg |-> last, off |-> Len(onDisk[last])] /\ segs' = Without(onDisk, stale)
      /\ files' = {last} \ stale
      /\ entries' = << >> /\ nextIdx' = 0 /\ mode' = "scanning" /\ UNCHANGED history
  BY DEF OpenBegin, DropSegments
<1>2. last \in DOMAIN onDisk /\ \A s \in DOMAIN onDisk : s <= last /\ onDisk[s] \in Seq(Nat)
  <2>1. CASE listed = {}
    BY <2>1
  <2>2. CASE listed # {}
    BY <2>2, LastSegment DEF TypeInv, TypeOK
  <2>3. QED
    BY <2>1, <2>2
<1> HIDE DEF listed, last, onDisk, stale
<1>3. /\ wrCur'.seg = last /\ wrCur'.off = Len(onDisk[last]) /\ DOMAIN segs' = DOMAIN onDisk \ stale
      /\ \A s \in DOMAIN segs' : segs'[s] = onDisk[s]
  BY <1>1 DEF Without
<1>4. Len(onDisk[last]) \in Nat
  BY <1>2
<1>5. Writable'
  BY <1>1, <1>2, <1>3, <1>4 DEF Writable
<1>6. NoneAhead' /\ IndexBehind' /\ HandedOut'
  BY <1>1, <1>2, <1>3 DEF NoneAhead, IndexBehind, HandedOut
<1>7. AckedWereDelivered'
  BY <1>1 DEF DeliveryInv, AckedWereDelivered, history
<1>8. QED
  BY <1>5, <1>6, <1>7 DEF DeliveryInv

\* The scan of a segment indexes records that are there, behind all it indexed before.
LEMMA DeliveryScan ==
    ASSUME TypeInv, DeliveryInv, ScanSegment
    PROVE  DeliveryInv'
<1> DEFINE s    == scanPos.seg
           off  == scanPos.off
           stop == ScanEnd(s, off)
           cut  == stop < Len(segs[s])
           new  == [i \in 1 .. stop - off |-> [seg |-> s, off |-> off + i - 1]]
<1>1. /\ s \in DOMAIN segs /\ s \in Nat \ {0} /\ off \in Nat
      /\ segs[s] \in Seq(Nat) /\ entries \in Seq(Position) /\ mode = "scanning" /\ mode # "down"
  BY DEF ScanSegment, TypeInv, TypeOK, Position
<1>2. stop \in Nat /\ stop <= Len(segs[s])
  BY <1>1, ScanEndFacts
<1> HIDE DEF stop
<1>3. /\ entries' = IF off < stop THEN entries \o new ELSE entries
      /\ files' = files \cup {s}
      /\ segs' = IF cut THEN [segs EXCEPT ![s] = SubSeq(@, 1, stop)] ELSE segs
      /\ wrCur' = IF cut THEN [seg |-> s, off |-> stop] ELSE wrCur
      /\ \/ mode' = "scanning" /\ ~cut /\ scanPos' = [seg |-> s + 1, off |-> 0]
         \/ mode' = "open"
      /\ UNCHANGED <<nextIdx, history>>
  BY Zenon DEF ScanSegment, Indexed, Truncated, stop
<1>4. nextIdx = 0 /\ \A t \in DOMAIN segs : t <= wrCur.seg
  BY <1>1 DEF DeliveryInv, NoneAhead
<1>5. DOMAIN segs' = DOMAIN segs /\ \A t \in DOMAIN segs : t # s => segs'[t] = segs[t]
  BY <1>3
<1>6. Len(segs'[s]) = stop /\ stop \in Nat
  <2>1. CASE cut
    <3>1. segs'[s] = SubSeq(segs[s], 1, stop)
      BY <1>1, <1>3, <2>1
    <3>2. QED
      BY <1>1, <1>2, <3>1
  <2>2. CASE ~cut
    <3>1. segs'[s] = segs[s] /\ Len(segs[s]) \in Nat
      BY <1>1, <1>3, <2>2
    <3>2. QED
      BY <1>2, <2>2, <3>1
  <2>3. QED
    BY <2>1, <2>2
<1>7. \A i \in 1 .. Len(entries') :
         \/ i \in 1 .. Len(entries) /\ entries'[i] = entries[i]
         \/ entries'[i].seg = s /\ entries'[i].off \in Nat /\ entries'[i].off < stop
  <2>1. CASE off < stop
    <3>1. stop - off \in Nat /\ new \in [1 .. stop - off -> Position]
      BY <1>1, <1>2, <2>1 DEF Position
    <3>2. \A i \in 1 .. stop - off : new[i].seg = s /\ new[i].off \in Nat /\ new[i].off < stop
      BY <1>1, <1>2, <2>1
    <3>3. entries' = entries \o new
      BY <1>3, <2>1
    <3> HIDE DEF new, off
    <3>4. new \in Seq(Position) /\ Len(new) = stop - off
      BY <3>1
    <3>5. ASSUME NEW i \in 1 .. Len(entries')
          PROVE  \/ i \in 1 .. Len(entries) /\ entries'[i] = entries[i]
                 \/ i - Len(entries) \in 1 .. stop - off /\ entries'[i] = new[i - Len(entries)]
      BY <1>1, <3>1, <3>3, <3>4
    <3>6. QED
      BY <3>2, <3>5
  <2>2. CASE ~(off < stop)
    BY <1>3, <2>2
  <2>3. QED
    BY <2>1, <2>2
<1>8. \/ wrCur' = wrCur /\ s <= wrCur'.seg
      \/ wrCur'.seg = s /\ wrCur'.off = stop
  BY <1>1, <1>3, <1>4
<1>9. \A i \in 1 .. Len(entries) : /\ entries[i].seg < s /\ entries[i].seg \in Nat
                                   /\ entries[i].seg \in DOMAIN segs => entries[i].off < Len(segs[entries[i].seg])
  <2>1. \A i \in 1 .. Len(entries) : entries[i] \in Position
    BY <1>1
  <2>2. \A i \in 1 .. Len(entries) : entries[i].seg < s
    BY <1>1 DEF DeliveryInv, NoneAhead
  <2>3. \A i \in 1 .. Len(entries) : entries[i].seg \in DOMAIN segs => entries[i].off < Len(segs[entries[i].seg])
    BY <1>1 DEF DeliveryInv, IndexBehind, Indexes
  <2> HIDE DEF s
  <2>4. QED
    BY <2>1, <2>2, <2>3 DEF Position
<1>10. wrCur'.seg \in Nat /\ wrCur.seg \in Nat /\ wrCur.off \in Nat
  BY <1>1, <1>8 DEF TypeInv, TypeOK, Position
<1> HIDE DEF s, off, new, cut
<1>11. ASSUME NEW i \in 1 .. Len(entries')
       PROVE  entries'[i].seg <= wrCur'.seg /\ entries'[i].seg <= s /\ entries'[i].seg \in Nat
              /\ (entries'[i].seg \in DOMAIN segs' => entries'[i].off < Len(segs'[entries'[i].seg]))
  <2>1. CASE i \in 1 .. Len(entries) /\ entries'[i] = entries[i]
    <3>1. /\ entries[i].seg < s /\ entries[i].seg \in Nat /\ wrCur'.seg \in Nat /\ s \in Nat
          /\ entries[i].seg \in DOMAIN segs => entries[i].off < Len(segs[entries[i].seg])
      BY <1>1, <1>9, <1>10, <2>1
    <3>2. DOMAIN segs' = DOMAIN segs /\ (entries[i].seg \in DOMAIN segs => segs'[entries[i].seg] = segs[entries[i].seg])
      BY ONLY <1>5, <3>1
    <3>3. s <= wrCur'.seg
      BY <1>8, <3>1
    <3>4. QED
      BY ONLY <2>1, <3>1, <3>2, <3>3
  <2>2. CASE entries'[i].seg = s /\ entries'[i].off \in Nat /\ entries'[i].off < stop
    BY <1>1, <1>6, <1>8, <1>10, <2>2
  <2>3. QED
    BY <1>7, <2>1, <2>2
<1>12. NoneAhead'
  <2>1. ASSUME mode' = "scanning"
        PROVE  /\ nextIdx' = 0 /\ \A t \in DOMAIN segs' : t <= wrCur'.seg
               /\ \A i \in 1 .. Len(entries') : entries'[i].seg < scanPos'.seg
    <3>1. scanPos'.seg = s + 1 /\ wrCur' = wrCur
      BY <1>3, <2>1
    <3>2. QED
      BY <1>1, <1>3, <1>4, <1>5, <1>11, <3>1
  <2>2. QED
    BY <2>1 DEF NoneAhead
<1>13. Writable'
  <2>1. wrCur'.seg \in files' => wrCur'.seg \in DOMAIN segs'
    BY <1>1, <1>3, <1>5, <1>8 DEF DeliveryInv, Writable
  <2>2. wrCur'.seg \in DOMAIN segs' => wrCur'.off <= Len(segs'[wrCur'.seg])
    <3>1. CASE wrCur'.seg = s /\ wrCur'.off = stop
      BY <1>6, <3>1
    <3>2. CASE wrCur' = wrCur /\ wrCur.seg # s
      BY <1>1, <1>5, <3>2 DEF DeliveryInv, Writable
    <3>3. CASE wrCur' = wrCur /\ wrCur.seg = s
      <4>1. wrCur.off <= Len(segs[s])
        BY <1>1, <3>3 DEF DeliveryInv, Writable
      <4>2. ~cut => Len(segs'[s]) = Len(segs[s])
        BY <1>3
      <4>3. cut => wrCur'.off = stop
        BY <1>3
      <4>4. QED
        BY <1>6, <3>3, <4>1, <4>2, <4>3
    <3>4. QED
      BY <1>8, <3>1, <3>2, <3>3
  <2>3. QED
    BY <2>1, <2>2 DEF Writable
<1>14. IndexBehind'
  BY <1>11 DEF IndexBehind, Indexes
<1>15. HandedOut' /\ AckedWereDelivered'
  BY <1>3, <1>4 DEF DeliveryInv, HandedOut, AckedWereDelivered, history
<1>16. QED
  BY <1>12, <1>13, <1>14, <1>15 DEF DeliveryInv

\* A new record goes behind all positions of the index, and every record stays.
LEMMA DeliveryAppend ==
    ASSUME TypeInv, DeliveryInv, AppendPacket
    PROVE  DeliveryInv'
<1> DEFINE w == RolledCur
           R == RolledSegs
<1>1. /\ mode = "open" /\ mode' = mode /\ wrCur.seg \in files
      /\ segs' = [R EXCEPT ![w.seg] = Append(@, accepted + 1)]
      /\ entries' = Append(entries, w)
      /\ wrCur' = [w EXCEPT !.off = @ + 1]
      /\ files' = files \cup {w.seg}
      /\ UNCHANGED <<nextIdx, delivered, acked>>
  BY DEF AppendPacket
<1>2. /\ w \in Position /\ w.seg \in DOMAIN R
      /\ \A s \in DOMAIN R : R[s] \in Seq(Nat)
  BY <1>1, RolledType
<1>3. wrCur.seg \in Nat /\ wrCur.off \in Nat /\ wrCur.seg \in DOMAIN segs /\ wrCur.off <= Len(segs[wrCur.seg])
  BY <1>1 DEF DeliveryInv, Writable, TypeInv, TypeOK, Position
<1>4. DOMAIN R = DOMAIN segs \cup {w.seg} /\ \A t \in DOMAIN segs : R[t] = segs[t]
  BY DEF RolledSegs
<1>5. w.off <= Len(R[w.seg]) /\ w.seg \in Nat /\ w.off \in Nat /\ wrCur.seg <= w.seg
      /\ (w.seg \in DOMAIN segs \/ w.seg > wrCur.seg)
  <2>1. CASE wrCur.off >= SegBytes
    <3>1. w = [seg |-> wrCur.seg + 1, off |-> 0]
      BY <2>1 DEF RolledCur
    <3>2. w.seg = wrCur.seg + 1 /\ w.off = 0
      BY <3>1
    <3>3. Len(R[w.seg]) \in Nat
      BY <1>2
    <3>4. QED
      BY <1>3, <3>2, <3>3
  <2>2. CASE ~(wrCur.off >= SegBytes)
    <3>1. w = wrCur
      BY <2>2 DEF RolledCur
    <3>2. QED
      BY <1>3, <1>4, <3>1
  <2>3. QED
    BY <2>1, <2>2
<1>6. wrCur'.seg = w.seg /\ wrCur'.off = w.off + 1
  BY <1>1, <1>2 DEF Position
<1> HIDE DEF w, R
<1>7. DOMAIN segs' = DOMAIN segs \cup {w.seg} /\ \A t \in DOMAIN segs : t # w.seg => segs'[t] = segs[t]
  BY <1>1, <1>4
<1>8. segs'[w.seg] = Append(R[w.seg], accepted + 1) /\ R[w.seg] \in Seq(Nat)
  BY <1>1, <1>2
<1>9. Len(segs'[w.seg]) = Len(R[w.seg]) + 1 /\ Len(R[w.seg]) \in Nat
      /\ \A i \in 1 .. Len(R[w.seg]) : segs'[w.seg][i] = R[w.seg][i]
  <2>1. ASSUME NEW q \in Seq(Nat), NEW x
        PROVE  Len(Append(q, x)) = Len(q) + 1 /\ Len(q) \in Nat /\ \A i \in 1 .. Len(q) : Append(q, x)[i] = q[i]
    OBVIOUS
  <2>2. QED
    BY <1>8, <2>1
<1>10. \A t \in DOMAIN segs : /\ Len(segs[t]) \in Nat /\ Len(segs[t]) <= Len(segs'[t])
                              /\ \A i \in 1 .. Len(segs[t]) : segs'[t][i] = segs[t][i]
  <2>1. \A t \in DOMAIN segs : Len(segs[t]) \in Nat
    BY <1>2, <1>4
  <2>2. ASSUME NEW t \in DOMAIN segs
        PROVE  Len(segs[t]) <= Len(segs'[t]) /\ \A i \in 1 .. Len(segs[t]) : segs'[t][i] = segs[t][i]
    <3>1. CASE t = w.seg
      <4>1. segs[t] = R[w.seg] /\ segs'[t] = segs'[w.seg]
        BY <1>4, <3>1
      <4>2. QED
        BY <1>9, <4>1
    <3>2. CASE t # w.seg
      BY <1>7, <2>1, <3>2
    <3>3. QED
      BY <3>1, <3>2
  <2>3. QED
    BY <2>1, <2>2
<1>11. \A i \in 1 .. Len(entries) : entries[i] \in Position /\ entries[i].seg \in Nat /\ entries[i].off \in Nat
  <2>1. \A i \in 1 .. Len(entries) : entries[i] \in Position
    BY DEF TypeInv, TypeOK
  <2>2. QED
    BY <2>1 DEF Position
<1>12. \A i \in 1 .. Len(entries) :
          /\ entries[i].seg <= wrCur.seg
          /\ entries[i].seg \in DOMAIN segs => entries[i].off < Len(segs[entries[i].seg])
  BY <1>1 DEF DeliveryInv, IndexBehind, Indexes
<1>13. \A i \in 1 .. Len(entries) : entries[i].seg \in DOMAIN segs' => entries[i].seg \in DOMAIN segs
  BY <1>3, <1>5, <1>7, <1>11, <1>12
<1>14. Len(entries) \in Nat /\ Len(entries') = Len(entries) + 1 /\ entries'[Len(entries) + 1] = w
       /\ \A i \in 1 .. Len(entries) : entries'[i] = entries[i]
  BY <1>1, <1>2 DEF TypeInv, TypeOK
<1>15. \A i \in 1 .. Len(entries') : i = Len(entries) + 1 \/ i \in 1 .. Len(entries)
  BY <1>14
<1>16. NoneAhead'
  BY <1>1 DEF NoneAhead
<1>17. Writable'
  <2>1. wrCur'.seg \in DOMAIN segs' /\ wrCur'.off <= Len(segs'[wrCur'.seg])
    BY <1>5, <1>6, <1>7, <1>9
  <2>2. QED
    BY <2>1 DEF Writable
<1>18. ASSUME NEW i \in 1 .. Len(entries')
       PROVE  Indexes(entries[i])'
  <2>1. CASE i = Len(entries) + 1
    BY <1>5, <1>6, <1>9, <1>14, <2>1 DEF Indexes
  <2>2. CASE i \in 1 .. Len(entries)
    <3>1. entries'[i] = entries[i] /\ entries[i].seg <= wrCur'.seg
      BY <1>3, <1>5, <1>6, <1>11, <1>12, <1>14, <2>2
    <3>2. ASSUME entries[i].seg \in DOMAIN segs'
          PROVE  entries[i].off < Len(segs'[entries[i].seg])
      <4>1. entries[i].seg \in DOMAIN segs /\ entries[i].off < Len(segs[entries[i].seg])
        BY <1>12, <1>13, <2>2, <3>2
      <4>2. PICK t \in DOMAIN segs : t = entries[i].seg
        BY <4>1
      <4>3. Len(segs[t]) \in Nat /\ Len(segs'[t]) \in Nat /\ Len(segs[t]) <= Len(segs'[t])
        BY <1>7, <1>9, <1>10
      <4>4. QED
        BY <1>11, <2>2, <4>1, <4>2, <4>3
    <3>3. QED
      BY <3>1, <3>2 DEF Indexes
  <2>3. QED
    BY <1>15, <2>1, <2>2
<1>19. IndexBehind'
  BY <1>18 DEF IndexBehind
<1>20. ASSUME NEW i \in 1 .. nextIdx, OnDisk(entries[i])'
       PROVE  PacketAt(entries[i])' \in delivered
  <2>1. i \in 1 .. Len(entries)
    BY DEF TypeInv, TypeOK, Counts
  <2>2. entries'[i] = entries[i] /\ entries[i].seg \in DOMAIN segs
    BY <1>13, <1>14, <1>20, <2>1 DEF OnDisk
  <2>3. entries[i].off < Len(segs[entries[i].seg]) /\ entries[i].off \in Nat
    BY <1>11, <1>12, <2>1, <2>2
  <2>4. PacketAt(entries[i]) \in delivered
    BY <1>1, <2>2, <2>3 DEF DeliveryInv, HandedOut, OnDisk
  <2>5. segs'[entries[i].seg][entries[i].off + 1] = segs[entries[i].seg][entries[i].off + 1]
    <3>1. PICK t \in DOMAIN segs : t = entries[i].seg
      BY <2>2
    <3>2. entries[i].off + 1 \in 1 .. Len(segs[t])
      BY <1>10, <2>3, <3>1
    <3>3. QED
      BY <1>10, <3>1, <3>2
  <2>6. QED
    BY <2>2, <2>4, <2>5 DEF PacketAt
<1>21. HandedOut'
  BY <1>1, <1>20 DEF HandedOut
<1>22. AckedWereDelivered'
  BY <1>1 DEF DeliveryInv, AckedWereDelivered
<1>23. QED
  BY <1>16, <1>17, <1>19, <1>21, <1>22 DEF DeliveryInv

\* Next adds to what was handed out what it reads now.
LEMMA DeliveryNext ==
    ASSUME TypeInv, DeliveryInv, NEW n \in 1 .. MaxBatch, NextBatch(n)
    PROVE  DeliveryInv'
<1>1. /\ mode = "open" /\ mode' = "open" /\ entries[nextIdx + 1].seg \in DOMAIN segs
      /\ UNCHANGED <<segs, entries, wrCur, acked>>
  BY DEF NextBatch, disk
<1>2. /\ nextIdx' \in nextIdx + 1 .. Len(entries)
      /\ files' = files \cup {entries[nextIdx + 1].seg}
      /\ delivered' = delivered \cup Packets(nextIdx + 1 .. nextIdx')
  BY NextBatchFacts
<1>3. nextIdx \in Nat /\ Len(entries) \in Nat
  BY DEF TypeInv, TypeOK
<1>4. NoneAhead' /\ IndexBehind' /\ AckedWereDelivered'
  BY <1>1, <1>2 DEF DeliveryInv, NoneAhead, IndexBehind, Indexes, AckedWereDelivered
<1>5. Writable'
  BY <1>1, <1>2 DEF DeliveryInv, Writable
<1>6. ASSUME NEW i \in 1 .. nextIdx', OnDisk(entries[i])
      PROVE  PacketAt(entries[i]) \in delivered'
  <2>1. CASE i \in 1 .. nextIdx
    BY <1>1, <1>2, <1>6, <2>1 DEF DeliveryInv, HandedOut
  <2>2. CASE i \in nextIdx + 1 .. nextIdx'
    BY <1>2, <1>6, <2>2 DEF Packets
  <2>3. QED
    BY <1>2, <1>3, <2>1, <2>2
<1>7. HandedOut'
  BY <1>1, <1>6 DEF HandedOut, OnDisk, PacketAt
<1>8. QED
  BY <1>4, <1>5, <1>7 DEF DeliveryInv

\* A dropped segment takes its records along and is not written any more.
LEMMA Dropped ==
    ASSUME TypeInv, DeliveryInv, mode = "open", mode' = "open", wrCur' = wrCur, NEW drop,
           segs' = Without(segs, drop), files' = files \ drop
    PROVE  /\ NoneAhead' /\ Writable'
           /\ \A t \in DOMAIN segs' : t \in DOMAIN segs /\ segs'[t] = segs[t]
<1>1. \A t : t \in DOMAIN segs' <=> t \in DOMAIN segs /\ t \notin drop
  BY DEF Without
<1>2. \A t \in DOMAIN segs' : segs'[t] = segs[t]
  BY DEF Without
<1>3. NoneAhead'
  BY DEF NoneAhead
<1>4. Writable'
  BY <1>1, <1>2 DEF DeliveryInv, Writable
<1>5. QED
  BY <1>1, <1>2, <1>3, <1>4

\* What AckN confirms was in flight, hence handed out.
LEMMA DeliveryAck ==
    ASSUME TypeInv, DeliveryInv, NEW n \in 1 .. MaxBatch, NEW saveFails \in BOOLEAN, AckN(n, saveFails)
    PROVE  DeliveryInv'
<1> DEFINE k == AckCount(n)
<1>1. /\ k \in 1 .. nextIdx /\ k \in 1 .. Len(entries)
      /\ entries' \in Seq(Position) /\ Len(entries') = Len(entries) - k
      /\ \A i \in 1 .. Len(entries') : entries'[i] = entries[i + k]
      /\ nextIdx' = nextIdx - k
      /\ acked' = acked \cup Packets(1 .. k)
  BY AckFacts
<1>2. /\ \E drop : segs' = Without(segs, drop) /\ files' = files \ drop
      /\ mode = "open" /\ mode' = "open" /\ UNCHANGED <<wrCur, delivered>>
  BY DEF AckN, DropSegments
<1> HIDE DEF k
<1>3. PICK drop : segs' = Without(segs, drop) /\ files' = files \ drop
  BY <1>2
<1>4. /\ NoneAhead' /\ Writable'
      /\ \A t \in DOMAIN segs' : t \in DOMAIN segs /\ segs'[t] = segs[t]
  BY <1>2, <1>3, Dropped
<1>5. nextIdx \in Nat /\ Len(entries) \in Nat /\ nextIdx <= Len(entries)
  BY DEF TypeInv, TypeOK, Counts
<1>6. \A i \in 1 .. Len(entries') : i + k \in 1 .. Len(entries)
  BY <1>1, <1>5
<1>7. IndexBehind'
  <2>1. \A i \in 1 .. Len(entries) : Indexes(entries[i])
    BY <1>2 DEF DeliveryInv, IndexBehind
  <2>2. ASSUME NEW i \in 1 .. Len(entries')
        PROVE  Indexes(entries[i])'
    <3>1. Indexes(entries[i + k]) /\ entries'[i] = entries[i + k]
      BY <1>1, <1>6, <2>1
    <3>2. QED
      BY <1>2, <1>4, <3>1 DEF Indexes
  <2>3. QED
    BY <2>2 DEF IndexBehind
<1>8. HandedOut'
  <2>1. ASSUME NEW i \in 1 .. nextIdx', OnDisk(entries[i])'
        PROVE  PacketAt(entries[i])' \in delivered'
    <3>1. i \in 1 .. Len(entries') /\ i + k \in 1 .. nextIdx
      BY <1>1, <1>5
    <3>2. entries'[i] = entries[i + k]
      BY <1>1, <3>1
    <3>3. OnDisk(entries[i + k]) /\ PacketAt(entries[i])' = PacketAt(entries[i + k])
      BY <1>4, <2>1, <3>2 DEF OnDisk, PacketAt
    <3>4. QED
      BY <1>2, <3>1, <3>3 DEF DeliveryInv, HandedOut
  <2>2. QED
    BY <2>1 DEF HandedOut
<1>9. AckedWereDelivered'
  <2>1. \A i \in 1 .. k : i \in 1 .. nextIdx
    BY <1>1, <1>5
  <2>2. Packets(1 .. k) \subseteq delivered
    BY <1>2, <2>1 DEF DeliveryInv, HandedOut, Packets
  <2>3. QED
    BY <1>1, <1>2, <2>2 DEF DeliveryInv, AckedWereDelivered
<1>10. QED
  BY <1>4, <1>7, <1>8, <1>9 DEF DeliveryInv

\* Retention drops segments and leaves the index alone.
LEMMA DeliveryEnforce ==
    ASSUME TypeInv, DeliveryInv, EnforceRetention
    PROVE  DeliveryInv'
<1>1. /\ \E drop : segs' = Without(segs, drop) /\ files' = files \ drop
      /\ mode = "open" /\ mode' = "open" /\ UNCHANGED <<entries, nextIdx, wrCur, delivered, acked>>
  BY DEF EnforceRetention, DropSegments, history
<1>2. PICK drop : segs' = Without(segs, drop) /\ files' = files \ drop
  BY <1>1
<1>3. /\ NoneAhead' /\ Writable'
      /\ \A t \in DOMAIN segs' : t \in DOMAIN segs /\ segs'[t] = segs[t]
  BY <1>1, <1>2, Dropped
<1>4. IndexBehind'
  BY <1>1, <1>3 DEF DeliveryInv, IndexBehind, Indexes
<1>5. HandedOut'
  BY <1>1, <1>3 DEF DeliveryInv, HandedOut, OnDisk, PacketAt
<1>6. QED
  BY <1>1, <1>3, <1>4, <1>5 DEF DeliveryInv, AckedWereDelivered

\* Steps that change neither the files nor the index, and those that end the queue.
LEMMA DeliveryQuiet ==
    ASSUME TypeInv, DeliveryInv,
           \/ AppendFull \/ AppendFails \/ Requeue \/ SetRetention
           \/ OpenFails \/ Close \/ Crash \/ PowerLoss
    PROVE  DeliveryInv'
<1>1. UNCHANGED <<delivered, acked>>
  BY DEF AppendFull, AppendFails, Requeue, SetRetention, EnableRetention, OpenFails, Close, Crash,
         PowerLoss, history
<1>2. AckedWereDelivered'
  BY <1>1 DEF DeliveryInv, AckedWereDelivered
<1>3. CASE AppendFull \/ AppendFails \/ Requeue \/ SetRetention
  <2>1. UNCHANGED <<segs, mode, entries, wrCur, files>> /\ nextIdx' \in {nextIdx, 0} /\ mode = "open"
    BY <1>3 DEF AppendFull, AppendFails, Requeue, SetRetention, EnableRetention, disk
  <2>2. NoneAhead' /\ Writable' /\ IndexBehind'
    BY <2>1 DEF DeliveryInv, NoneAhead, Writable, IndexBehind, Indexes
  <2>3. nextIdx' = nextIdx \/ \A i \in 1 .. nextIdx' : FALSE
    BY <2>1
  <2>4. HandedOut'
    BY <1>1, <2>1, <2>3 DEF DeliveryInv, HandedOut, OnDisk, PacketAt
  <2>5. QED
    BY <1>2, <2>2, <2>4 DEF DeliveryInv
<1>4. CASE OpenFails \/ Close \/ Crash \/ PowerLoss
  <2>1. mode' = "down"
    BY <1>4 DEF OpenFails, Close, Crash, PowerLoss, Discard
  <2>2. QED
    BY <1>2, <2>1 DEF DeliveryInv, NoneAhead, Writable, IndexBehind, HandedOut
<1>5. QED
  BY <1>3, <1>4

\* Every step keeps the delivery invariant.
LEMMA DeliveryStep == TypeInv /\ DeliveryInv /\ [Next]_vars => DeliveryInv'
<1> SUFFICES ASSUME TypeInv, DeliveryInv, [Next]_vars
             PROVE  DeliveryInv'
  OBVIOUS
<1>1. CASE Open \/ ScanSegment
  BY <1>1, DeliveryOpen, DeliveryScan DEF Open
<1>2. CASE AppendPacket
  BY <1>2, DeliveryAppend
<1>3. CASE Deliver \/ Acknowledge
  BY <1>3, DeliveryNext, DeliveryAck DEF Deliver, Acknowledge
<1>4. CASE EnforceRetention
  BY <1>4, DeliveryEnforce
<1>5. CASE \/ AppendFull \/ AppendFails \/ Requeue \/ SetRetention
           \/ OpenFails \/ Close \/ Crash \/ PowerLoss
  BY <1>5, DeliveryQuiet
<1>6. CASE UNCHANGED vars
  BY <1>6 DEF vars, disk, memory, history, DeliveryInv, NoneAhead, Writable, IndexBehind, Indexes,
              HandedOut, OnDisk, PacketAt, AckedWereDelivered
<1>7. QED
  BY <1>1, <1>2, <1>3, <1>4, <1>5, <1>6 DEF Next

\* Whatever n AckN is given, whatever retention drops and whatever faults come between,
\* only packets that Next handed out are ever confirmed.
THEOREM AckedSafe == Spec => []AckedWereDelivered
<1>1. Init => DeliveryInv
  BY DEF Init, DeliveryInv, NoneAhead, Writable, IndexBehind, HandedOut, AckedWereDelivered
<1>2. DeliveryInv => AckedWereDelivered
  BY DEF DeliveryInv
<1>3. QED
  BY TypeInit, TypeStep, <1>1, <1>2, DeliveryStep, PTL DEF Spec

(***************************************************************************)
(* The archive keeps the promise of DurableFifo.  Since nothing is deleted *)
(* the files hold packets 1..accepted, each once: segment s holds those    *)
(* from base[s] + 1 to base[s + 1].  So a position has a number, that of   *)
(* the packets before it, and the invariant says which numbers the cursor, *)
(* the scan and the index have.                                            *)
(***************************************************************************)
\* Nothing is deleted, and only processes die.
Archived == Retentions = {KeepAll} /\ Faults \subseteq {"crash"}

\* n segments divide the packets 1..a; behind them there may be half a record.
Divides(base, n, a) ==
    /\ n \in Nat \ {0} /\ base \in [Nat -> Nat]
    /\ \A s, t \in 1 .. n + 1 : s <= t => base[s] <= base[t]
    /\ base[n] <= a /\ a <= base[n + 1] /\ base[n + 1] <= a + 1
    /\ \A q \in 1 .. a : \E s \in 1 .. n : base[s] < q /\ q <= base[s + 1]

\* File f has the records behind packet l up to h, of which a is the last complete one.
Records(f, l, h, a) ==
    /\ l + Len(f) = h
    /\ \A i \in 1 .. Len(f) : f[i] = IF l + i <= a THEN l + i ELSE Torn

\* The files D hold packets 1..a.
Laid(D, base, n, a) ==
    /\ Divides(base, n, a) /\ DOMAIN D = 1 .. n
    /\ \A s \in 1 .. n : Records(D[s], base[s], base[s + 1], a)

\* The files as Open finds them: an empty first one when there is none.
Stored == IF DOMAIN segs = {} THEN [s \in {1} |-> << >>] ELSE segs

\* Position p, in one of n segments, has q packets before it.
Behind(p, n, base, q) ==
    /\ p.seg \in 1 .. n /\ base[p.seg] + p.off = q /\ q <= base[p.seg + 1]

\* b packets lie before the cursor, m are confirmed.
Archive(n, base, b, m) ==
    /\ b \in Nat /\ m \in Nat
    /\ Laid(Stored, base, n, accepted)
    /\ Behind(LoadedCursor, n, base, b)
    /\ acked = 1 .. m /\ m <= accepted /\ m < b + CursorSyncEvery /\ b + ackSinceCS <= m
    /\ \A k \in 1 .. Len(entries) : Behind(entries[k], n, base, b + ackSinceCS + k - 1)
    /\ mode # "open" => ackSinceCS = 0 /\ nextIdx = 0
    /\ mode = "down" => entries = << >>
    /\ mode = "scanning" => Behind(scanPos, n, base, b + Len(entries)) /\ b + Len(entries) <= accepted
    /\ mode = "open" => b + ackSinceCS + Len(entries) = accepted

ArchiveInv == \E n, base, b, m : Archive(n, base, b, m)

(***************************************************************************)
(* The files.                                                              *)
(***************************************************************************)
\* A new empty segment divides nothing.
LEMMA DividesRoll ==
    ASSUME NEW base, NEW n, NEW a \in Nat, Divides(base, n, a), base[n + 1] = a
    PROVE  Divides([base EXCEPT ![n + 2] = a], n + 1, a)
<1> DEFINE bb == [base EXCEPT ![n + 2] = a]
<1>1. /\ n \in Nat \ {0} /\ base \in [Nat -> Nat]
      /\ \A s, t \in 1 .. n + 1 : s <= t => base[s] <= base[t]
      /\ \A q \in 1 .. a : \E s \in 1 .. n : base[s] < q /\ q <= base[s + 1]
  BY DEF Divides
<1>2. /\ bb \in [Nat -> Nat] /\ bb[n + 2] = a
      /\ \A s \in 1 .. n + 1 : bb[s] = base[s] /\ base[s] \in Nat
  BY <1>1
<1> HIDE DEF bb
<1>3. ASSUME NEW s \in 1 .. n + 1 + 1, NEW t \in 1 .. n + 1 + 1, s <= t
      PROVE  bb[s] <= bb[t]
  <2>1. CASE t = n + 2 /\ s = n + 2
    BY <1>2, <2>1
  <2>2. CASE t = n + 2 /\ s # n + 2
    <3>1. s \in 1 .. n + 1 /\ n + 1 \in 1 .. n + 1 /\ s <= n + 1
      BY <1>1, <2>2
    <3>2. base[s] <= base[n + 1]
      BY <1>1, <3>1
    <3>3. QED
      BY <1>2, <2>2, <3>1, <3>2
  <2>3. CASE t # n + 2
    <3>1. s \in 1 .. n + 1 /\ t \in 1 .. n + 1
      BY <1>1, <1>3, <2>3
    <3>2. QED
      BY <1>1, <1>2, <1>3, <3>1
  <2>4. QED
    BY <2>1, <2>2, <2>3
<1>4. ASSUME NEW q \in 1 .. a
      PROVE  \E s \in 1 .. n + 1 : bb[s] < q /\ q <= bb[s + 1]
  <2>1. PICK s \in 1 .. n : base[s] < q /\ q <= base[s + 1]
    BY <1>1
  <2>2. s \in 1 .. n + 1 /\ s + 1 \in 1 .. n + 1
    BY <1>1
  <2>3. QED
    BY <1>2, <2>1, <2>2
<1>5. n + 1 \in Nat \ {0} /\ n + 1 + 1 = n + 2 /\ n + 1 \in 1 .. n + 1
  BY <1>1
<1>6. bb[n + 1] = a /\ bb[n + 1 + 1] = a
  BY <1>2, <1>5
<1>7. QED
  BY <1>2, <1>3, <1>4, <1>5, <1>6 DEF Divides, bb

\* A record more in the last segment, complete or not, or the incomplete one removed.
LEMMA DividesEnd ==
    ASSUME NEW base, NEW n, NEW a \in Nat, Divides(base, n, a),
           NEW x \in {a, a + 1}, NEW h \in {x, x + 1}, x = a \/ base[n + 1] = a
    PROVE  Divides([base EXCEPT ![n + 1] = h], n, x)
<1> DEFINE bb == [base EXCEPT ![n + 1] = h]
<1>1. /\ n \in Nat \ {0} /\ base \in [Nat -> Nat]
      /\ \A s, t \in 1 .. n + 1 : s <= t => base[s] <= base[t]
      /\ base[n] <= a /\ a <= base[n + 1]
      /\ \A q \in 1 .. a : \E s \in 1 .. n : base[s] < q /\ q <= base[s + 1]
  BY DEF Divides
<1>2. x \in Nat /\ h \in Nat /\ a <= x /\ x <= h /\ h <= x + 1
  OBVIOUS
<1>3. /\ bb \in [Nat -> Nat] /\ bb[n + 1] = h
      /\ \A s \in 1 .. n : bb[s] = base[s] /\ base[s] \in Nat
      /\ n \in 1 .. n /\ \A s \in 1 .. n : s \in 1 .. n + 1
  BY <1>1, <1>2
<1> HIDE DEF bb
<1>4. \A s \in 1 .. n : base[s] <= a
  <2>1. SUFFICES ASSUME NEW s \in 1 .. n PROVE base[s] <= a
    OBVIOUS
  <2>2. base[s] <= base[n]
    BY <1>1, <1>3
  <2>3. QED
    BY <1>1, <1>3, <2>2
<1>5. ASSUME NEW s \in 1 .. n + 1, NEW t \in 1 .. n + 1, s <= t
      PROVE  bb[s] <= bb[t]
  <2>1. CASE t = n + 1 /\ s = n + 1
    BY <1>2, <1>3, <2>1
  <2>2. CASE t = n + 1 /\ s # n + 1
    <3>1. s \in 1 .. n
      BY <1>1, <2>2
    <3>2. bb[s] <= a /\ bb[s] \in Nat
      BY <1>3, <1>4, <3>1
    <3>3. bb[s] <= h
      BY <1>2, <3>2
    <3>4. QED
      BY <1>3, <2>2, <3>3
  <2>3. CASE t # n + 1
    <3>1. s \in 1 .. n /\ t \in 1 .. n
      BY <1>1, <1>5, <2>3
    <3>2. base[s] <= base[t]
      BY <1>1, <1>3, <1>5, <3>1
    <3>3. QED
      BY <1>3, <3>1, <3>2
  <2>4. QED
    BY <2>1, <2>2, <2>3
<1>6. ASSUME NEW q \in 1 .. x
      PROVE  \E s \in 1 .. n : bb[s] < q /\ q <= bb[s + 1]
  <2>1. CASE q \in 1 .. a
    <3>1. PICK s \in 1 .. n : base[s] < q /\ q <= base[s + 1]
      BY <1>1, <2>1
    <3>2. CASE s = n
      <4>1. bb[n + 1] = h /\ q <= h
        BY <1>2, <1>3, <2>1
      <4>2. QED
        BY <1>3, <3>1, <3>2, <4>1
    <3>3. CASE s # n
      <4>1. s + 1 \in 1 .. n
        BY <1>1, <3>3
      <4>2. QED
        BY <1>3, <3>1, <4>1
    <3>4. QED
      BY <3>2, <3>3
  <2>2. CASE q \notin 1 .. a
    <3>1. q = a + 1 /\ q <= h
      BY <1>2, <2>2
    <3>2. bb[n] <= a /\ bb[n] \in Nat
      BY <1>3, <1>4
    <3>3. bb[n] < q
      BY <3>1, <3>2
    <3>4. QED
      BY <1>3, <3>1, <3>3
  <2>3. QED
    BY <2>1, <2>2
<1>7. bb[n] <= x
  <2>1. bb[n] <= a /\ bb[n] \in Nat
    BY <1>3, <1>4
  <2>2. QED
    BY <1>2, <2>1
<1>8. QED
  BY <1>1, <1>2, <1>3, <1>5, <1>6, <1>7 DEF Divides, bb

\* A file whose records are complete does not care how many others follow.
LEMMA RecordsOlder ==
    ASSUME NEW f, NEW l \in Nat, NEW h \in Nat, NEW a \in Nat, NEW x \in Nat,
           Len(f) \in Nat, Records(f, l, h, a), h <= a, a <= x
    PROVE  Records(f, l, h, x)
<1>1. l + Len(f) = h
  BY DEF Records
<1>2. ASSUME NEW i \in 1 .. Len(f)
      PROVE  f[i] = IF l + i <= x THEN l + i ELSE Torn
  <2>1. l + i <= h
    BY <1>1
  <2>2. l + i <= a /\ l + i <= x
    BY <2>1
  <2>3. QED
    BY <2>2 DEF Records
<1>3. QED
  BY <1>1, <1>2 DEF Records

\* One more record, or half of it.
LEMMA RecordsAppend ==
    ASSUME NEW f \in Seq(Nat), NEW l \in Nat, NEW a \in Nat, Records(f, l, a, a), NEW x \in {a, a + 1}
    PROVE  Records(Append(f, IF x = a THEN Torn ELSE a + 1), l, a + 1, x)
<1> DEFINE y == IF x = a THEN Torn ELSE a + 1
<1>1. PICK k \in Nat : k = Len(f)
  OBVIOUS
<1>2. l + k = a /\ \A i \in 1 .. k : f[i] = IF l + i <= a THEN l + i ELSE Torn
  BY <1>1 DEF Records
<1>3. y \in Nat
  BY DEF Torn
<1> HIDE DEF y
<1>4. /\ Len(Append(f, y)) = k + 1 /\ Append(f, y)[k + 1] = y
      /\ \A i \in 1 .. k : Append(f, y)[i] = f[i]
  BY <1>1, <1>3
<1>5. ASSUME NEW i \in 1 .. k + 1
      PROVE  Append(f, y)[i] = IF l + i <= x THEN l + i ELSE Torn
  <2>1. CASE i = k + 1
    BY <1>2, <1>4, <2>1 DEF y
  <2>2. CASE i # k + 1
    <3>1. i \in 1 .. k
      BY <2>2
    <3>2. l + i <= a /\ l + i <= x
      BY <1>2, <3>1
    <3>3. QED
      BY <1>2, <1>4, <3>1, <3>2
  <2>3. QED
    BY <2>1, <2>2
<1>6. l + (k + 1) = a + 1
  BY <1>2
<1>7. QED
  BY <1>4, <1>5, <1>6 DEF Records, y

\* The complete records of a file.
LEMMA RecordsCut ==
    ASSUME NEW f \in Seq(Nat), NEW l \in Nat, NEW h \in Nat, NEW a \in Nat, Records(f, l, h, a), a <= h,
           NEW k \in Nat, l + k = a
    PROVE  Records(SubSeq(f, 1, k), l, a, a)
<1>1. PICK w \in Nat : w = Len(f)
  OBVIOUS
<1>2. l + w = h /\ \A i \in 1 .. w : f[i] = IF l + i <= a THEN l + i ELSE Torn
  BY <1>1 DEF Records
<1>3. k <= w
  BY <1>2
<1>4. Len(SubSeq(f, 1, k)) = k /\ \A i \in 1 .. k : SubSeq(f, 1, k)[i] = f[i]
  BY <1>1, <1>3
<1>5. QED
  BY <1>2, <1>3, <1>4 DEF Records

\* The numbers of the segments.
LEMMA DividesFacts ==
    ASSUME NEW base, NEW n, NEW a \in Nat, Divides(base, n, a)
    PROVE  /\ n \in Nat \ {0} /\ n \in 1 .. n
           /\ base \in [Nat -> Nat]
           /\ \A s \in 1 .. n + 1 : base[s] \in Nat
           /\ \A s \in 1 .. n : /\ base[s] \in Nat /\ base[s + 1] \in Nat
                                /\ s \in 1 .. n + 1 /\ s + 1 \in 1 .. n + 1
                                /\ base[s] <= base[s + 1] /\ (s # n => base[s + 1] <= a)
                                /\ base[s] <= a
<1>1. /\ n \in Nat \ {0} /\ n \in 1 .. n
      /\ base \in [Nat -> Nat]
      /\ \A s, t \in 1 .. n + 1 : s <= t => base[s] <= base[t]
      /\ base[n] <= a
  BY DEF Divides
<1>2. \A s \in 1 .. n + 1 : base[s] \in Nat
  BY <1>1
<1>3. ASSUME NEW s \in 1 .. n
      PROVE  /\ base[s] \in Nat /\ base[s + 1] \in Nat
             /\ s \in 1 .. n + 1 /\ s + 1 \in 1 .. n + 1
             /\ base[s] <= base[s + 1] /\ (s # n => base[s + 1] <= a)
             /\ base[s] <= a
  <2>1. s \in 1 .. n + 1 /\ s + 1 \in 1 .. n + 1 /\ n \in 1 .. n + 1 /\ s <= n
    BY <1>1
  <2>2. base[s] <= base[s + 1]
    BY <1>1, <2>1
  <2>3. base[s] <= base[n]
    BY <1>1, <2>1
  <2>4. s # n => base[s + 1] <= base[n]
    <3>1. s # n => s + 1 <= n
      BY <1>1
    <3>2. QED
      BY <1>1, <2>1, <3>1
  <2>5. base[s] \in Nat /\ base[s + 1] \in Nat /\ base[n] \in Nat
    BY <1>2, <2>1
  <2>6. base[s] <= a /\ (s # n => base[s + 1] <= a)
    <3>1. base[n] <= a
      BY <1>1
    <3>2. QED
      BY <2>3, <2>4, <2>5, <3>1
  <2>7. QED
    BY <2>1, <2>2, <2>5, <2>6
<1>4. QED
  BY <1>1, <1>2, <1>3

\* A new empty segment behind complete ones.
LEMMA LaidRoll ==
    ASSUME NEW D, NEW E, NEW base, NEW n, NEW a \in Nat, Laid(D, base, n, a), base[n + 1] = a,
           DOMAIN E = 1 .. n + 1, \A s \in 1 .. n : E[s] = D[s], E[n + 1] = << >>
    PROVE  Laid(E, [base EXCEPT ![n + 2] = a], n + 1, a)
<1> DEFINE bb == [base EXCEPT ![n + 2] = a]
<1>1. Divides(base, n, a) /\ a \in Nat
  BY Zenon DEF Laid
<1>2. Divides(bb, n + 1, a)
  BY <1>1, DividesRoll
<1>3. /\ n \in Nat \ {0} /\ base \in [Nat -> Nat] /\ \A s \in 1 .. n + 1 : base[s] \in Nat
      /\ \A s \in 1 .. n : s \in 1 .. n + 1 /\ s + 1 \in 1 .. n + 1
  BY ONLY <1>1, DividesFacts
<1>4. bb[n + 2] = a /\ \A s \in 1 .. n + 1 : bb[s] = base[s]
  BY <1>3
<1> HIDE DEF bb
<1>5. ASSUME NEW s \in 1 .. n + 1
      PROVE  Records(E[s], bb[s], bb[s + 1], a)
  <2>1. CASE s \in 1 .. n
    <3>1. bb[s] = base[s] /\ bb[s + 1] = base[s + 1] /\ E[s] = D[s]
      BY <1>3, <1>4, <2>1
    <3>2. Records(D[s], base[s], base[s + 1], a)
      BY <2>1, Zenon DEF Laid
    <3>3. QED
      BY <3>1, <3>2
  <2>2. CASE s = n + 1
    <3>1. s + 1 = n + 2 /\ s \in 1 .. n + 1
      BY ONLY <1>3, <2>2
    <3>2. bb[s] = a /\ bb[s + 1] = a /\ E[s] = << >>
      BY <1>4, <2>2, <3>1, Zenon
    <3>3. Records(<< >>, a, a, a)
      BY DEF Records
    <3>4. QED
      BY <3>2, <3>3
  <2>3. QED
    BY <1>3, <2>1, <2>2
<1>6. QED
  BY <1>2, <1>5 DEF Laid, bb

\* The last file replaced by one with the records up to h.
LEMMA LaidEnd ==
    ASSUME NEW D, NEW E, NEW base, NEW n, NEW a \in Nat, Laid(D, base, n, a),
           NEW x \in Nat, a <= x, x <= a + 1, NEW h \in Nat, x <= h, h <= x + 1,
           x = a \/ base[n + 1] = a,
           \A s \in 1 .. n : Len(D[s]) \in Nat,
           DOMAIN E = 1 .. n, \A s \in 1 .. n : s # n => E[s] = D[s], Records(E[n], base[n], h, x)
    PROVE  Laid(E, [base EXCEPT ![n + 1] = h], n, x)
<1> DEFINE bb == [base EXCEPT ![n + 1] = h]
<1>1. Divides(base, n, a) /\ a \in Nat
  BY Zenon DEF Laid
<1>2. Divides(bb, n, x)
  <2>1. x \in {a, a + 1} /\ h \in {x, x + 1}
    OBVIOUS
  <2>2. QED
    BY <1>1, <2>1, DividesEnd
<1>3. /\ n \in Nat \ {0} /\ base \in [Nat -> Nat]
      /\ \A s \in 1 .. n : /\ base[s] \in Nat /\ base[s + 1] \in Nat
                           /\ (s # n => base[s + 1] <= a)
  BY ONLY <1>1, DividesFacts
<1>4. x \in Nat /\ a <= x
  OBVIOUS
<1>5. bb[n + 1] = h /\ \A s \in 1 .. n : bb[s] = base[s]
  BY <1>3
<1> HIDE DEF bb
<1>6. ASSUME NEW s \in 1 .. n
      PROVE  Records(E[s], bb[s], bb[s + 1], x)
  <2>1. CASE s = n
    BY <1>5, <2>1
  <2>2. CASE s # n
    <3>1. s + 1 \in 1 .. n
      BY <1>3, <2>2
    <3>2. bb[s] = base[s] /\ bb[s + 1] = base[s + 1]
      BY <1>5, <3>1
    <3>3. Records(D[s], base[s], base[s + 1], a)
      BY DEF Laid
    <3>4. Records(D[s], base[s], base[s + 1], x)
      BY <1>3, <1>4, <2>2, <3>3, RecordsOlder
    <3>5. QED
      BY <2>2, <3>2, <3>4
  <2>3. QED
    BY <2>1, <2>2
<1>7. QED
  BY <1>2, <1>6 DEF Laid, bb

(***************************************************************************)
(* Which packets the queue holds.                                          *)
(***************************************************************************)
\* The types and numbers that every step uses.
LEMMA ArchiveFacts ==
    ASSUME TypeInv, NEW n, NEW base, NEW b, NEW m, Archive(n, base, b, m)
    PROVE  /\ b \in Nat /\ m \in Nat /\ accepted \in Nat /\ ackSinceCS \in Nat /\ b + ackSinceCS \in Nat
           /\ b + ackSinceCS <= m /\ m <= accepted
           /\ n \in Nat \ {0} /\ n \in 1 .. n /\ base \in [Nat -> Nat]
           /\ DOMAIN Stored = 1 .. n /\ Divides(base, n, accepted)
           /\ DOMAIN segs # {} => Stored = segs
           /\ \A s \in 1 .. n : Stored[s] \in Seq(Nat) /\ Len(Stored[s]) \in Nat
                                /\ Records(Stored[s], base[s], base[s + 1], accepted)
<1>1. /\ b \in Nat /\ m \in Nat /\ b + ackSinceCS <= m /\ m <= accepted /\ Laid(Stored, base, n, accepted)
  BY DEF Archive
<1>2. accepted \in Nat /\ ackSinceCS \in Nat
  BY DEF TypeInv, TypeOK
<1>3. Divides(base, n, accepted) /\ DOMAIN Stored = 1 .. n
      /\ \A s \in 1 .. n : Records(Stored[s], base[s], base[s + 1], accepted)
  BY ONLY <1>1, Zenon DEF Laid
<1>4. n \in Nat \ {0} /\ n \in 1 .. n /\ base \in [Nat -> Nat]
  BY ONLY <1>2, <1>3, DividesFacts
<1>5. DOMAIN segs # {} => Stored = segs
  BY DEF Stored
<1>6. ASSUME NEW s \in 1 .. n
      PROVE  Stored[s] \in Seq(Nat) /\ Len(Stored[s]) \in Nat
  <2>1. CASE DOMAIN segs # {}
    <3>1. Stored = segs /\ s \in DOMAIN segs
      BY <1>3, <1>5, <2>1
    <3>2. QED
      BY <3>1, DiskFacts
  <2>2. CASE DOMAIN segs = {}
    <3>1. Stored = [t \in {1} |-> << >>]
      BY <2>2 DEF Stored
    <3>2. s = 1
      BY <1>3, <3>1
    <3>3. QED
      BY <3>1, <3>2
  <2>3. QED
    BY <2>1, <2>2
<1>7. b + ackSinceCS \in Nat
  BY <1>1, <1>2
<1>8. QED
  BY <1>1, <1>2, <1>3, <1>4, <1>5, <1>6, <1>7

\* The record at a number.
LEMMA RecordAt ==
    ASSUME NEW f, NEW l \in Nat, NEW h \in Nat, NEW a \in Nat, Len(f) \in Nat, Records(f, l, h, a),
           NEW i \in 1 .. Len(f)
    PROVE  /\ l + i <= h
           /\ f[i] # Torn => l + i <= a /\ f[i] = l + i
           /\ l + i <= a => f[i] = l + i /\ f[i] # Torn
<1>1. PICK w \in Nat : w = Len(f)
  OBVIOUS
<1>2. l + w = h /\ f[i] = IF l + i <= a THEN l + i ELSE Torn
  BY <1>1 DEF Records
<1>3. i \in Nat /\ i >= 1 /\ i <= w
  BY <1>1
<1>4. QED
  BY <1>2, <1>3 DEF Torn

\* The records of a file reach as far as its numbers.
LEMMA RecordOf ==
    ASSUME NEW f, NEW l \in Nat, NEW h \in Nat, NEW a \in Nat, Len(f) \in Nat, Records(f, l, h, a),
           NEW q \in Nat, l < q, q <= h
    PROVE  q - l \in 1 .. Len(f) /\ l + (q - l) = q
<1>1. PICK w \in Nat : w = Len(f)
  OBVIOUS
<1>2. l + w = h
  BY <1>1 DEF Records
<1>3. QED
  BY <1>1, <1>2

\* An entry of the index is the record with its number.
LEMMA EntryPacket ==
    ASSUME TypeInv, LossInv, NEW n, NEW base, NEW b, NEW m, Archive(n, base, b, m), mode # "down",
           NEW k \in 1 .. Len(entries)
    PROVE  OnDisk(entries[k]) /\ PacketAt(entries[k]) = b + ackSinceCS + k
           /\ b + ackSinceCS + k <= accepted
<1> DEFINE p == entries[k]
           h == b + ackSinceCS
<1>1. OnDisk(p) /\ p.seg \in DOMAIN segs /\ p.off < Len(segs[p.seg])
  BY DEF LossInv, IndexInv, OnDisk
<1>2. /\ p.seg \in Nat \ {0} /\ p.off \in Nat /\ k \in Nat
      /\ segs[p.seg] \in Seq(Nat) /\ Len(segs[p.seg]) \in Nat
  BY <1>1, DiskFacts
<1>3. base[p.seg] + p.off = h + k - 1
  BY DEF Archive, Behind
<1>4. /\ h \in Nat /\ accepted \in Nat
      /\ Stored = segs /\ p.seg \in 1 .. n /\ base \in [Nat -> Nat]
      /\ Records(segs[p.seg], base[p.seg], base[p.seg + 1], accepted)
  BY <1>1, ArchiveFacts
<1>5. base[p.seg] \in Nat /\ base[p.seg + 1] \in Nat
  <2>1. p.seg \in Nat /\ p.seg + 1 \in Nat
    BY <1>2
  <2>2. base \in [Nat -> Nat]
    BY <1>4
  <2>3. QED
    BY ONLY <2>1, <2>2
<1> HIDE DEF p, h
<1>6. p.off + 1 \in 1 .. Len(segs[p.seg]) /\ base[p.seg] + (p.off + 1) = h + k
  <2>1. PICK o \in Nat : o = p.off
    BY <1>2
  <2>2. PICK w \in Nat : w = Len(segs[p.seg])
    BY <1>2
  <2>3. PICK l \in Nat : l = base[p.seg]
    BY <1>5
  <2>4. o < w /\ l + o = h + k - 1 /\ h \in Nat /\ k \in Nat /\ o \in Nat /\ w \in Nat /\ l \in Nat
    BY <1>1, <1>2, <1>3, <1>4, <2>1, <2>2, <2>3
  <2>5. o + 1 \in 1 .. w /\ l + (o + 1) = h + k
    BY ONLY <2>4
  <2>6. QED
    BY <2>1, <2>2, <2>3, <2>5
<1>7. h + k <= accepted
  <2>1. CASE mode = "open"
    <3>1. h + Len(entries) = accepted
      BY <2>1 DEF Archive, h
    <3>2. QED
      BY <1>2, <1>4, <3>1
  <2>2. CASE mode = "scanning"
    <3>1. b + Len(entries) <= accepted /\ h = b /\ b \in Nat
      BY <2>2, ArchiveFacts DEF Archive, h
    <3>2. QED
      BY <1>2, <1>4, <3>1
  <2>3. QED
    BY <2>1, <2>2 DEF TypeInv, TypeOK
<1>8. segs[p.seg][p.off + 1] = h + k
  <2>1. PICK f : f = segs[p.seg]
    OBVIOUS
  <2>2. PICK l, g \in Nat : l = base[p.seg] /\ g = base[p.seg + 1]
    BY <1>5
  <2>3. PICK i \in 1 .. Len(f) : i = p.off + 1
    BY <1>6, <2>1
  <2>4. /\ Records(f, l, g, accepted) /\ Len(f) \in Nat /\ accepted \in Nat /\ l + i <= accepted
        /\ l \in Nat /\ g \in Nat /\ i \in 1 .. Len(f)
    BY <1>2, <1>4, <1>6, <1>7, <2>1, <2>2, <2>3
  <2>5. f[i] = l + i
    BY ONLY <2>4, RecordAt
  <2>6. QED
    BY <1>6, <2>1, <2>2, <2>3, <2>5
<1>9. QED
  BY <1>1, <1>7, <1>8 DEF PacketAt, p, h

\* An open queue holds exactly what follows its head.
LEMMA OpenHolds ==
    ASSUME TypeInv, LossInv, NEW n, NEW base, NEW b, NEW m, Archive(n, base, b, m), mode = "open"
    PROVE  Held = b + ackSinceCS + 1 .. accepted
<1>1. \A k \in 1 .. Len(entries) : OnDisk(entries[k]) /\ PacketAt(entries[k]) = b + ackSinceCS + k
      /\ b + ackSinceCS + k <= accepted
  BY EntryPacket
<1>2. b + ackSinceCS + Len(entries) = accepted
  BY DEF Archive
<1>3. PICK h \in Nat : h = b + ackSinceCS
  BY ArchiveFacts
<1>4. PICK e \in Nat : e = Len(entries)
  BY DiskFacts
<1>5. Held = {PacketAt(entries[i]) : i \in 1 .. e}
  <2>1. {j \in 1 .. e : OnDisk(entries[j])} = 1 .. e
    BY <1>1, <1>4
  <2>2. QED
    BY <1>4, <2>1 DEF Held, Packets
<1>6. accepted = h + e /\ \A k \in 1 .. e : PacketAt(entries[k]) = h + k
  BY <1>1, <1>2, <1>3, <1>4
<1>7. Held \subseteq h + 1 .. accepted
  BY ONLY <1>3, <1>4, <1>5, <1>6
<1>8. ASSUME NEW q \in h + 1 .. accepted
      PROVE  q \in Held
  <2>1. q - h \in 1 .. e /\ h + (q - h) = q
    BY ONLY <1>3, <1>4, <1>6, <1>8
  <2>2. QED
    BY <1>5, <1>6, <2>1
<1>9. QED
  BY <1>3, <1>7, <1>8

\* Opening would find exactly what follows the cursor.
LEMMA OpenFinds ==
    ASSUME TypeInv, LossInv, NEW n, NEW base, NEW b, NEW m, Archive(n, base, b, m),
           DOMAIN segs # {}
    PROVE  {PacketAt(p) : p \in Recoverable} = b + 1 .. accepted
<1> DEFINE c == LoadedCursor
           a == accepted
<1>1. /\ b \in Nat /\ a \in Nat /\ n \in Nat \ {0} /\ base \in [Nat -> Nat]
      /\ Stored = segs /\ DOMAIN segs = 1 .. n /\ Divides(base, n, a)
      /\ \A s \in 1 .. n : segs[s] \in Seq(Nat) /\ Len(segs[s]) \in Nat
                           /\ Records(segs[s], base[s], base[s + 1], a)
  BY ArchiveFacts
<1>2. c.seg \in Nat \ {0} /\ c.off \in Nat
  BY DiskFacts
<1>3. c.seg \in 1 .. n /\ base[c.seg] + c.off = b /\ b <= base[c.seg + 1]
  BY <1>1 DEF Archive, Behind
<1>4. PICK cs \in 1 .. n : cs = c.seg
  BY <1>3
<1>5. PICK co \in Nat : co = c.off
  BY <1>2
<1>6. cs \in Nat /\ base[cs] + co = b /\ b <= base[cs + 1]
  BY <1>3, <1>4, <1>5
<1>7. /\ \A s, t \in 1 .. n + 1 : s <= t => base[s] <= base[t]
      /\ \A q \in 1 .. a : \E s \in 1 .. n : base[s] < q /\ q <= base[s + 1]
  BY <1>1 DEF Divides
<1>8. \A s \in 1 .. n : /\ base[s] \in Nat /\ base[s + 1] \in Nat /\ s \in 1 .. n + 1 /\ s + 1 \in 1 .. n + 1
                        /\ (s # n => base[s + 1] <= a)
  BY ONLY <1>1, DividesFacts
<1>9. a \in Nat /\ b \in Nat /\ n \in Nat
  BY <1>1
<1> HIDE DEF c, a
<1>10. ASSUME NEW p \in Recoverable
       PROVE  PacketAt(p) \in b + 1 .. a
  <2>1. /\ p.seg \in DOMAIN segs /\ p.off \in 0 .. Len(segs[p.seg]) - 1
        /\ p.seg >= cs /\ (p.seg = cs => p.off >= co)
        /\ \A t \in cs .. p.seg : \A i \in 1 .. Len(segs[t]) :
             segs[t][i] = Torn => \/ t = cs /\ i <= co
                                  \/ t = p.seg /\ i > p.off + 1
    <3>1. PICK s \in DOMAIN segs : p \in [seg : {s}, off : 0 .. Len(segs[s]) - 1]
      BY <1>10 DEF Recoverable
    <3>2. p.seg = s /\ p.off \in 0 .. Len(segs[s]) - 1
      BY <3>1
    <3>3. QED
      BY <1>10, <1>4, <1>5, <3>1, <3>2 DEF Recoverable, c
  <2>2. PICK s \in 1 .. n : s = p.seg
    BY <1>1, <2>1
  <2>3. PICK o \in Nat : o = p.off
    BY <2>1
  <2>4. o + 1 \in 1 .. Len(segs[s]) /\ s >= cs /\ (s = cs => o >= co) /\ s \in cs .. p.seg
    <3>1. Len(segs[s]) \in Nat /\ o \in 0 .. Len(segs[s]) - 1
      BY <1>1, <2>1, <2>2, <2>3
    <3>2. QED
      BY <1>6, <2>1, <2>2, <2>3, <3>1
  <2>5. segs[s][o + 1] # Torn
    <3>1. ASSUME segs[s][o + 1] = Torn PROVE FALSE
      <4>1. (s = cs /\ o + 1 <= co) \/ o + 1 > o + 1
        BY <2>1, <2>2, <2>3, <2>4, <3>1
      <4>2. QED
        BY ONLY <1>5, <2>3, <2>4, <4>1
    <3>2. QED
      BY <3>1
  <2>6. /\ base[s] \in Nat /\ base[s + 1] \in Nat /\ Len(segs[s]) \in Nat
        /\ Records(segs[s], base[s], base[s + 1], a)
    BY <1>1, <1>8
  <2>7. PICK l, g \in Nat : l = base[s] /\ g = base[s + 1]
    BY <2>6
  <2>8. PICK f : f = segs[s]
    OBVIOUS
  <2>9. /\ Len(f) \in Nat /\ Records(f, l, g, a) /\ f[o + 1] # Torn
        /\ o + 1 \in 1 .. Len(f)
    BY <2>4, <2>5, <2>6, <2>7, <2>8
  <2>10. f[o + 1] = l + (o + 1) /\ l + (o + 1) <= a
    BY ONLY SMTT(20), <1>9, <2>7, <2>9, RecordAt
  <2>11. b < l + (o + 1)
    <3>1. CASE s = cs
      <4>1. l + co = b /\ co <= o
        BY <1>6, <1>5, <2>3, <2>4, <2>7, <3>1
      <4>2. QED
        BY ONLY <1>9, <1>5, <2>3, <2>7, <4>1
    <3>2. CASE s # cs
      <4>1. cs + 1 <= s /\ cs + 1 \in 1 .. n + 1 /\ s \in 1 .. n + 1
        BY <1>1, <1>2, <1>6, <2>4, <3>2
      <4>2. base[cs + 1] <= base[s]
        BY <1>7, <4>1
      <4>3. base[cs + 1] \in Nat
        BY <1>6, <1>8
      <4>4. PICK u \in Nat : u = base[cs + 1]
        BY <4>3
      <4>5. b <= u /\ u <= l
        BY <1>6, <2>7, <4>2, <4>4
      <4>6. QED
        BY ONLY <1>9, <2>3, <2>7, <4>4, <4>5
    <3>3. QED
      BY <3>1, <3>2
  <2>12. PacketAt(p) = l + (o + 1)
    BY <2>2, <2>3, <2>8, <2>10 DEF PacketAt
  <2>13. l + (o + 1) \in b + 1 .. a
    BY ONLY <1>9, <2>3, <2>7, <2>10, <2>11
  <2>14. QED
    BY <2>12, <2>13
<1>11. ASSUME NEW q \in b + 1 .. a
       PROVE  \E p \in Recoverable : PacketAt(p) = q
  <2>1. PICK s \in 1 .. n : base[s] < q /\ q <= base[s + 1]
    <3>1. q \in 1 .. a
      BY <1>1, <1>11
    <3>2. QED
      BY <1>7, <3>1
  <2>2. /\ base[s] \in Nat /\ base[s + 1] \in Nat /\ Len(segs[s]) \in Nat /\ q \in Nat /\ q <= a /\ b < q
        /\ Records(segs[s], base[s], base[s + 1], a)
    <3>1. q \in Nat /\ q <= a /\ b < q
      BY ONLY <1>9, <1>11
    <3>2. QED
      BY <1>1, <1>8, <3>1
  <2>3. PICK l, g \in Nat : l = base[s] /\ g = base[s + 1]
    BY <2>2
  <2>4. PICK f : f = segs[s]
    OBVIOUS
  <2>5. Len(f) \in Nat /\ Records(f, l, g, a) /\ l < q /\ q <= g
    BY <2>1, <2>2, <2>3, <2>4
  <2>6. q \in Nat /\ q <= a /\ b < q /\ l \in Nat /\ g \in Nat
    BY <2>2, <2>3
  <2>7. q - l \in 1 .. Len(f) /\ l + (q - l) = q
    BY ONLY <1>9, <2>5, <2>6, RecordOf
  <2>8. PICK i \in 1 .. Len(f) : l + i = q
    BY ONLY <2>7
  <2>9. f[i] = q
    BY ONLY SMTT(20), <1>9, <2>3, <2>5, <2>6, <2>8, RecordAt
  <2>10. i \in 1 .. Len(segs[s]) /\ base[s] + i = q
    BY <2>3, <2>4, <2>8
  <2>11. segs[s][i] = q
    BY <2>4, <2>9
  <2> DEFINE p == [seg |-> s, off |-> i - 1]
  <2>12. /\ p.seg = s /\ p.off = i - 1 /\ p.off + 1 = i /\ i \in Nat
         /\ s \in DOMAIN segs /\ p \in [seg : {s}, off : 0 .. Len(segs[s]) - 1]
    BY <1>1, <2>2, <2>10
  <2> HIDE DEF p
  <2>13. s >= cs
    <3>1. ASSUME ~(s >= cs) PROVE FALSE
      <4>1. s + 1 <= cs /\ s + 1 \in 1 .. n + 1 /\ cs \in 1 .. n + 1
        BY <1>1, <1>6, <3>1
      <4>2. base[s + 1] <= base[cs] /\ base[cs] \in Nat
        BY <1>6, <1>7, <1>8, <4>1
      <4>3. PICK u \in Nat : u = base[cs]
        BY <4>2
      <4>4. g <= u /\ u + co = b
        BY <1>6, <2>3, <4>2, <4>3
      <4>5. QED
        BY ONLY SMTT(20), <1>9, <1>5, <2>3, <2>5, <2>6, <4>3, <4>4
    <3>2. QED
      BY <3>1
  <2>14. s = cs => p.off >= co
    <3>1. s = cs => l + co = b
      BY <1>6, <2>3
    <3>2. s = cs => i - 1 >= co
      BY ONLY SMTT(20), <1>9, <1>5, <2>3, <2>5, <2>6, <2>8, <3>1
    <3>3. QED
      BY <2>12, <3>2
  <2>15. ASSUME NEW t \in cs .. s
         PROVE  /\ t \in DOMAIN segs
                /\ \A j \in 1 .. Len(segs[t]) : segs[t][j] = Torn =>
                      \/ t = cs /\ j <= co
                      \/ t = s /\ j > p.off + 1
    <3>1. t \in 1 .. n
      BY <1>1, <1>6, <2>15
    <3>2. ASSUME NEW j \in 1 .. Len(segs[t]), segs[t][j] = Torn
          PROVE  t = s /\ j > i
      <4>1. /\ base[t] \in Nat /\ base[t + 1] \in Nat /\ Len(segs[t]) \in Nat /\ j \in Nat
            /\ Records(segs[t], base[t], base[t + 1], a)
        BY <1>1, <1>8, <3>1
      <4>2. PICK v, u \in Nat : v = base[t] /\ u = base[t + 1]
        BY <4>1
      <4>3. PICK e : e = segs[t]
        OBVIOUS
      <4>4. Len(e) \in Nat /\ Records(e, v, u, a) /\ j \in 1 .. Len(e) /\ e[j] = Torn
        BY <3>2, <4>1, <4>2, <4>3
      <4>5. v + j <= u /\ ~(v + j <= a)
        BY ONLY SMTT(20), <1>9, <4>2, <4>4, RecordAt
      <4>6. t = n
        <5>1. ASSUME t # n PROVE FALSE
          <6>1. u <= a /\ j \in Nat
            BY <1>8, <3>1, <4>1, <4>2, <5>1
          <6>2. QED
            BY ONLY <1>9, <4>5, <4>2, <6>1
        <5>2. QED
          BY <5>1
      <4>7. t = s
        <5>1. t <= s
          BY <1>6, <2>15
        <5>2. QED
          BY <1>9, <4>6, <5>1
      <4>8. j > i
        <5>1. v = l /\ j \in Nat /\ i \in Nat
          BY <2>12, <2>3, <4>1, <4>7, <4>2
        <5>2. QED
          BY ONLY SMTT(20), <1>9, <2>3, <2>6, <2>8, <4>5, <5>1
      <4>9. QED
        BY <4>7, <4>8
    <3>3. QED
      BY <1>1, <2>12, <3>1, <3>2
  <2>16. p \in Recoverable
    BY <1>4, <1>5, <2>12, <2>13, <2>14, <2>15 DEF Recoverable, c
  <2>17. PacketAt(p) = q
    BY <2>11, <2>12 DEF PacketAt
  <2>18. QED
    BY <2>16, <2>17
<1>12. QED
  BY <1>10, <1>11 DEF a

\* The head of a FIFO that holds h + 1 .. a.
LEMMA HeadValue ==
    ASSUME NEW S, NEW a \in Nat, NEW h \in Nat, h <= a, S = h + 1 .. a
    PROVE  (IF S = {} THEN a ELSE Min(S) - 1) = h
<1>1. CASE h = a
  <2>1. S = {}
    BY <1>1
  <2>2. QED
    BY <1>1, <2>1
<1>2. CASE h # a
  <2>1. h + 1 \in S /\ \A y \in S : y \in Nat /\ h + 1 <= y
    BY <1>2
  <2>2. Min(S) \in S /\ \A y \in S : Min(S) <= y
    <3>1. \E x \in S : \A y \in S : x <= y
      BY <2>1
    <3>2. QED
      BY ONLY <3>1, Zenon DEF Min
  <2>3. Min(S) \in Nat /\ h + 1 <= Min(S) /\ Min(S) <= h + 1
    BY ONLY <2>1, <2>2
  <2>4. Min(S) - 1 = h
    BY ONLY <2>3, h \in Nat
  <2>5. QED
    BY <2>1, <2>4
<1>3. QED
  BY <1>1, <1>2

\* The last of the packets 1..m.
LEMMA LastValue ==
    ASSUME NEW S, NEW m \in Nat, S = 1 .. m
    PROVE  (IF S = {} THEN 0 ELSE Max(S)) = m
<1>1. CASE m = 0
  <2>1. S = {}
    BY <1>1
  <2>2. QED
    BY <1>1, <2>1
<1>2. CASE m # 0
  <2>1. m \in S /\ \A y \in S : y \in Nat /\ m >= y
    BY <1>2
  <2>2. Max(S) \in S /\ \A y \in S : Max(S) >= y
    <3>1. \E x \in S : \A y \in S : x >= y
      BY <2>1
    <3>2. QED
      BY ONLY <3>1, Zenon DEF Max
  <2>3. Max(S) = m
    <3>1. PICK x : x = Max(S)
      OBVIOUS
    <3>2. x \in Nat /\ m >= x /\ x >= m
      BY ONLY <2>1, <2>2, <3>1
    <3>3. QED
      BY <3>1, <3>2
  <2>4. QED
    BY <2>1, <2>3
<1>3. QED
  BY <1>1, <1>2

\* What head and confirmed of the FIFO are.
HeadKnown ==
    \A n, base, b, m : Archive(n, base, b, m) => HeadOf = b + ackSinceCS /\ LastConfirmed = m

\* The invariants determine them.
LEMMA HeadIs ==
    ASSUME TypeInv, LossInv
    PROVE  HeadKnown
<1>1. SUFFICES ASSUME NEW n, NEW base, NEW b, NEW m, Archive(n, base, b, m)
               PROVE  HeadOf = b + ackSinceCS /\ LastConfirmed = m
  BY DEF HeadKnown
<1>2. /\ b \in Nat /\ m \in Nat /\ accepted \in Nat /\ b + ackSinceCS \in Nat
      /\ b + ackSinceCS <= m /\ m <= accepted
  BY <1>1, ArchiveFacts
<1>3. PICK h \in Nat : h = b + ackSinceCS
  BY <1>2
<1>4. h <= accepted
  BY ONLY <1>2, <1>3
<1>5. Held = h + 1 .. accepted
  <2>1. CASE mode = "open"
    BY <1>1, <1>3, <2>1, OpenHolds
  <2>2. CASE mode # "open"
    <3>1. ackSinceCS = 0
      BY <1>1, <2>2 DEF Archive
    <3>2. h = b /\ Held = {PacketAt(p) : p \in Recoverable}
      BY ONLY <1>2, <1>3, <2>2, <3>1 DEF Held
    <3>3. CASE DOMAIN segs # {}
      BY <1>1, <3>2, <3>3, OpenFinds
    <3>4. CASE DOMAIN segs = {}
      <4>1. accepted = 0
        BY <2>2, <3>4 DEF LossInv, CursorInv
      <4>2. Recoverable = {}
        BY <3>4 DEF Recoverable
      <4>3. h + 1 .. accepted = {}
        BY ONLY <1>3, <4>1
      <4>4. QED
        BY <3>2, <4>2, <4>3
    <3>5. QED
      BY <3>3, <3>4
  <2>3. QED
    BY <2>1, <2>2
<1>6. HeadOf = h
  BY ONLY <1>2, <1>3, <1>4, <1>5, HeadValue DEF HeadOf
<1>7. LastConfirmed = m
  <2>1. acked = 1 .. m
    BY <1>1 DEF Archive
  <2>2. QED
    BY <1>2, <2>1, LastValue DEF LastConfirmed
<1>8. QED
  BY <1>3, <1>6, <1>7

(***************************************************************************)
(* Positions.                                                              *)
(***************************************************************************)
\* A position keeps its number when packets are added behind it.
LEMMA BehindKept ==
    ASSUME NEW n \in Nat \ {0}, NEW k \in Nat, n <= k, NEW p, NEW base, NEW bb, NEW q,
           Behind(p, n, base, q), \A s \in 1 .. n : bb[s] = base[s], q <= bb[n + 1]
    PROVE  Behind(p, k, bb, q)
<1>1. p.seg \in 1 .. n /\ base[p.seg] + p.off = q /\ q <= base[p.seg + 1]
  BY DEF Behind
<1>2. PICK s \in 1 .. n : s = p.seg
  BY <1>1
<1>3. s \in 1 .. k
  BY ONLY n \in Nat \ {0}, k \in Nat, n <= k, <1>2
<1>4. s = n \/ s + 1 \in 1 .. n
  BY ONLY n \in Nat \ {0}, <1>2
<1>5. q <= bb[s + 1]
  BY <1>1, <1>2, <1>4
<1>6. QED
  BY <1>1, <1>2, <1>3, <1>5 DEF Behind

\* In an open queue the last file ends with the last packet accepted.
LEMMA OpenFull ==
    ASSUME TypeInv, LossInv, NEW n, NEW base, NEW b, NEW m, Archive(n, base, b, m), mode = "open"
    PROVE  /\ Stored = segs /\ DOMAIN segs = 1 .. n /\ base[n + 1] = accepted
           /\ wrCur.seg = n /\ base[n] + wrCur.off = accepted
<1>1. /\ wrCur.seg \in DOMAIN segs /\ \A t \in DOMAIN segs : t <= wrCur.seg
      /\ wrCur.off = Len(segs[wrCur.seg])
      /\ \A s \in DOMAIN segs : \A i \in 1 .. Len(segs[s]) : segs[s][i] # Torn
  BY DEF LossInv, WriteInv, TornLast
<1>2. /\ accepted \in Nat /\ n \in Nat \ {0} /\ n \in 1 .. n /\ base \in [Nat -> Nat]
      /\ Stored = segs /\ DOMAIN segs = 1 .. n /\ Divides(base, n, accepted)
      /\ Len(segs[n]) \in Nat /\ Records(segs[n], base[n], base[n + 1], accepted)
  BY <1>1, ArchiveFacts
<1>3. wrCur.seg = n
  <2>1. PICK s \in 1 .. n : s = wrCur.seg
    BY <1>1, <1>2
  <2>2. n <= s
    BY <1>1, <1>2, <2>1
  <2>3. n \in Nat /\ s \in 1 .. n
    BY <1>2
  <2>4. s = n
    BY ONLY <2>2, <2>3
  <2>5. QED
    BY <2>1, <2>4
<1>4. base[n] <= accepted /\ accepted <= base[n + 1] /\ base[n + 1] <= accepted + 1
  BY <1>2, Zenon DEF Divides
<1>5. PICK l, g \in Nat : l = base[n] /\ g = base[n + 1]
  BY <1>2
<1>6. PICK w \in Nat : w = Len(segs[n])
  BY <1>2
<1>7. l + w = g /\ \A i \in 1 .. w : segs[n][i] = IF l + i <= accepted THEN l + i ELSE Torn
  BY <1>2, <1>5, <1>6 DEF Records
<1>8. \A i \in 1 .. w : l + i <= accepted
  BY <1>1, <1>2, <1>6, <1>7
<1>9. l <= accepted /\ accepted <= g /\ l \in Nat /\ g \in Nat /\ w \in Nat /\ accepted \in Nat
  BY <1>2, <1>4, <1>5, <1>6
<1>10. w = 0 \/ w \in 1 .. w
  BY ONLY <1>9
<1>11. w = 0 \/ l + w <= accepted
  BY ONLY <1>8, <1>10
<1>12. l + w = accepted /\ g = accepted
  BY ONLY <1>7, <1>9, <1>11
<1>13. QED
  BY <1>1, <1>2, <1>3, <1>5, <1>6, <1>12

\* The read position of an open queue after k confirmations.
LEMMA ReadsHead ==
    ASSUME TypeInv, LossInv, NEW n, NEW base, NEW b, NEW m, Archive(n, base, b, m), mode = "open",
           NEW k \in 0 .. Len(entries), NEW rest, Len(rest) = Len(entries) - k,
           rest # << >> => rest[1] = entries[k + 1], Len(rest) = 0 => rest = << >>
    PROVE  /\ Behind(ReadCur(rest, wrCur), n, base, b + ackSinceCS + k)
           /\ ReadCur(rest, wrCur).seg # 0
<1>1. PICK h \in Nat : h = b + ackSinceCS
  BY ArchiveFacts
<1>2. PICK e \in Nat : e = Len(entries)
  BY DiskFacts
<1>3. k \in Nat /\ k <= e /\ h + e = accepted
  BY <1>1, <1>2 DEF Archive
<1>4. /\ n \in 1 .. n /\ base[n + 1] = accepted /\ wrCur.seg = n /\ base[n] + wrCur.off = accepted
      /\ accepted \in Nat /\ n \in Nat \ {0}
  BY OpenFull, ArchiveFacts
<1>5. CASE rest = << >>
  <2>1. k = e /\ h + k = accepted
    <3>1. Len(rest) = 0
      BY <1>5
    <3>2. e - k = 0
      BY <1>2, <3>1
    <3>3. QED
      BY ONLY <1>1, <1>2, <1>3, <3>2
  <2>2. ReadCur(rest, wrCur) = wrCur
    BY <1>5 DEF ReadCur
  <2>3. Behind(wrCur, n, base, accepted)
    BY <1>4 DEF Behind
  <2>4. QED
    BY <1>1, <1>4, <2>1, <2>2, <2>3
<1>6. CASE rest # << >>
  <2>1. k + 1 \in 1 .. e
    <3>1. e - k # 0
      BY <1>2, <1>6
    <3>2. QED
      BY ONLY <1>2, <1>3, <3>1
  <2>2. ReadCur(rest, wrCur) = entries[k + 1]
    BY <1>6 DEF ReadCur
  <2>3. Behind(entries[k + 1], n, base, h + (k + 1) - 1)
    BY <1>1, <1>2, <2>1 DEF Archive
  <2>4. h + (k + 1) - 1 = h + k
    BY ONLY <1>1, <1>3
  <2>5. entries[k + 1].seg # 0
    BY <1>2, <2>1, DiskFacts
  <2>6. QED
    BY <1>1, <2>2, <2>3, <2>4, <2>5
<1>7. QED
  BY <1>5, <1>6

(***************************************************************************)
(* The steps.                                                              *)
(***************************************************************************)
\* At first nothing was accepted.
LEMMA ArchiveInit == Init => ArchiveInv
<1>1. SUFFICES ASSUME Init PROVE ArchiveInv
  OBVIOUS
<1> DEFINE base == [s \in Nat |-> 0]
<1>2. /\ segs = << >> /\ LoadedCursor = Start /\ mode = "down" /\ accepted = 0 /\ acked = {}
      /\ entries = << >> /\ ackSinceCS = 0 /\ nextIdx = 0
  BY <1>1 DEF Init, LoadedCursor, NoCursor, Start
<1>3. Stored = [s \in {1} |-> << >>]
  BY <1>2 DEF Stored
<1>4. Divides(base, 1, 0)
  <2>1. base \in [Nat -> Nat] /\ \A s \in Nat : base[s] = 0
    OBVIOUS
  <2>2. \A s \in 1 .. 1 + 1 : s \in Nat
    OBVIOUS
  <2>3. base[1] = 0 /\ base[1 + 1] = 0 /\ \A s \in 1 .. 1 + 1 : base[s] = 0
    BY <2>1, <2>2
  <2> HIDE DEF base
  <2>4. QED
    BY <2>1, <2>3 DEF Divides
<1>5. \A s \in Nat : base[s] = 0
  OBVIOUS
<1> HIDE DEF base
<1>6. Laid(Stored, base, 1, 0)
  <2>1. DOMAIN Stored = 1 .. 1 /\ Stored[1] = << >>
    BY <1>3
  <2>2. Records(<< >>, 0, 0, 0)
    BY DEF Records
  <2>3. \A s \in 1 .. 1 : s = 1 /\ base[s] = 0 /\ base[s + 1] = 0
    BY <1>5
  <2>4. QED
    BY <1>4, <2>1, <2>2, <2>3 DEF Laid
<1>7. Behind(LoadedCursor, 1, base, 0)
  BY <1>2, <1>5 DEF Behind, Start
<1>8. Archive(1, base, 0, 0)
  BY <1>2, <1>6, <1>7, SpoolAssumption DEF Archive
<1>9. QED
  BY <1>8 DEF ArchiveInv

\* Steps that leave the files, the index and the confirmations alone.
LEMMA ArchiveFrame ==
    ASSUME NEW n, NEW base, NEW b, NEW m, Archive(n, base, b, m),
           UNCHANGED <<disk, mode, entries, ackSinceCS, scanPos, accepted, acked>>,
           mode # "open" => nextIdx' = nextIdx
    PROVE  Archive(n, base, b, m)'
  BY DEF Archive, Stored, LoadedCursor, disk

\* Open deletes nothing, and its scan starts at the cursor.
LEMMA ArchiveOpen ==
    ASSUME Archived, TypeInv, NEW n, NEW base, NEW b, NEW m, Archive(n, base, b, m), Open
    PROVE  Archive(n, base, b, m)'
<1>1. PICK r \in Retentions : OpenBegin(r)
  BY DEF Open
<1>2. r.on
  BY DEF Archived, KeepAll
<1>3. /\ mode = "down" /\ mode' = "scanning" /\ cursor' = cursor /\ accepted' = accepted /\ acked' = acked
      /\ scanPos' = LoadedCursor /\ entries' = << >> /\ ackSinceCS' = 0 /\ nextIdx' = 0
  BY <1>1 DEF OpenBegin, history
<1>4. segs' = Without(Stored, {})
  BY <1>1, <1>2 DEF OpenBegin, DropSegments, Stored
<1>5. DOMAIN segs' = DOMAIN Stored /\ \A s \in DOMAIN Stored : segs'[s] = Stored[s]
  BY <1>4 DEF Without
<1>6. DOMAIN Stored = 1 .. n /\ n \in 1 .. n /\ b \in Nat /\ ackSinceCS \in Nat /\ m \in Nat /\ accepted \in Nat
      /\ b + ackSinceCS <= m /\ m <= accepted
  BY ArchiveFacts
<1>7. Stored' = segs'
  BY <1>5, <1>6 DEF Stored
<1>8. Laid(Stored', base, n, accepted')
  <2>1. Laid(Stored, base, n, accepted)
    BY DEF Archive
  <2>2. QED
    BY <1>3, <1>5, <1>7, <2>1 DEF Laid
<1>9. LoadedCursor' = LoadedCursor
  BY <1>3 DEF LoadedCursor
<1>10. /\ Behind(LoadedCursor, n, base, b) /\ acked = 1 .. m /\ m < b + CursorSyncEvery
  BY DEF Archive
<1>11. b + 0 <= m /\ b + 0 <= accepted /\ b + 0 = b
  BY ONLY <1>6
<1>12. Len(entries') = 0 /\ \A k \in 1 .. Len(entries') : FALSE
  BY <1>3
<1>13. QED
  BY <1>3, <1>6, <1>8, <1>9, <1>10, <1>11, <1>12 DEF Archive

\* What there is to show of an open queue.
LEMMA ArchiveUp ==
    ASSUME NEW n, NEW base, NEW b \in Nat, NEW m \in Nat, NEW e \in Nat,
           mode' = "open", Len(entries') = e, Laid(Stored', base, n, accepted'),
           Behind(LoadedCursor', n, base, b), acked' = 1 .. m, m <= accepted',
           m < b + CursorSyncEvery, b + ackSinceCS' <= m, b + ackSinceCS' + e = accepted',
           \A k \in 1 .. e : Behind(entries'[k], n, base, b + ackSinceCS' + k - 1)
    PROVE  Archive(n, base, b, m)'
<1>1. mode' # "down" /\ mode' # "scanning"
  OBVIOUS
<1>2. QED
  BY <1>1, Zenon DEF Archive

\* What there is to show of one that is down.
LEMMA ArchiveDown ==
    ASSUME NEW n, NEW base, NEW b \in Nat, NEW m \in Nat,
           Discard, Laid(Stored', base, n, accepted'),
           Behind(LoadedCursor', n, base, b), acked' = 1 .. m, m <= accepted',
           m < b + CursorSyncEvery, b <= m
    PROVE  Archive(n, base, b, m)'
<1>1. mode' = "down" /\ entries' = << >> /\ ackSinceCS' = 0 /\ nextIdx' = 0
  BY DEF Discard
<1>2. b + ackSinceCS' <= m
  BY <1>1
<1>3. Len(entries') = 0 /\ \A k \in 1 .. Len(entries') : FALSE
  BY <1>1
<1>4. QED
  BY <1>1, <1>2, <1>3 DEF Archive

\* The scan adds the packets behind its position, in order.
LEMMA ScanNumbers ==
    ASSUME TypeInv, TypeInv', LossInv, NEW n, NEW base, NEW b, NEW m, Archive(n, base, b, m), ScanSegment
    PROVE  LET s    == scanPos.seg
               off  == scanPos.off
               stop == ScanEnd(s, off)
           IN  /\ s \in 1 .. n /\ stop \in Nat /\ stop <= Len(segs[s]) /\ base[s] \in Nat
               /\ base[s] + stop = b + Len(entries') /\ base[s] + stop <= accepted
               /\ \A k \in 1 .. Len(entries') : Behind(entries'[k], n, base, b + k - 1)
<1> DEFINE s    == scanPos.seg
           off  == scanPos.off
           stop == ScanEnd(s, off)
<1>1. /\ mode = "scanning" /\ s \in DOMAIN segs
      /\ entries' = IF off < stop THEN Indexed(s, off, stop) ELSE entries
      /\ bytes' = IF off < stop THEN bytes + (stop - off) ELSE bytes
  BY DEF ScanSegment
<1>2. /\ n \in Nat \ {0} /\ n \in 1 .. n /\ base \in [Nat -> Nat] /\ accepted \in Nat /\ b \in Nat
      /\ Stored = segs /\ DOMAIN segs = 1 .. n /\ Divides(base, n, accepted)
      /\ Len(segs[s]) \in Nat /\ Records(segs[s], base[s], base[s + 1], accepted)
  BY <1>1, ArchiveFacts
<1>3. /\ base[s] + off = b + Len(entries) /\ base[s] + off <= base[s + 1] /\ b + Len(entries) <= accepted
      /\ ackSinceCS = 0
      /\ \A k \in 1 .. Len(entries) : Behind(entries[k], n, base, b + ackSinceCS + k - 1)
  BY <1>1 DEF Archive, Behind
<1>4. /\ s \in 1 .. n /\ s \in Nat \ {0} /\ off \in Nat /\ Len(entries) \in Nat
      /\ base[s] \in Nat /\ base[s + 1] \in Nat
  <2>1. s \in Nat \ {0} /\ off \in Nat /\ Len(entries) \in Nat
    BY <1>1, DiskFacts
  <2>2. s \in 1 .. n
    BY <1>1, <1>2
  <2>3. \A t \in 1 .. n : base[t] \in Nat /\ base[t + 1] \in Nat
    BY ONLY <1>2, DividesFacts
  <2> HIDE DEF s, off
  <2>4. QED
    BY ONLY <2>1, <2>2, <2>3
<1>5. /\ stop \in Nat /\ stop <= Len(segs[s])
      /\ off < Len(segs[s]) => off <= stop
      /\ \A i \in off .. stop - 1 : segs[s][i + 1] # Torn
  BY <1>1, <1>4, ScanEndFacts
<1>6. /\ \A k \in 1 .. Len(entries) : k \in 1 .. Len(entries') /\ entries'[k] = entries[k]
      /\ \A k \in 1 .. Len(entries') : k > Len(entries) =>
           /\ entries'[k] = [seg |-> s, off |-> off + (k - Len(entries)) - 1]
           /\ off + (k - Len(entries)) - 1 < stop
  BY ScanFacts
<1>7. bytes = Len(entries) /\ bytes' = Len(entries') /\ Len(entries') \in Nat
  BY DEF TypeInv, Counts, TypeOK
<1> HIDE DEF s, off, stop
<1>8. PICK e, e2 \in Nat : e = Len(entries) /\ e2 = Len(entries')
  BY <1>4, <1>7
<1>9. PICK l, g \in Nat : l = base[s] /\ g = base[s + 1]
  BY <1>4
<1>10. PICK w \in Nat : w = Len(segs[s])
  BY <1>2
<1>11. l + w = g /\ \A i \in 1 .. w : segs[s][i] = IF l + i <= accepted THEN l + i ELSE Torn
  BY <1>2, <1>9, <1>10 DEF Records
<1>12. /\ l + off = b + e /\ l + off <= g /\ b + e <= accepted
       /\ off \in Nat /\ stop \in Nat /\ stop <= w /\ (off < w => off <= stop)
       /\ accepted \in Nat /\ b \in Nat /\ l \in Nat /\ g \in Nat /\ w \in Nat /\ e \in Nat /\ e2 \in Nat
       /\ l + w = g
  BY <1>2, <1>3, <1>4, <1>5, <1>8, <1>9, <1>10, <1>11
<1>13. off <= stop
  <2>1. CASE off < w
    BY <1>12, <2>1
  <2>2. CASE ~(off < w)
    <3>1. off = w
      BY ONLY <1>12, <2>2
    <3>2. stop = w
      <4>1. {i \in off .. Len(segs[s]) - 1 : segs[s][i + 1] = Torn} = {}
        BY <1>10, <1>12, <3>1
      <4>2. QED
        BY <1>10, <4>1 DEF ScanEnd, stop
    <3>3. QED
      BY ONLY <1>12, <3>1, <3>2
  <2>3. QED
    BY <2>1, <2>2
<1>14. e2 = e + (stop - off)
  <2>1. CASE off < stop
    BY <1>1, <1>7, <1>8, <2>1
  <2>2. CASE ~(off < stop)
    <3>1. e2 = e
      BY <1>1, <1>7, <1>8, <2>2
    <3>2. QED
      BY ONLY <1>12, <1>13, <2>2, <3>1
  <2>3. QED
    BY <2>1, <2>2
<1>15. l + stop = b + e2
  BY ONLY <1>12, <1>13, <1>14
<1>16. l + stop <= accepted
  <2>1. CASE stop = off
    BY ONLY <1>12, <2>1
  <2>2. CASE stop # off
    <3>1. stop - 1 \in off .. stop - 1 /\ stop \in 1 .. w /\ stop - 1 + 1 = stop
      BY ONLY <1>12, <1>13, <2>2
    <3>2. segs[s][stop] # Torn
      BY <1>5, <3>1
    <3>3. QED
      BY <1>11, <3>1, <3>2
  <2>3. QED
    BY <2>1, <2>2
<1>17. ASSUME NEW k \in 1 .. e2
       PROVE  Behind(entries'[k], n, base, b + k - 1)
  <2>1. CASE k \in 1 .. e
    <3>1. entries'[k] = entries[k] /\ Behind(entries[k], n, base, b + ackSinceCS + k - 1)
      BY <1>3, <1>6, <1>8, <2>1
    <3>2. b + ackSinceCS + k - 1 = b + k - 1
      BY <1>3, <1>12
    <3>3. QED
      BY <3>1, <3>2
  <2>2. CASE k \notin 1 .. e
    <3>1. k > e
      BY ONLY <1>12, <1>17, <2>2
    <3>2. /\ entries'[k] = [seg |-> s, off |-> off + (k - e) - 1]
          /\ off + (k - e) - 1 < stop
      BY <1>6, <1>8, <1>17, <3>1
    <3>3. PICK o \in Int : o = off + (k - e) - 1
      BY <1>12
    <3>4. k \in Nat /\ o < stop
      BY <1>17, <3>2, <3>3
    <3>5. l + o = b + k - 1 /\ b + k - 1 <= g
      BY ONLY <1>12, <3>3, <3>4
    <3>6. entries'[k].seg = s /\ entries'[k].off = o
      BY <3>2, <3>3
    <3>7. QED
      BY <1>4, <1>9, <3>5, <3>6 DEF Behind
  <2>3. QED
    BY <2>1, <2>2
<1>18. QED
  BY <1>4, <1>5, <1>8, <1>9, <1>15, <1>16, <1>17 DEF s, off, stop

\* A scan step keeps the numbers; a torn record is cut off behind the last packet.
LEMMA ArchiveScan ==
    ASSUME TypeInv, TypeInv', LossInv, LossInv', NEW n, NEW base, NEW b, NEW m,
           Archive(n, base, b, m), ScanSegment
    PROVE  \E bb : Archive(n, bb, b, m)'
<1> DEFINE s    == scanPos.seg
           off  == scanPos.off
           stop == ScanEnd(s, off)
           cut  == stop < Len(segs[s])
           more == ~cut /\ s + 1 \in DOMAIN segs
<1>1. /\ mode = "scanning" /\ s \in DOMAIN segs
      /\ segs' = IF cut THEN Truncated(s, stop) ELSE segs
      /\ scanPos' = IF more THEN [seg |-> s + 1, off |-> 0] ELSE Start
      /\ mode' = IF more THEN "scanning" ELSE "open"
      /\ cursor' = cursor /\ nextIdx' = nextIdx /\ ackSinceCS' = ackSinceCS
      /\ accepted' = accepted /\ acked' = acked
  BY DEF ScanSegment, ScansOn, history
<1>2. /\ s \in 1 .. n /\ stop \in Nat /\ stop <= Len(segs[s]) /\ base[s] \in Nat
      /\ base[s] + stop = b + Len(entries') /\ base[s] + stop <= accepted
      /\ \A k \in 1 .. Len(entries') : Behind(entries'[k], n, base, b + k - 1)
  BY ScanNumbers
<1>3. /\ n \in Nat \ {0} /\ n \in 1 .. n /\ base \in [Nat -> Nat] /\ accepted \in Nat /\ b \in Nat /\ m \in Nat
      /\ Stored = segs /\ DOMAIN segs = 1 .. n /\ Divides(base, n, accepted)
      /\ \A t \in 1 .. n : segs[t] \in Seq(Nat) /\ Len(segs[t]) \in Nat
                           /\ Records(segs[t], base[t], base[t + 1], accepted)
  BY <1>1, ArchiveFacts
<1>4. /\ Laid(segs, base, n, accepted) /\ Behind(LoadedCursor, n, base, b)
      /\ acked = 1 .. m /\ m <= accepted /\ m < b + CursorSyncEvery
      /\ ackSinceCS = 0 /\ nextIdx = 0 /\ b <= m
  <2>1. b + ackSinceCS <= m /\ ackSinceCS = 0
    BY <1>1 DEF Archive
  <2>2. QED
    BY <1>1, <1>3, <2>1 DEF Archive
<1>5. LoadedCursor' = LoadedCursor
  BY <1>1 DEF LoadedCursor
<1>6. \A t \in 1 .. n : base[t] \in Nat /\ base[t + 1] \in Nat /\ (t # n => base[t + 1] <= accepted)
  BY ONLY <1>3, DividesFacts
<1>7. PICK e \in Nat : e = Len(entries')
  BY DEF TypeInv, TypeOK
<1>8. Len(segs[s]) \in Nat /\ Records(segs[s], base[s], base[s + 1], accepted) /\ segs[s] \in Seq(Nat)
  BY <1>2, <1>3
<1> HIDE DEF s, off, stop
<1>9. PICK l, g \in Nat : l = base[s] /\ g = base[s + 1]
  BY <1>2, <1>6
<1>10. PICK w \in Nat : w = Len(segs[s])
  BY <1>8
<1>11. l + w = g
  BY <1>8, <1>9, <1>10 DEF Records
<1>12. /\ stop \in Nat /\ stop <= w /\ l + stop = b + e /\ l + stop <= accepted
       /\ l \in Nat /\ g \in Nat /\ w \in Nat /\ e \in Nat /\ b \in Nat /\ accepted \in Nat /\ m \in Nat
       /\ b <= m /\ m <= accepted
  BY <1>2, <1>3, <1>4, <1>7, <1>9, <1>10
<1>13. \A k \in 1 .. e : Behind(entries'[k], n, base, b + k - 1)
  BY <1>2, <1>7
<1>14. CASE cut
  <2>1. segs[s][stop + 1] = Torn
    BY <1>1, <1>14, DiskFacts, ScanEndFacts DEF s, off, stop
  <2>2. stop + 1 \in 1 .. w
    BY <1>10, <1>12, <1>14
  <2>3. l + (stop + 1) > accepted
    <3>1. stop + 1 \in 1 .. Len(segs[s])
      BY <1>10, <2>2
    <3>2. l + (stop + 1) <= accepted => segs[s][stop + 1] # Torn
      <4>1. PICK f : f = segs[s]
        OBVIOUS
      <4>2. /\ l \in Nat /\ g \in Nat /\ accepted \in Nat
            /\ Len(f) \in Nat /\ Records(f, l, g, accepted) /\ stop + 1 \in 1 .. Len(f)
        BY <1>8, <1>9, <1>12, <3>1, <4>1
      <4>3. l + (stop + 1) <= accepted => f[stop + 1] # Torn
        BY ONLY <4>2, RecordAt
      <4>4. QED
        BY <4>1, <4>3
    <3>3. QED
      BY <1>12, <2>1, <3>2
  <2>4. l + stop = accepted
    BY ONLY <1>12, <2>3
  <2>5. s = n
    <3>1. ASSUME s # n PROVE FALSE
      <4>1. g <= accepted
        BY <1>2, <1>6, <1>9, <3>1
      <4>2. QED
        BY ONLY <1>11, <1>12, <2>2, <2>4, <4>1
    <3>2. QED
      BY <3>1
  <2>6. PICK bb : bb = [base EXCEPT ![n + 1] = accepted]
    OBVIOUS
  <2>7. /\ DOMAIN segs' = 1 .. n /\ \A t \in 1 .. n : t # n => segs'[t] = segs[t]
        /\ segs'[n] = SubSeq(segs[n], 1, stop)
    BY <1>1, <1>3, <1>14, <2>5 DEF Truncated
  <2>8. Records(segs'[n], base[n], accepted, accepted)
    <3>1. g = base[n + 1] /\ l = base[n] /\ accepted <= g
      BY ONLY <1>9, <1>11, <1>12, <2>4, <2>5
    <3>2. Records(segs[n], l, g, accepted) /\ segs[n] \in Seq(Nat)
      BY <1>8, <1>9, <2>5
    <3>3. QED
      BY <1>12, <2>4, <2>7, <3>1, <3>2, RecordsCut
  <2>9. Laid(segs', bb, n, accepted)
    <3>1. \A t \in 1 .. n : Len(segs[t]) \in Nat
      BY <1>3
    <3>2. accepted \in Nat /\ accepted <= accepted /\ accepted <= accepted + 1
      BY <1>3
    <3>3. QED
      BY <1>4, <1>12, <2>6, <2>7, <2>8, <3>1, <3>2, LaidEnd
  <2>10. bb[n + 1] = accepted /\ \A t \in 1 .. n : bb[t] = base[t]
    BY <1>3, <2>6
  <2>11. ASSUME NEW p, NEW q, q <= accepted, Behind(p, n, base, q)
         PROVE  Behind(p, n, bb, q)
    <3>1. n \in Nat /\ n <= n
      BY <1>3
    <3>2. QED
      BY <1>3, <2>10, <2>11, <3>1, BehindKept
  <2>12. Behind(LoadedCursor', n, bb, b)
    <3>1. b <= accepted
      BY ONLY <1>12
    <3>2. QED
      BY <1>4, <1>5, <2>11, <3>1
  <2>13. \A k \in 1 .. e : Behind(entries'[k], n, bb, b + ackSinceCS' + k - 1)
    <3>1. SUFFICES ASSUME NEW k \in 1 .. e PROVE Behind(entries'[k], n, bb, b + ackSinceCS' + k - 1)
      OBVIOUS
    <3>2. b + 0 + k - 1 = b + k - 1 /\ b + k - 1 <= accepted
      BY ONLY <1>12, <2>4, <3>1
    <3>3. Behind(entries'[k], n, bb, b + k - 1)
      BY <1>13, <2>11, <3>2
    <3>4. QED
      BY <1>1, <1>4, <3>2, <3>3
  <2>14. mode' = "open" /\ Stored' = segs'
    BY <1>1, <1>3, <1>14, <2>7 DEF Stored
  <2>15. b + ackSinceCS' + e = accepted /\ b + ackSinceCS' <= m
    <3>1. ackSinceCS' = 0
      BY <1>1, <1>4
    <3>2. b + 0 + e = accepted /\ b + 0 <= m
      BY ONLY <1>12, <2>4
    <3>3. QED
      BY <3>1, <3>2
  <2>16. Archive(n, bb, b, m)'
    <3>1. Laid(Stored', bb, n, accepted') /\ acked' = 1 .. m /\ m <= accepted' /\ m < b + CursorSyncEvery
      BY <1>1, <1>4, <2>9, <2>14
    <3>2. b \in Nat /\ m \in Nat /\ e \in Nat /\ Len(entries') = e /\ mode' = "open"
      BY <1>7, <1>12, <2>14
    <3>3. b + ackSinceCS' + e = accepted'
      BY <1>1, <2>15
    <3>4. QED
      BY <2>12, <2>13, <2>15, <3>1, <3>2, <3>3, ArchiveUp
  <2>17. QED
    BY <2>16
<1>15. CASE ~cut
  <2>1. segs' = segs /\ Stored' = segs
    BY <1>1, <1>3, <1>15 DEF Stored
  <2>2. stop = w /\ l + w = b + e
    BY <1>10, <1>12, <1>15
  <2>3. \A k \in 1 .. e : Behind(entries'[k], n, base, b + ackSinceCS' + k - 1)
    <3>1. SUFFICES ASSUME NEW k \in 1 .. e PROVE Behind(entries'[k], n, base, b + ackSinceCS' + k - 1)
      OBVIOUS
    <3>2. b + 0 + k - 1 = b + k - 1
      BY ONLY <1>12, <3>1
    <3>3. QED
      BY <1>1, <1>4, <1>13, <3>2
  <2>4. Behind(LoadedCursor', n, base, b) /\ b + ackSinceCS' <= m
    BY <1>1, <1>4, <1>5, <1>12
  <2>5. CASE more
    <3>1. scanPos' = [seg |-> s + 1, off |-> 0] /\ mode' = "scanning"
      BY <1>1, <2>5
    <3>2. s + 1 \in 1 .. n
      BY <1>3, <2>5
    <3>3. g + 0 = b + e /\ g <= base[s + 1 + 1] /\ b + e <= accepted
      <4>1. base[s + 1] <= base[s + 1 + 1]
        BY <1>3, <3>2, DividesFacts
      <4>2. QED
        BY <1>9, <1>11, <1>12, <2>2, <4>1
    <3>4. Behind(scanPos', n, base, b + e)
      <4>1. scanPos'.seg = s + 1 /\ scanPos'.off = 0
        BY <3>1
      <4>2. g = base[s + 1] /\ g = b + e
        BY <1>9, <1>12, <3>3
      <4>3. QED
        BY <3>2, <3>3, <4>1, <4>2 DEF Behind
    <3>5. Archive(n, base, b, m)'
      BY <1>1, <1>4, <1>7, <2>1, <2>3, <2>4, <3>1, <3>3, <3>4 DEF Archive
    <3>6. QED
      BY <3>5
  <2>6. CASE ~more
    <3>1. mode' = "open"
      BY <1>1, <2>6
    <3>2. s = n
      <4>1. s + 1 \notin 1 .. n
        BY <1>3, <1>15, <2>6
      <4>2. s \in 1 .. n /\ n \in Nat
        BY <1>2, <1>3
      <4>3. QED
        BY ONLY <4>1, <4>2
    <3>3. b + e = accepted
      <4>1. accepted <= g
        BY <1>3, <1>9, <3>2, Zenon DEF Divides
      <4>2. QED
        BY ONLY <1>11, <1>12, <2>2, <4>1
    <3>4. b + ackSinceCS' + e = accepted
      BY <1>1, <1>4, <1>12, <3>3
    <3>5. Archive(n, base, b, m)'
      BY <1>1, <1>4, <1>7, <2>1, <2>3, <2>4, <3>1, <3>4 DEF Archive
    <3>6. QED
      BY <3>5
  <2>7. QED
    BY <2>5, <2>6
<1>16. QED
  BY <1>14, <1>15

(***************************************************************************)
(* A write, whole or cut short.                                            *)
(***************************************************************************)
\* Rolling keeps what the segments before it hold.
LEMMA RolledLaid ==
    ASSUME TypeInv, LossInv, NEW n, NEW base, NEW b, NEW m, Archive(n, base, b, m), mode = "open"
    PROVE  \E k, bb : /\ Laid(RolledSegs, bb, k, accepted) /\ bb[k + 1] = accepted
                      /\ k \in Nat \ {0} /\ n <= k
                      /\ \A s \in 1 .. n : bb[s] = base[s]
                      /\ accepted <= bb[n + 1]
                      /\ RolledCur.seg = k /\ bb[k] + RolledCur.off = accepted
<1>1. /\ Stored = segs /\ DOMAIN segs = 1 .. n /\ base[n + 1] = accepted
      /\ wrCur.seg = n /\ base[n] + wrCur.off = accepted
  BY OpenFull
<1>2. /\ accepted \in Nat /\ n \in Nat \ {0} /\ n \in 1 .. n /\ base \in [Nat -> Nat]
  BY ArchiveFacts
<1>3. Laid(segs, base, n, accepted)
  BY <1>1 DEF Archive
<1>4. /\ DOMAIN RolledSegs = DOMAIN segs \cup {RolledCur.seg}
      /\ \A t \in DOMAIN segs : RolledSegs[t] = segs[t]
      /\ RolledSegs[RolledCur.seg] \in Seq(Nat) /\ Len(RolledSegs[RolledCur.seg]) = RolledCur.off
      /\ RolledCur.seg \notin DOMAIN segs => RolledCur.off = 0 /\ RolledCur.seg = wrCur.seg + 1
      /\ RolledCur.seg \in DOMAIN segs => RolledCur = wrCur
  BY RollFacts DEF LossInv
<1>5. CASE RolledCur.seg \in DOMAIN segs
  <2>1. RolledCur = wrCur /\ RolledCur.seg = n /\ DOMAIN RolledSegs = 1 .. n
    BY <1>1, <1>4, <1>5
  <2>2. Laid(RolledSegs, base, n, accepted)
    BY <1>1, <1>3, <1>4, <2>1 DEF Laid
  <2>3. n <= n /\ accepted <= base[n + 1]
    BY <1>1, <1>2
  <2>4. QED
    BY <1>1, <1>2, <2>1, <2>2, <2>3
<1>6. CASE RolledCur.seg \notin DOMAIN segs
  <2>1. RolledCur.off = 0 /\ RolledCur.seg = n + 1
    BY <1>1, <1>4, <1>6
  <2>2. RolledSegs[n + 1] = << >>
    BY <1>4, <2>1
  <2>3. DOMAIN RolledSegs = 1 .. n + 1
    <3>1. DOMAIN RolledSegs = (1 .. n) \cup {n + 1}
      BY <1>1, <1>4, <2>1
    <3>2. (1 .. n) \cup {n + 1} = 1 .. n + 1
      BY ONLY <1>2
    <3>3. QED
      BY <3>1, <3>2
  <2>4. PICK bb : bb = [base EXCEPT ![n + 2] = accepted]
    OBVIOUS
  <2>5. Laid(RolledSegs, bb, n + 1, accepted)
    BY <1>1, <1>2, <1>3, <1>4, <2>2, <2>3, <2>4, LaidRoll
  <2>6. bb[n + 2] = accepted /\ \A s \in 1 .. n + 1 : bb[s] = base[s]
    BY <1>2, <2>4
  <2>7. /\ n + 1 \in Nat \ {0} /\ n <= n + 1 /\ n + 1 + 1 = n + 2 /\ accepted <= accepted
        /\ accepted + 0 = accepted /\ n + 1 \in 1 .. n + 1 /\ \A s \in 1 .. n : s \in 1 .. n + 1
    BY <1>2
  <2>8. bb[n + 1] = accepted /\ bb[n + 1 + 1] = accepted
    BY <1>1, <2>6, <2>7
  <2>9. bb[n + 1] + RolledCur.off = accepted /\ accepted <= bb[n + 1] /\ \A s \in 1 .. n : bb[s] = base[s]
    BY <2>1, <2>6, <2>7, <2>8
  <2>10. QED
    BY <2>1, <2>5, <2>7, <2>8, <2>9
<1>7. QED
  BY <1>5, <1>6

\* So does what is written then: the next packet (x is its number), or half of it.
LEMMA GrownLaid ==
    ASSUME TypeInv, LossInv, NEW n, NEW base, NEW b, NEW m, Archive(n, base, b, m), mode = "open",
           NEW x \in {accepted, accepted + 1}
    PROVE  \E k, bb : /\ Laid(Grown(IF x = accepted THEN Torn ELSE accepted + 1), bb, k, x)
                      /\ k \in Nat \ {0} /\ n <= k
                      /\ \A s \in 1 .. n : bb[s] = base[s]
                      /\ accepted <= bb[n + 1]
                      /\ RolledCur.seg = k /\ bb[k] + RolledCur.off = accepted
                      /\ bb[k + 1] = accepted + 1
<1>1. PICK k, cc : /\ Laid(RolledSegs, cc, k, accepted) /\ cc[k + 1] = accepted
                   /\ k \in Nat \ {0} /\ n <= k
                   /\ \A s \in 1 .. n : cc[s] = base[s]
                   /\ accepted <= cc[n + 1]
                   /\ RolledCur.seg = k /\ cc[k] + RolledCur.off = accepted
  BY RolledLaid
<1>2. PICK a \in Nat : a = accepted
  BY DEF TypeInv, TypeOK
<1>3. PICK y : y = IF x = accepted THEN Torn ELSE accepted + 1
  OBVIOUS
<1>4. PICK D : D = RolledSegs
  OBVIOUS
<1>5. PICK E : E = Grown(y)
  OBVIOUS
<1>6. /\ Divides(cc, k, a) /\ DOMAIN D = 1 .. k
      /\ \A s \in 1 .. k : Records(D[s], cc[s], cc[s + 1], a)
  BY <1>1, <1>2, <1>4, Zenon DEF Laid
<1>7. /\ k \in Nat \ {0} /\ k \in 1 .. k /\ n \in Nat \ {0} /\ cc \in [Nat -> Nat]
      /\ cc[k] \in Nat /\ cc[k + 1] = a
  <2>1. n \in Nat \ {0}
    BY ArchiveFacts
  <2>2. k \in Nat \ {0} /\ k \in 1 .. k /\ cc \in [Nat -> Nat] /\ \A s \in 1 .. k : cc[s] \in Nat
    BY ONLY <1>2, <1>6, DividesFacts
  <2>3. QED
    BY <1>1, <1>2, <2>1, <2>2
<1>8. /\ \A t \in DOMAIN segs : D[t] = segs[t] /\ segs[t] \in Seq(Nat)
      /\ DOMAIN D = DOMAIN segs \cup {k} /\ D[k] \in Seq(Nat)
  BY <1>1, <1>4, RollFacts, DiskFacts DEF LossInv
<1>9. \A t \in 1 .. k : Len(D[t]) \in Nat
  BY <1>6, <1>8
<1>10. DOMAIN E = 1 .. k /\ E[k] = Append(D[k], y) /\ \A s \in 1 .. k : s # k => E[s] = D[s]
  <2>1. E = [D EXCEPT ![k] = Append(D[k], y)]
    BY <1>1, <1>4, <1>5 DEF Grown
  <2>2. QED
    BY <1>6, <1>7, <2>1
<1>11. x \in {a, a + 1} /\ y = IF x = a THEN Torn ELSE a + 1
  BY <1>2, <1>3
<1>12. Records(E[k], cc[k], a + 1, x)
  <2>1. Records(D[k], cc[k], a, a)
    BY <1>6, <1>7
  <2>2. Records(Append(D[k], IF x = a THEN Torn ELSE a + 1), cc[k], a + 1, x)
    <3>1. PICK f \in Seq(Nat) : f = D[k]
      BY <1>8
    <3>2. PICK l \in Nat : l = cc[k]
      BY <1>7
    <3>3. a \in Nat /\ x \in {a, a + 1} /\ Records(f, l, a, a)
      BY <1>2, <1>11, <2>1, <3>1, <3>2
    <3>4. Records(Append(f, IF x = a THEN Torn ELSE a + 1), l, a + 1, x)
      BY ONLY <3>1, <3>2, <3>3, RecordsAppend
    <3>5. QED
      BY <3>1, <3>2, <3>4
  <2>3. QED
    BY <1>10, <1>11, <2>2
<1>13. PICK bb : bb = [cc EXCEPT ![k + 1] = a + 1]
  OBVIOUS
<1>14. Laid(E, bb, k, x)
  <2>1. Laid(D, cc, k, a)
    BY <1>1, <1>2, <1>4
  <2>2. a + 1 \in {x, x + 1}
    BY <1>11
  <2>3. PICK h : h = a + 1
    OBVIOUS
  <2>4. /\ a \in Nat /\ x \in Nat /\ a <= x /\ x <= a + 1 /\ h \in Nat /\ x <= h /\ h <= x + 1 /\ (x = a \/ cc[k + 1] = a)
        /\ Records(E[k], cc[k], h, x)
    BY <1>2, <1>7, <1>11, <1>12, <2>2, <2>3
  <2>5. DOMAIN E = 1 .. k /\ \A s \in 1 .. k : s # k => E[s] = D[s]
    BY <1>10
  <2>6. Laid(E, [cc EXCEPT ![k + 1] = h], k, x)
    BY <1>9, <2>1, <2>4, <2>5, LaidEnd
  <2>7. QED
    BY <1>13, <2>3, <2>6
<1>15. /\ bb[k + 1] = a + 1 /\ \A s \in 1 .. k : bb[s] = cc[s]
  BY <1>7, <1>13
<1>16. \A s \in 1 .. n : s \in 1 .. k
  BY <1>1, <1>7
<1>17. a <= bb[n + 1]
  <2>1. CASE n = k
    BY <1>2, <1>15, <2>1
  <2>2. CASE n # k
    <3>1. n + 1 \in 1 .. k
      BY <1>1, <1>7, <2>2
    <3>2. QED
      BY <1>1, <1>2, <1>15, <3>1
  <2>3. QED
    BY <2>1, <2>2
<1>18. /\ \A s \in 1 .. n : bb[s] = base[s]
       /\ bb[k] + RolledCur.off = accepted
  BY <1>1, <1>7, <1>15, <1>16
<1>19. QED
  BY <1>1, <1>2, <1>3, <1>5, <1>14, <1>15, <1>17, <1>18

\* Positions keep their numbers then.
LEMMA BehindGrown ==
    ASSUME TypeInv, NEW n, NEW base, NEW b, NEW m, Archive(n, base, b, m),
           NEW k \in Nat \ {0}, NEW bb, n <= k, \A s \in 1 .. n : bb[s] = base[s],
           accepted <= bb[n + 1], bb[n + 1] \in Nat, NEW p, NEW q \in Nat, q <= accepted, Behind(p, n, base, q)
    PROVE  Behind(p, k, bb, q)
<1>1. accepted \in Nat /\ n \in Nat \ {0}
  BY ArchiveFacts
<1>2. q <= bb[n + 1]
  BY <1>1
<1>3. QED
  BY <1>1, <1>2, BehindKept

\* An accepted packet gets the next number.
LEMMA ArchiveAppend ==
    ASSUME TypeInv, LossInv, NEW n, NEW base, NEW b, NEW m, Archive(n, base, b, m), AppendPacket
    PROVE  \E k, bb : Archive(k, bb, b, m)'
<1>1. /\ mode = "open" /\ mode' = "open" /\ segs' = Grown(accepted + 1)
      /\ entries' = Append(entries, RolledCur) /\ accepted' = accepted + 1
      /\ cursor' = cursor /\ ackSinceCS' = ackSinceCS /\ acked' = acked
  BY DEF AppendPacket, Grown
<1>2. PICK a \in Nat : a = accepted
  BY DEF TypeInv, TypeOK
<1>3. PICK k, bb : /\ Laid(Grown(a + 1), bb, k, a + 1)
                   /\ k \in Nat \ {0} /\ n <= k
                   /\ \A s \in 1 .. n : bb[s] = base[s]
                   /\ a <= bb[n + 1]
                   /\ RolledCur.seg = k /\ bb[k] + RolledCur.off = a
                   /\ bb[k + 1] = a + 1
  <2>1. accepted + 1 \in {accepted, accepted + 1} /\ accepted + 1 # accepted
    BY <1>2
  <2>2. QED
    BY <1>1, <1>2, <2>1, GrownLaid
<1>4. /\ b \in Nat /\ m \in Nat /\ ackSinceCS \in Nat /\ b + ackSinceCS <= m /\ m <= a
      /\ n \in Nat \ {0}
  BY <1>2, ArchiveFacts
<1>5. /\ Behind(LoadedCursor, n, base, b) /\ acked = 1 .. m /\ m < b + CursorSyncEvery
      /\ b + ackSinceCS + Len(entries) = a
      /\ \A i \in 1 .. Len(entries) : Behind(entries[i], n, base, b + ackSinceCS + i - 1)
  BY <1>1, <1>2 DEF Archive
<1>6. Laid(Stored', bb, k, accepted')
  <2>1. DOMAIN segs' = 1 .. k /\ 1 \in 1 .. k
    BY <1>1, <1>2, <1>3 DEF Laid
  <2>2. Stored' = segs'
    BY <2>1 DEF Stored
  <2>3. QED
    BY <1>1, <1>2, <1>3, <2>2
<1>7. bb[n + 1] \in Nat
  <2>1. bb \in [Nat -> Nat]
    BY <1>3, Zenon DEF Laid, Divides
  <2>2. QED
    BY <1>4, <2>1
<1>8. ASSUME NEW p, NEW q \in Nat, q <= a, Behind(p, n, base, q)
      PROVE  Behind(p, k, bb, q)
  BY <1>2, <1>3, <1>7, <1>8, BehindGrown
<1>9. Behind(LoadedCursor', k, bb, b)
  <2>1. LoadedCursor' = LoadedCursor
    BY <1>1 DEF LoadedCursor
  <2>2. b <= a
    BY ONLY <1>2, <1>4
  <2>3. QED
    BY <1>4, <1>5, <1>8, <2>1, <2>2
<1>10. PICK e \in Nat : e = Len(entries)
  BY DiskFacts
<1>11. PICK h \in Nat : h = b + ackSinceCS
  BY <1>4
<1>12. h + e = a
  BY <1>5, <1>10, <1>11
<1>13. ASSUME NEW i \in 1 .. e + 1
       PROVE  Behind(entries'[i], k, bb, b + ackSinceCS' + i - 1)
  <2>1. CASE i = e + 1
    <3>1. entries'[i] = RolledCur
      <4>1. entries \in Seq(Position)
        BY DEF TypeInv, TypeOK
      <4>2. QED
        BY <1>1, <1>10, <2>1, <4>1
    <3>2. Behind(RolledCur, k, bb, a)
      <4>1. k \in 1 .. k /\ a <= a + 1
        BY <1>2, <1>3
      <4>2. QED
        BY <1>3, <4>1 DEF Behind
    <3>3. h + i - 1 = a
      BY ONLY <1>10, <1>11, <1>12, <2>1
    <3>4. QED
      BY <1>1, <1>11, <3>1, <3>2, <3>3
  <2>2. CASE i # e + 1
    <3>1. i \in 1 .. e
      BY <1>10, <2>2
    <3>2. entries'[i] = entries[i]
      <4>1. entries \in Seq(Position)
        BY DEF TypeInv, TypeOK
      <4>2. QED
        BY <1>1, <1>10, <3>1, <4>1
    <3>3. Behind(entries[i], n, base, h + i - 1)
      BY <1>5, <1>10, <1>11, <3>1
    <3>4. h + i - 1 \in Nat /\ h + i - 1 <= a
      BY ONLY <1>10, <1>11, <1>12, <3>1
    <3>5. Behind(entries[i], k, bb, h + i - 1)
      BY <1>8, <3>3, <3>4
    <3>6. QED
      BY <1>1, <1>11, <3>2, <3>5
  <2>3. QED
    BY <2>1, <2>2
<1>14. Archive(k, bb, b, m)'
  <2>1. Len(entries') = e + 1 /\ e + 1 \in Nat
    <3>1. entries \in Seq(Position)
      BY DEF TypeInv, TypeOK
    <3>2. QED
      BY <1>1, <1>10, <3>1
  <2>2. b \in Nat /\ m \in Nat /\ mode' = "open"
    BY <1>1, <1>4
  <2>3. /\ acked' = 1 .. m /\ m < b + CursorSyncEvery /\ b + ackSinceCS' <= m
    BY <1>1, <1>4, <1>5
  <2>4. m <= accepted'
    <3>1. m <= a + 1
      BY ONLY <1>2, <1>4
    <3>2. QED
      BY <1>1, <1>2, <3>1
  <2>5. b + ackSinceCS' + (e + 1) = accepted'
    <3>1. h + (e + 1) = a + 1
      BY ONLY <1>12, h \in Nat, e \in Nat, a \in Nat
    <3>2. QED
      BY <1>1, <1>2, <1>11, <3>1
  <2>6. QED
    BY <1>6, <1>9, <1>13, <2>1, <2>2, <2>3, <2>4, <2>5, ArchiveUp
<1>15. QED
  BY <1>14

\* What a confirmation leaves in an archive.
LEMMA AckKeeps ==
    ASSUME Archived, TypeInv, LossInv, NEW c \in 1 .. MaxBatch, NEW saveFails \in BOOLEAN, AckN(c, saveFails)
    PROVE  /\ ~saveFails /\ mode = "open" /\ mode' = "open" /\ accepted' = accepted
           /\ DOMAIN segs' = DOMAIN segs /\ \A s \in DOMAIN segs : segs'[s] = segs[s]
           /\ ackSinceCS' = IF CursorDue(AckCount(c)) THEN 0 ELSE ackSinceCS + AckCount(c)
           /\ cursor' = IF CursorDue(AckCount(c)) THEN ReadCur(entries', wrCur) ELSE cursor
<1>1. ~saveFails
  BY DEF AckN, Archived
<1>2. retention.on
  <2>1. retention \in Retentions
    BY DEF AckN, LossInv, WriteInv
  <2>2. QED
    BY <2>1 DEF Archived, KeepAll
<1>3. segs' = Without(segs, {})
  BY <1>1, <1>2 DEF AckN, DropSegments, Confirmed
<1>4. DOMAIN segs' = DOMAIN segs /\ \A s \in DOMAIN segs : segs'[s] = segs[s]
  BY <1>3 DEF Without
<1>5. QED
  BY <1>1, <1>4 DEF AckN

\* The numbers of what a confirmation confirms.
LEMMA AckNumbers ==
    ASSUME TypeInv, LossInv, NEW n, NEW base, NEW b, NEW m, Archive(n, base, b, m), mode = "open",
           NEW h \in Nat, h = b + ackSinceCS, NEW k \in 1 .. Len(entries), NEW mm \in Nat,
           mm = IF h + k > m THEN h + k ELSE m
    PROVE  acked \cup Packets(1 .. k) = 1 .. mm
<1>1. PICK e \in Nat : e = Len(entries)
  BY DiskFacts
<1>2. \A i \in 1 .. k : OnDisk(entries[i]) /\ PacketAt(entries[i]) = h + i
  <2>1. \A i \in 1 .. k : i \in 1 .. Len(entries)
    BY <1>1
  <2>2. mode # "down"
    OBVIOUS
  <2>3. QED
    BY <2>1, <2>2, EntryPacket
<1>3. m \in Nat /\ h <= m /\ acked = 1 .. m /\ k \in Nat
  <2>1. acked = 1 .. m
    BY DEF Archive
  <2>2. k \in Nat
    BY <1>1
  <2>3. QED
    BY <2>1, <2>2, ArchiveFacts
<1>4. Packets(1 .. k) = {PacketAt(entries[i]) : i \in 1 .. k}
  <2>1. {j \in 1 .. k : OnDisk(entries[j])} = 1 .. k
    BY <1>2
  <2>2. QED
    BY <2>1 DEF Packets
<1>5. Packets(1 .. k) \subseteq h + 1 .. h + k
  <2>1. SUFFICES ASSUME NEW i \in 1 .. k PROVE PacketAt(entries[i]) \in h + 1 .. h + k
    BY <1>4
  <2>2. h + i \in h + 1 .. h + k
    BY ONLY h \in Nat, k \in Nat, i \in 1 .. k, <1>3
  <2>3. QED
    BY <1>2, <2>2
<1>6. ASSUME NEW q \in h + 1 .. h + k
      PROVE  q \in Packets(1 .. k)
  <2>1. q - h \in 1 .. k /\ h + (q - h) = q
    BY ONLY <1>3, h \in Nat, q \in h + 1 .. h + k
  <2>2. PacketAt(entries[q - h]) = q
    BY <1>2, <2>1
  <2>3. QED
    BY <1>4, <2>1, <2>2
<1>7. PICK S : S = Packets(1 .. k)
  OBVIOUS
<1>8. S = h + 1 .. h + k
  BY <1>5, <1>6, <1>7
<1>9. (1 .. m) \cup S = 1 .. mm
  BY ONLY <1>3, <1>8, h \in Nat, mm \in Nat, mm = IF h + k > m THEN h + k ELSE m
<1>10. QED
  BY <1>3, <1>7, <1>9

\* A confirmation moves the head, and the cursor now and then.
LEMMA ArchiveAck ==
    ASSUME Archived, TypeInv, LossInv, NEW n, NEW base, NEW b, NEW m, Archive(n, base, b, m),
           NEW c \in 1 .. MaxBatch, NEW saveFails \in BOOLEAN, AckN(c, saveFails)
    PROVE  \E bb, k, mm : /\ k \in 1 .. nextIdx /\ nextIdx' = nextIdx - k
                          /\ bb + ackSinceCS' = b + ackSinceCS + k
                          /\ mm = IF b + ackSinceCS + k > m THEN b + ackSinceCS + k ELSE m
                          /\ Archive(n, base, bb, mm)'
<1>1. PICK k : k = AckCount(c)
  OBVIOUS
<1>2. /\ k \in 1 .. nextIdx /\ k \in 1 .. Len(entries) /\ nextIdx' = nextIdx - k
      /\ entries' \in Seq(Position) /\ Len(entries') = Len(entries) - k
      /\ \A i \in 1 .. Len(entries') : entries'[i] = entries[i + k]
      /\ acked' = acked \cup Packets(1 .. k)
  BY <1>1, AckFacts
<1>3. /\ mode = "open" /\ mode' = "open" /\ accepted' = accepted
      /\ DOMAIN segs' = DOMAIN segs /\ \A s \in DOMAIN segs : segs'[s] = segs[s]
      /\ ackSinceCS' = IF CursorDue(k) THEN 0 ELSE ackSinceCS + k
      /\ cursor' = IF CursorDue(k) THEN ReadCur(entries', wrCur) ELSE cursor
  BY <1>1, AckKeeps
<1>4. PICK h \in Nat : h = b + ackSinceCS
  BY ArchiveFacts
<1>5. PICK e \in Nat : e = Len(entries)
  BY DiskFacts
<1>6. PICK a \in Nat : a = accepted
  BY ArchiveFacts
<1>7. PICK v \in Nat : v = ackSinceCS
  BY ArchiveFacts
<1>8. /\ b \in Nat /\ m \in Nat /\ h <= m /\ m <= a /\ k \in Nat /\ k >= 1 /\ k <= e
      /\ h = b + v /\ h + e = a /\ m < b + CursorSyncEvery
      /\ CursorSyncEvery \in Nat \ {0}
  <2>1. b \in Nat /\ m \in Nat /\ h <= m /\ m <= a
    BY <1>4, <1>6, ArchiveFacts
  <2>2. k \in 1 .. e
    BY <1>2, <1>5
  <2>3. k \in Nat /\ k >= 1 /\ k <= e
    BY ONLY <2>2, e \in Nat
  <2>4. h + e = a /\ m < b + CursorSyncEvery
    BY <1>3, <1>4, <1>5, <1>6 DEF Archive
  <2>5. QED
    BY <1>4, <1>7, <2>1, <2>3, <2>4, SpoolAssumption
<1>9. PICK mm : mm = IF h + k > m THEN h + k ELSE m
  OBVIOUS
<1>10. mm \in Nat /\ mm <= a /\ h + k <= mm
  BY ONLY <1>8, <1>9, h \in Nat, e \in Nat, a \in Nat
<1>11. acked' = 1 .. mm
  BY <1>2, <1>3, <1>4, <1>9, <1>10, AckNumbers
<1>12. Laid(Stored', base, n, accepted')
  <2>1. /\ Stored = segs /\ DOMAIN segs = 1 .. n /\ n \in 1 .. n
    BY <1>3, OpenFull, ArchiveFacts
  <2>2. Laid(segs, base, n, accepted)
    BY <2>1 DEF Archive
  <2>3. Stored' = segs'
    BY <1>3, <2>1 DEF Stored
  <2>4. QED
    BY <1>3, <2>1, <2>2, <2>3 DEF Laid
<1>13. PICK f \in Nat : f = e - k
  BY <1>8
<1>14. Len(entries') = f
  BY <1>2, <1>5, <1>13
<1>15. \A i \in 1 .. f : Behind(entries'[i], n, base, h + k + i - 1)
  <2>1. SUFFICES ASSUME NEW i \in 1 .. f PROVE Behind(entries'[i], n, base, h + k + i - 1)
    OBVIOUS
  <2>2. i + k \in 1 .. e /\ h + (i + k) - 1 = h + k + i - 1
    BY ONLY <1>8, <1>13, i \in 1 .. f, h \in Nat, e \in Nat, f \in Nat
  <2>3. Behind(entries[i + k], n, base, h + (i + k) - 1)
    BY <1>4, <1>5, <2>2 DEF Archive
  <2>4. QED
    BY <1>2, <1>14, <2>2, <2>3
<1>16. ASSUME NEW bb \in Nat, bb + ackSinceCS' = h + k, mm < bb + CursorSyncEvery,
              Behind(LoadedCursor', n, base, bb)
       PROVE  Archive(n, base, bb, mm)'
  <2>1. bb + ackSinceCS' <= mm /\ mm <= accepted'
    BY <1>3, <1>6, <1>10, <1>16
  <2>2. bb + ackSinceCS' + f = accepted'
    <3>1. h + k + f = a
      BY ONLY <1>8, <1>13, h \in Nat, e \in Nat, f \in Nat, a \in Nat
    <3>2. QED
      BY <1>3, <1>6, <1>16, <3>1
  <2>3. \A i \in 1 .. f : Behind(entries'[i], n, base, bb + ackSinceCS' + i - 1)
    BY <1>15, <1>16
  <2>4. QED
    BY <1>3, <1>10, <1>11, <1>12, <1>14, <1>16, <2>1, <2>2, <2>3, ArchiveUp
<1>17. SUFFICES \E bb : bb + ackSinceCS' = h + k /\ Archive(n, base, bb, mm)'
  <2>1. mm = IF b + ackSinceCS + k > m THEN b + ackSinceCS + k ELSE m
    BY <1>4, <1>9
  <2>2. QED
    BY <1>2, <1>4, <2>1
<1>18. CASE CursorDue(k)
  <2>1. ackSinceCS' = 0 /\ cursor' = ReadCur(entries', wrCur)
    BY <1>3, <1>18
  <2>2. Behind(cursor', n, base, h + k) /\ cursor'.seg # 0
    <3>1. k \in 0 .. Len(entries)
      BY <1>5, <1>8
    <3>2. entries' # << >> => entries'[1] = entries[k + 1]
      <4>1. ASSUME entries' # << >> PROVE f >= 1
        BY <1>2, <1>14, <4>1
      <4>2. f >= 1 => 1 \in 1 .. f /\ 1 + k = k + 1
        BY <1>8
      <4>3. QED
        BY <1>2, <1>14, <4>1, <4>2
    <3>3. Len(entries') = 0 => entries' = << >>
      BY <1>2
    <3>4. QED
      <4>1. PICK rest : rest = entries'
        OBVIOUS
      <4>2. /\ Len(rest) = Len(entries) - k /\ (rest # << >> => rest[1] = entries[k + 1])
            /\ (Len(rest) = 0 => rest = << >>)
        BY <1>2, <3>2, <3>3, <4>1
      <4>3. Behind(ReadCur(rest, wrCur), n, base, b + ackSinceCS + k) /\ ReadCur(rest, wrCur).seg # 0
        BY <1>3, <3>1, <4>2, ReadsHead
      <4>4. QED
        BY <1>4, <2>1, <4>1, <4>3
  <2>3. LoadedCursor' = cursor'
    BY <2>2 DEF LoadedCursor
  <2>4. PICK bb \in Nat : bb = h + k
    BY <1>8
  <2>5. mm < bb + CursorSyncEvery /\ bb + 0 = h + k
    BY ONLY <1>8, <1>9, <2>4, h \in Nat, bb \in Nat
  <2>6. Archive(n, base, bb, mm)'
    BY <1>16, <2>1, <2>2, <2>3, <2>4, <2>5
  <2>7. QED
    BY <2>1, <2>5, <2>6
<1>19. CASE ~CursorDue(k)
  <2>1. ackSinceCS' = v + k /\ cursor' = cursor
    BY <1>3, <1>7, <1>19
  <2>2. Behind(LoadedCursor', n, base, b)
    BY <2>1 DEF Archive, LoadedCursor
  <2>3. v + k < CursorSyncEvery
    <3>1. ~(v + k >= CursorSyncEvery)
      BY <1>7, <1>19 DEF CursorDue
    <3>2. QED
      BY ONLY <1>8, <3>1, v \in Nat
  <2>4. mm < b + CursorSyncEvery /\ b + (v + k) = h + k
    BY ONLY <1>8, <1>9, <2>3, h \in Nat, v \in Nat
  <2>5. Archive(n, base, b, mm)'
    BY <1>8, <1>16, <2>1, <2>2, <2>4
  <2>6. QED
    BY <2>1, <2>4, <2>5
<1>20. QED
  BY <1>18, <1>19

\* Close saves the head.
LEMMA ArchiveClose ==
    ASSUME TypeInv, LossInv, NEW n, NEW base, NEW b, NEW m, Archive(n, base, b, m), Close
    PROVE  \E c : c = b + ackSinceCS /\ c + ackSinceCS' = c /\ Archive(n, base, c, m)'
<1>1. /\ mode = "open" /\ Discard /\ cursor' = ReadCur(entries, wrCur)
      /\ segs' = segs /\ accepted' = accepted /\ acked' = acked
  BY DEF Close
<1>2. PICK c \in Nat : c = b + ackSinceCS
  BY ArchiveFacts
<1>3. /\ b \in Nat /\ m \in Nat /\ c <= m /\ m <= accepted /\ ackSinceCS \in Nat /\ m < b + CursorSyncEvery
      /\ CursorSyncEvery \in Nat
  <2>1. m < b + CursorSyncEvery
    BY DEF Archive
  <2>2. QED
    BY <1>2, <2>1, ArchiveFacts, SpoolAssumption
<1>4. acked = 1 .. m /\ Laid(Stored, base, n, accepted)
  BY DEF Archive
<1>5. Behind(ReadCur(entries, wrCur), n, base, c) /\ ReadCur(entries, wrCur).seg # 0
  <2>1. 0 \in 0 .. Len(entries) /\ Len(entries) = Len(entries) - 0
    BY DiskFacts
  <2>2. entries # << >> => entries[1] = entries[0 + 1]
    OBVIOUS
  <2>3. Len(entries) = 0 => entries = << >>
    BY DEF TypeInv, TypeOK
  <2>4. PICK rest : rest = entries
    OBVIOUS
  <2>5. Behind(ReadCur(rest, wrCur), n, base, b + ackSinceCS + 0) /\ ReadCur(rest, wrCur).seg # 0
    BY <1>1, <2>1, <2>2, <2>3, <2>4, ReadsHead
  <2>6. c + 0 = c
    BY <1>2
  <2>7. QED
    BY <1>2, <2>4, <2>5, <2>6
<1>6. LoadedCursor' = ReadCur(entries, wrCur)
  BY <1>1, <1>5 DEF LoadedCursor
<1>7. m < c + CursorSyncEvery /\ c + 0 = c
  BY <1>2, <1>3
<1>8. Stored' = Stored
  BY <1>1 DEF Stored
<1>9. Archive(n, base, c, m)'
  BY <1>1, <1>3, <1>4, <1>5, <1>6, <1>7, <1>8, ArchiveDown
<1>10. ackSinceCS' = 0
  BY <1>1 DEF Discard
<1>11. QED
  BY <1>2, <1>7, <1>9, <1>10

\* After a crash the next Open goes back to the saved cursor.
LEMMA ArchiveCrash ==
    ASSUME TypeInv, LossInv, NEW n, NEW base, NEW b, NEW m, Archive(n, base, b, m), Crash
    PROVE  ackSinceCS' = 0 /\ \E k, bb : Archive(k, bb, b, m)'
<1>1. /\ mode # "down" /\ Discard /\ cursor' = cursor /\ accepted' = accepted /\ acked' = acked
      /\ ackSinceCS' = 0 /\ LoadedCursor' = LoadedCursor
  BY DEF Crash, Discard, LoadedCursor
<1>2. PICK a \in Nat : a = accepted
  BY DEF TypeInv, TypeOK
<1>3. /\ b \in Nat /\ m \in Nat /\ b <= m /\ m <= a /\ n \in Nat \ {0}
      /\ DOMAIN Stored = 1 .. n /\ (DOMAIN segs # {} => Stored = segs)
  <2>1. /\ b \in Nat /\ m \in Nat /\ ackSinceCS \in Nat /\ b + ackSinceCS <= m /\ m <= a /\ n \in Nat \ {0}
        /\ DOMAIN Stored = 1 .. n /\ (DOMAIN segs # {} => Stored = segs)
    BY <1>2, ArchiveFacts
  <2>2. b <= m
    BY ONLY <2>1
  <2>3. QED
    BY <2>1, <2>2
<1>4. acked = 1 .. m /\ m < b + CursorSyncEvery /\ Behind(LoadedCursor, n, base, b)
      /\ Laid(Stored, base, n, accepted)
  BY DEF Archive
<1>5. ASSUME NEW k, NEW bb, Laid(Stored', bb, k, accepted'), Behind(LoadedCursor', k, bb, b)
      PROVE  Archive(k, bb, b, m)'
  BY <1>1, <1>2, <1>3, <1>4, <1>5, ArchiveDown
<1>6. ASSUME NEW k \in Nat \ {0}, NEW bb, n <= k, \A s \in 1 .. n : bb[s] = base[s], a <= bb[n + 1],
             Laid(segs', bb, k, accepted')
      PROVE  Archive(k, bb, b, m)'
  <2>1. DOMAIN segs' = 1 .. k /\ 1 \in 1 .. k
    BY <1>6 DEF Laid
  <2>2. Stored' = segs'
    BY <2>1 DEF Stored
  <2>3. bb[n + 1] \in Nat
    <3>1. bb \in [Nat -> Nat]
      <4>1. Divides(bb, k, accepted')
        BY <1>6, Zenon DEF Laid
      <4>2. QED
        BY ONLY <4>1, Zenon DEF Divides
    <3>2. n + 1 \in Nat
      <4>1. n \in Nat
        BY <1>3
      <4>2. QED
        BY ONLY <4>1
    <3>3. QED
      BY <3>1, <3>2
  <2>4. b <= a
    BY ONLY <1>2, <1>3
  <2>5. Behind(LoadedCursor, k, bb, b)
    BY <1>2, <1>3, <1>4, <1>6, <2>3, <2>4, BehindGrown
  <2>6. QED
    BY <1>1, <1>5, <1>6, <2>2, <2>5
<1>7. CASE segs' = segs
  <2>1. Stored' = Stored
    BY <1>7 DEF Stored
  <2>2. QED
    BY <1>1, <1>4, <1>5, <2>1
<1>8. CASE segs' # segs
  <2>1. mode = "open" /\ segs' \in {RolledSegs, Grown(Torn)}
    BY <1>8 DEF Crash, Grown
  <2>2. CASE segs' = RolledSegs
    <3>1. PICK k, bb : /\ Laid(RolledSegs, bb, k, accepted) /\ k \in Nat \ {0} /\ n <= k
                       /\ \A s \in 1 .. n : bb[s] = base[s]
                       /\ accepted <= bb[n + 1]
      BY <2>1, RolledLaid
    <3>2. QED
      BY <1>1, <1>2, <1>6, <2>2, <3>1
  <2>3. CASE segs' = Grown(Torn)
    <3>1. accepted \in {accepted, accepted + 1}
      OBVIOUS
    <3>2. PICK k, bb : /\ Laid(Grown(IF accepted = accepted THEN Torn ELSE accepted + 1), bb, k, accepted)
                       /\ k \in Nat \ {0} /\ n <= k
                       /\ \A s \in 1 .. n : bb[s] = base[s]
                       /\ accepted <= bb[n + 1]
      <4>1. PICK x : x = accepted
        OBVIOUS
      <4>2. x \in {accepted, accepted + 1}
        BY <4>1
      <4>3. QED
        BY <2>1, <4>1, <4>2, GrownLaid
    <3>3. Laid(segs', bb, k, accepted')
      BY <1>1, <2>3, <3>2
    <3>4. QED
      BY <1>1, <1>2, <1>6, <3>2, <3>3
  <2>4. QED
    BY <2>1, <2>2, <2>3
<1>9. QED
  BY <1>1, <1>7, <1>8

\* A step that leaves the queue's files, index and confirmations as they are.
LEMMA ArchiveQuiet ==
    ASSUME Archived, TypeInv, LossInv, NEW n, NEW base, NEW b, NEW m, Archive(n, base, b, m),
           AppendFull \/ AppendFails \/ Deliver \/ Requeue \/ SetRetention \/ UNCHANGED vars
    PROVE  Archive(n, base, b, m)' /\ ackSinceCS' = ackSinceCS
<1>1. /\ UNCHANGED <<disk, mode, entries, ackSinceCS, scanPos, accepted, acked>>
      /\ mode # "open" => nextIdx' = nextIdx
  BY DEF AppendFull, AppendFails, Deliver, NextBatch, Requeue, SetRetention, EnableRetention,
         vars, history, memory
<1>2. QED
  BY <1>1, ArchiveFrame

\* Nothing is lost in an archive.
LEMMA ArchiveSafe ==
    ASSUME Archived
    PROVE  SafeConfig
<1>1. NoRetention # KeepAll
  BY DEF NoRetention, KeepAll
<1>2. QED
  BY <1>1 DEF Archived, SafeConfig

(***************************************************************************)
(* The steps of the FIFO.                                                  *)
(***************************************************************************)
\* The FIFO's view of two states.
LEMMA Mapped ==
    ASSUME HeadKnown, HeadKnown', NEW n, NEW base, NEW b, NEW m, Archive(n, base, b, m),
           NEW k, NEW bb, NEW c, NEW mm, Archive(k, bb, c, mm)'
    PROVE  /\ HeadOf = b + ackSinceCS /\ LastConfirmed = m
           /\ HeadOf' = c + ackSinceCS' /\ LastConfirmed' = mm
<1>1. HeadOf = b + ackSinceCS /\ LastConfirmed = m
  BY DEF HeadKnown
<1>2. HeadOf' = c + ackSinceCS' /\ LastConfirmed' = mm
  BY DEF HeadKnown
<1>3. QED
  BY <1>1, <1>2

\* Append accepts.
LEMMA FifoAccept ==
    ASSUME TypeInv, LossInv, HeadKnown, HeadKnown', ArchiveInv, AppendPacket
    PROVE  ArchiveInv' /\ Fifo!Accept
<1>1. PICK n, base, b, m : Archive(n, base, b, m)
  BY DEF ArchiveInv
<1>2. PICK k, bb : Archive(k, bb, b, m)'
  BY <1>1, ArchiveAppend
<1>3. /\ mode = "open" /\ mode' = "open" /\ bytes + 1 <= MaxBytes /\ accepted' = accepted + 1
      /\ nextIdx' = nextIdx /\ ackSinceCS' = ackSinceCS
  BY DEF AppendPacket
<1>4. HeadOf = b + ackSinceCS /\ HeadOf' = HeadOf /\ LastConfirmed' = LastConfirmed
  BY <1>1, <1>2, <1>3, Mapped
<1>5. accepted - HeadOf < MaxBytes
  <2>1. PICK h \in Nat : h = b + ackSinceCS
    BY <1>1, ArchiveFacts
  <2>2. PICK e \in Nat : e = Len(entries)
    BY DiskFacts
  <2>3. h + e = accepted
    BY <1>1, <1>3, <2>1, <2>2 DEF Archive
  <2>4. bytes = e /\ MaxBytes \in Nat
    BY <2>2, SpoolAssumption DEF TypeInv, Counts
  <2>5. QED
    BY <1>3, <1>4, <2>1, <2>3, <2>4
<1>6. Fifo!Accept
  BY <1>3, <1>4, <1>5 DEF Fifo!Accept
<1>7. QED
  BY <1>2, <1>6 DEF ArchiveInv

\* Next hands out.
LEMMA FifoHandOut ==
    ASSUME Archived, TypeInv, LossInv, HeadKnown, HeadKnown', ArchiveInv, Deliver
    PROVE  ArchiveInv' /\ Fifo!HandOut
<1>1. PICK n, base, b, m : Archive(n, base, b, m)
  BY DEF ArchiveInv
<1>2. Archive(n, base, b, m)' /\ ackSinceCS' = ackSinceCS
  BY <1>1, ArchiveQuiet
<1>3. PICK c \in 1 .. MaxBatch : NextBatch(c)
  BY DEF Deliver
<1>4. mode = "open" /\ mode' = "open" /\ accepted' = accepted
  BY <1>3 DEF NextBatch
<1>5. HeadOf = b + ackSinceCS /\ HeadOf' = HeadOf /\ LastConfirmed' = LastConfirmed
  BY <1>1, <1>2, Mapped
<1>6. nextIdx' \in nextIdx + 1 .. accepted - HeadOf
  <2>1. nextIdx' \in nextIdx + 1 .. Len(entries)
    BY <1>3, NextBatchFacts
  <2>2. PICK h \in Nat : h = b + ackSinceCS
    BY <1>1, ArchiveFacts
  <2>3. PICK e \in Nat : e = Len(entries)
    BY DiskFacts
  <2>4. h + e = accepted
    BY <1>1, <1>4, <2>2, <2>3 DEF Archive
  <2>5. accepted - HeadOf = e
    BY <1>5, <2>2, <2>4
  <2>6. QED
    BY <2>1, <2>3, <2>5
<1>7. Fifo!HandOut
  BY <1>4, <1>5, <1>6 DEF Fifo!HandOut
<1>8. QED
  BY <1>2, <1>7 DEF ArchiveInv

\* AckN settles.
LEMMA FifoSettle ==
    ASSUME Archived, TypeInv, LossInv, HeadKnown, HeadKnown', ArchiveInv, Acknowledge
    PROVE  ArchiveInv' /\ Fifo!Settle
<1>1. PICK n, base, b, m : Archive(n, base, b, m)
  BY DEF ArchiveInv
<1>2. PICK c \in 1 .. MaxBatch, saveFails \in BOOLEAN : AckN(c, saveFails)
  BY DEF Acknowledge
<1>3. mode = "open" /\ mode' = "open" /\ accepted' = accepted
  BY <1>2, AckKeeps
<1>4. PICK bb, k, mm : /\ k \in 1 .. nextIdx /\ nextIdx' = nextIdx - k
                       /\ bb + ackSinceCS' = b + ackSinceCS + k
                       /\ mm = IF b + ackSinceCS + k > m THEN b + ackSinceCS + k ELSE m
                       /\ Archive(n, base, bb, mm)'
  BY <1>1, <1>2, ArchiveAck
<1>5. HeadOf = b + ackSinceCS /\ HeadOf' = HeadOf + k /\ LastConfirmed = m /\ LastConfirmed' = mm
  BY <1>1, <1>4, Mapped
<1>6. LastConfirmed' = IF HeadOf + k > LastConfirmed THEN HeadOf + k ELSE LastConfirmed
  BY <1>4, <1>5
<1>7. Fifo!Settle
  BY <1>3, <1>4, <1>5, <1>6 DEF Fifo!Settle
<1>8. QED
  BY <1>4, <1>7 DEF ArchiveInv

\* Requeue takes back.
LEMMA FifoTakeBack ==
    ASSUME Archived, TypeInv, LossInv, HeadKnown, HeadKnown', ArchiveInv, Requeue
    PROVE  ArchiveInv' /\ Fifo!TakeBack
<1>1. PICK n, base, b, m : Archive(n, base, b, m)
  BY DEF ArchiveInv
<1>2. Archive(n, base, b, m)' /\ ackSinceCS' = ackSinceCS
  BY <1>1, ArchiveQuiet
<1>3. mode = "open" /\ mode' = "open" /\ accepted' = accepted /\ nextIdx' = 0
  BY DEF Requeue, history
<1>4. HeadOf' = HeadOf /\ LastConfirmed' = LastConfirmed
  BY <1>1, <1>2, Mapped
<1>5. Fifo!TakeBack
  BY <1>3, <1>4 DEF Fifo!TakeBack
<1>6. QED
  BY <1>2, <1>5 DEF ArchiveInv

\* Close and a crash of an open queue stop it, the head not before the saved cursor.
LEMMA FifoStop ==
    ASSUME TypeInv, LossInv, HeadKnown, HeadKnown', ArchiveInv, Close \/ Crash, mode = "open"
    PROVE  ArchiveInv' /\ Fifo!Stop
<1>1. PICK n, base, b, m : Archive(n, base, b, m)
  BY DEF ArchiveInv
<1>2. PICK h \in Nat : h = b + ackSinceCS
  BY <1>1, ArchiveFacts
<1>3. /\ b \in Nat /\ m \in Nat /\ ackSinceCS \in Nat /\ m < b + CursorSyncEvery /\ CursorSyncEvery \in Nat
  <2>1. m < b + CursorSyncEvery
    BY <1>1 DEF Archive
  <2>2. QED
    BY <1>1, <2>1, ArchiveFacts, SpoolAssumption
<1>4. mode' = "down" /\ nextIdx' = 0 /\ accepted' = accepted
  BY DEF Close, Crash, Discard
<1>5. \E k, bb, c : Archive(k, bb, c, m)' /\ c + ackSinceCS' = c /\ c \in b .. h
  <2>1. CASE Close
    <3>1. PICK c : c = h /\ c + ackSinceCS' = c /\ Archive(n, base, c, m)'
      BY <1>1, <1>2, <2>1, ArchiveClose
    <3>2. c \in b .. h
      BY <1>2, <1>3, <3>1
    <3>3. QED
      BY <3>1, <3>2
  <2>2. CASE Crash
    <3>1. PICK k, bb : ackSinceCS' = 0 /\ Archive(k, bb, b, m)'
      BY <1>1, <2>2, ArchiveCrash
    <3>2. b + ackSinceCS' = b /\ b \in b .. h
      BY <1>2, <1>3, <3>1
    <3>3. QED
      BY <3>1, <3>2
  <2>3. QED
    BY <2>1, <2>2
<1>6. PICK k, bb, c : Archive(k, bb, c, m)' /\ c + ackSinceCS' = c /\ c \in b .. h
  BY <1>5
<1>7. HeadOf = h /\ LastConfirmed = m /\ HeadOf' = c /\ LastConfirmed' = m
  BY <1>1, <1>2, <1>6, Mapped
<1>8. c \in 0 .. h /\ m - c < CursorSyncEvery
  BY ONLY <1>3, <1>6, h \in Nat
<1>9. HeadOf' \in 0 .. HeadOf /\ LastConfirmed - HeadOf' < CursorSyncEvery /\ LastConfirmed' = LastConfirmed
  BY <1>7, <1>8
<1>10. Fifo!Stop
  BY <1>4, <1>9 DEF Fifo!Stop
<1>11. QED
  BY <1>6, <1>10 DEF ArchiveInv

\* What is no step of the FIFO.
LEMMA FifoStutter ==
    ASSUME HeadKnown, HeadKnown', NEW n, NEW base, NEW b, NEW m, Archive(n, base, b, m),
           NEW k, NEW bb, Archive(k, bb, b, m)', ackSinceCS' = ackSinceCS,
           accepted' = accepted, nextIdx' = nextIdx, mode' = "open" <=> mode = "open"
    PROVE  ArchiveInv' /\ UNCHANGED Fifo!vars
<1>1. HeadOf' = HeadOf /\ LastConfirmed' = LastConfirmed
  BY Mapped
<1>2. (mode = "open")' = (mode = "open")
  BY Zenon
<1>3. UNCHANGED Fifo!vars
  BY <1>1, <1>2, Zenon DEF Fifo!vars
<1>4. QED
  BY <1>3 DEF ArchiveInv

\* Opening: the FIFO is down until the scan has read the last segment.
LEMMA FifoOpening ==
    ASSUME Archived, TypeInv, TypeInv', LossInv, LossInv', HeadKnown, HeadKnown', ArchiveInv,
           Open \/ ScanSegment
    PROVE  ArchiveInv' /\ (Fifo!Restart \/ UNCHANGED Fifo!vars)
<1>1. PICK n, base, b, m : Archive(n, base, b, m)
  BY DEF ArchiveInv
<1>2. mode # "open" => ackSinceCS = 0 /\ nextIdx = 0
  BY <1>1 DEF Archive
<1>3. CASE Open
  <2>1. /\ mode = "down" /\ mode' = "scanning" /\ nextIdx' = 0 /\ ackSinceCS' = 0 /\ accepted' = accepted
    BY <1>3 DEF Open, OpenBegin, history
  <2>2. Archive(n, base, b, m)'
    BY <1>1, <1>3, ArchiveOpen
  <2>3. QED
    BY <1>1, <1>2, <2>1, <2>2, FifoStutter
<1>4. CASE ScanSegment
  <2>1. /\ mode = "scanning" /\ mode' \in {"scanning", "open"}
        /\ nextIdx' = nextIdx /\ ackSinceCS' = ackSinceCS /\ accepted' = accepted
    BY <1>4 DEF ScanSegment, history
  <2>2. PICK bb : Archive(n, bb, b, m)'
    BY <1>1, <1>4, ArchiveScan
  <2>3. CASE mode' = "scanning"
    BY <1>1, <2>1, <2>2, <2>3, FifoStutter
  <2>4. CASE mode' = "open"
    <3>1. HeadOf' = HeadOf /\ LastConfirmed' = LastConfirmed
      BY <1>1, <2>1, <2>2, Mapped
    <3>2. Fifo!Restart
      BY <2>1, <2>4, <3>1 DEF Fifo!Restart
    <3>3. QED
      BY <2>2, <3>2 DEF ArchiveInv
  <2>5. QED
    BY <2>1, <2>3, <2>4
<1>5. QED
  BY <1>3, <1>4

\* Steps the FIFO does not see.
LEMMA FifoQuiet ==
    ASSUME Archived, TypeInv, LossInv, HeadKnown, HeadKnown', ArchiveInv,
           AppendFull \/ AppendFails \/ SetRetention \/ UNCHANGED vars
    PROVE  ArchiveInv' /\ UNCHANGED Fifo!vars
<1>1. PICK n, base, b, m : Archive(n, base, b, m)
  BY DEF ArchiveInv
<1>2. Archive(n, base, b, m)' /\ ackSinceCS' = ackSinceCS
  BY <1>1, ArchiveQuiet
<1>3. mode' = mode /\ nextIdx' = nextIdx /\ accepted' = accepted
  BY DEF AppendFull, AppendFails, SetRetention, EnableRetention, vars, history, memory
<1>4. QED
  BY <1>1, <1>2, <1>3, FifoStutter

\* A crash inside recover: the FIFO was down and stays down.
LEMMA FifoCrashScanning ==
    ASSUME TypeInv, LossInv, HeadKnown, HeadKnown', ArchiveInv, Crash, mode # "open"
    PROVE  ArchiveInv' /\ UNCHANGED Fifo!vars
<1>1. PICK n, base, b, m : Archive(n, base, b, m)
  BY DEF ArchiveInv
<1>2. ackSinceCS = 0 /\ nextIdx = 0
  BY <1>1 DEF Archive
<1>3. PICK k, bb : ackSinceCS' = 0 /\ Archive(k, bb, b, m)'
  BY <1>1, ArchiveCrash
<1>4. mode' = "down" /\ nextIdx' = 0 /\ accepted' = accepted
  BY DEF Crash, Discard
<1>5. QED
  BY <1>1, <1>2, <1>3, <1>4, FifoStutter

\* Every step is one of the FIFO or stutters, and keeps the numbers.
LEMMA FifoStep ==
    ASSUME Archived, TypeInv, TypeInv', LossInv, LossInv', HeadKnown, HeadKnown', ArchiveInv,
           [Next]_vars
    PROVE  ArchiveInv' /\ [Fifo!Next]_(Fifo!vars)
<1>1. CASE Open \/ ScanSegment
  BY <1>1, FifoOpening DEF Fifo!Next
<1>2. CASE OpenFails
  <2>1. mode = "scanning" /\ scanPos.seg \notin DOMAIN segs
    BY <1>2 DEF OpenFails
  <2>2. scanPos.seg \in DOMAIN segs
    BY <2>1 DEF LossInv, ScanInv
  <2>3. QED
    BY <2>1, <2>2
<1>3. CASE AppendPacket
  BY <1>3, FifoAccept DEF Fifo!Next
<1>4. CASE AppendFull \/ AppendFails \/ SetRetention \/ UNCHANGED vars
  BY <1>4, FifoQuiet
<1>5. CASE Deliver
  BY <1>5, FifoHandOut DEF Fifo!Next
<1>6. CASE Acknowledge
  BY <1>6, FifoSettle DEF Fifo!Next
<1>7. CASE Requeue
  BY <1>7, FifoTakeBack DEF Fifo!Next
<1>8. CASE EnforceRetention
  BY <1>8, ArchiveSafe, NothingExpires
<1>9. CASE Close
  <2>1. mode = "open"
    BY <1>9 DEF Close
  <2>2. QED
    BY <1>9, <2>1, FifoStop DEF Fifo!Next
<1>10. CASE Crash
  <2>1. CASE mode = "open"
    BY <1>10, <2>1, FifoStop DEF Fifo!Next
  <2>2. CASE mode # "open"
    BY <1>10, <2>2, FifoCrashScanning
  <2>3. QED
    BY <2>1, <2>2
<1>11. CASE PowerLoss
  BY <1>11 DEF PowerLoss, Archived
<1>12. QED
  BY <1>1, <1>2, <1>3, <1>4, <1>5, <1>6, <1>7, <1>8, <1>9, <1>10, <1>11 DEF Next

\* The spool in archive mode implements the FIFO it promises, however often its process dies:
\* packets are handed out in the order Append took them, none is skipped, and a restart goes
\* back fewer than CursorSyncEvery confirmed packets (queue.go:1-12, 59-60).
THEOREM FifoSafe ==
    ASSUME Archived
    PROVE  Spec => ImplementsFifo
<1>1. Init => TypeInv /\ LossInv /\ ArchiveInv
  BY TypeInit, LossInit, ArchiveInit
<1>2. TypeInv /\ LossInv /\ [Next]_vars => TypeInv' /\ LossInv'
  BY TypeStep, LossStep, ArchiveSafe
<1>3. TypeInv /\ LossInv => HeadKnown
  BY HeadIs
<1>4. TypeInv /\ TypeInv' /\ LossInv /\ LossInv' /\ HeadKnown /\ HeadKnown' /\ ArchiveInv /\ [Next]_vars
        => ArchiveInv' /\ [Fifo!Next]_(Fifo!vars)
  BY FifoStep
<1>5. Init /\ HeadKnown => Fifo!Init
  <2>1. SUFFICES ASSUME Init, HeadKnown PROVE Fifo!Init
    OBVIOUS
  <2>2. PICK n, base, b, m : Archive(n, base, b, m)
    BY <2>1, ArchiveInit DEF ArchiveInv
  <2>3. /\ accepted = 0 /\ nextIdx = 0 /\ mode = "down" /\ ackSinceCS = 0 /\ acked = {}
    BY <2>1 DEF Init
  <2>4. HeadOf = b + ackSinceCS /\ LastConfirmed = m
    BY <2>1, <2>2 DEF HeadKnown
  <2>5. b \in Nat /\ m \in Nat /\ b + ackSinceCS <= m /\ m <= accepted
    BY <2>2 DEF Archive
  <2>6. HeadOf = 0 /\ LastConfirmed = 0
    BY <2>3, <2>4, <2>5
  <2>7. QED
    BY <2>3, <2>6 DEF Fifo!Init
<1>6. QED
  BY <1>1, <1>2, <1>3, <1>4, <1>5, PTL DEF Spec, ImplementsFifo, Fifo!Spec
=============================================================================
