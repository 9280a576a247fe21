------------------------------ MODULE RawTime ------------------------------
(***************************************************************************)
(* Opening a session's SQLite file of an older version: init migrates the  *)
(* text times of its raw packets to integers, in batches, and then sets    *)
(* user_version so that it is done once.  gt-pipeline and gt-mcp may open  *)
(* the file at the same time, and either may be stopped at any point.      *)
(*                                                                         *)
(* SQLite sorts every integer before every text, so the order of the       *)
(* packets is right only when no text is left.                             *)
(***************************************************************************)
EXTENDS Integers, FiniteSets

CONSTANTS
    Openers,        \* processes that open the file
    OldRows,        \* packets of the old version: their times
    BadRows,        \* those whose time cannot be parsed
    OpenBatch,      \* batchSize
    FirstNew,       \* the time of the first packet captured afterwards
    MaxNewRows,     \* bound: packets appended afterwards
    MaxStops        \* bound: processes stopped

ASSUME RawAssumption == FirstNew \in Nat /\ \A r \in OldRows : r \in Nat /\ r < FirstNew

VARIABLES
    textual,        \* rows whose time is text
    stamped,        \* row -> integer time, of the others
    userVersion,
    opener,         \* process -> closed, migrating (its batch), open
    fetched,        \* process -> the rows of the batch it read
    stops

rawVars == <<textual, stamped, userVersion, opener, fetched, stops>>

Closed == "closed"
RawInit ==
    /\ textual = OldRows /\ stamped = <<>>
    /\ userVersion = 0
    /\ opener = [p \in Openers |-> Closed] /\ fetched = [p \in Openers |-> {}]
    /\ stops = MaxStops

\* scanPacketTime and rawTimestamp: what cannot be parsed becomes zero.
rawTimestamp(r) == IF r \in BadRows THEN 0 ELSE r

\* NewSQLiteStore: tables, columns and indexes are made if they are missing; the
\* migration is skipped when the file says it was done.
NewSQLiteStore(p) ==
    /\ opener[p] = Closed
    /\ opener' = [opener EXCEPT ![p] = IF userVersion = 1 THEN "open" ELSE "scan"]
    /\ UNCHANGED <<textual, stamped, userVersion, fetched, stops>>

\* migrateRawTimestamps: a batch of rows that are not integers, in no order.
ScanBatch(p) ==
    /\ opener[p] = "scan" /\ textual # {}
    /\ \E b \in SUBSET textual :
          /\ Cardinality(b) = IF Cardinality(textual) < OpenBatch THEN Cardinality(textual) ELSE OpenBatch
          /\ fetched' = [fetched EXCEPT ![p] = b]
    /\ opener' = [opener EXCEPT ![p] = "update"]
    /\ UNCHANGED <<textual, stamped, userVersion, stops>>

\* One transaction; a row the other process has updated gets the same value.
UpdateBatch(p) ==
    /\ opener[p] = "update"
    /\ textual' = textual \ fetched[p]
    /\ stamped' = [r \in DOMAIN stamped \cup fetched[p] |->
                      IF r \in fetched[p] THEN rawTimestamp(r) ELSE stamped[r]]
    /\ fetched' = [fetched EXCEPT ![p] = {}]
    /\ opener' = [opener EXCEPT ![p] = "scan"]
    /\ UNCHANGED <<userVersion, stops>>

\* The version is set when a scan finds nothing more.
NoneLeft_OneBatch(p) == DOMAIN stamped # {}
NoneLeft(p) == textual = {}
SetVersion(p) ==
    /\ opener[p] = "scan" /\ NoneLeft(p)
    /\ userVersion' = 1
    /\ opener' = [opener EXCEPT ![p] = "open"]
    /\ UNCHANGED <<textual, stamped, fetched, stops>>

\* A packet captured now.
AppendStamped(p) ==
    LET r == FirstNew + Cardinality(DOMAIN stamped \ OldRows) IN
    /\ opener[p] = "open" /\ r < FirstNew + MaxNewRows
    /\ stamped' = [x \in DOMAIN stamped \cup {r} |-> IF x = r THEN r ELSE stamped[x]]
    /\ UNCHANGED <<textual, userVersion, opener, fetched, stops>>

\* The process is stopped, or closes the store.
StopsOrCloses(p) ==
    /\ opener[p] # Closed /\ stops > 0
    /\ stops' = stops - 1
    /\ opener' = [opener EXCEPT ![p] = Closed]
    /\ fetched' = [fetched EXCEPT ![p] = {}]
    /\ UNCHANGED <<textual, stamped, userVersion>>

RawNext ==
    \E p \in Openers : \/ NewSQLiteStore(p) \/ ScanBatch(p) \/ UpdateBatch(p) \/ SetVersion(p)
                       \/ AppendStamped(p) \/ StopsOrCloses(p)

RawSpec == RawInit /\ [][RawNext]_rawVars

\* A store that is open reads its packets in the order they were captured: no text
\* is left to sort behind the integers, whichever process migrated which batch and
\* wherever one was stopped, and no packet of the old version lost its time.
OpenedIsOrdered ==
    (\E p \in Openers : opener[p] = "open") =>
        textual = {} /\ \A r \in OldRows : stamped[r] = rawTimestamp(r)
=============================================================================
