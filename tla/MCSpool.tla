------------------------------ MODULE MCSpool ------------------------------
(***************************************************************************)
(* Instances of Spool for TLC.                                             *)
(***************************************************************************)
EXTENDS Spool

Burn == {NoRetention}                       \* confirmed segments are deleted
Archive == {KeepAll}                        \* nothing is deleted

CrashOnly == {"crash"}

\* The steps that exist in archive mode with process crashes: without power loss,
\* I/O errors and another policy the other steps of Next are never enabled.
ArchiveNext ==
    \/ Open \/ ScanSegment
    \/ AppendPacket \/ AppendFull
    \/ Deliver \/ Acknowledge \/ Requeue
    \/ Close \/ Crash

ArchiveSpec == Init /\ [][ArchiveNext]_vars /\ Fairness
=============================================================================
