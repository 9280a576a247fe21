SPECIFICATION ArchiveSpec
CONSTANTS
    Retentions <- Archive
    Faults <- CrashOnly
    MaxPackets = 6
    MaxBatch = 2
    CursorSyncEvery = 3
    SegBytes = 2
    MaxBytes = 3
    MaxDropped = 1
    MaxDowns = 3
    SyncWindow = 1
INVARIANTS
    NoLoss
PROPERTIES
    ImplementsFifo
    EventuallyConfirmed
CHECK_DEADLOCK FALSE
