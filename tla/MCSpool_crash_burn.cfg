SPECIFICATION Spec
CONSTANTS
    Retentions <- Burn
    Faults <- CrashOnly
    MaxPackets = 4
    MaxBatch = 2
    CursorSyncEvery = 3
    SegBytes = 2
    MaxBytes = 3
    MaxDropped = 1
    MaxDowns = 2
    SyncWindow = 1
INVARIANTS
    NoLoss
CHECK_DEADLOCK FALSE
