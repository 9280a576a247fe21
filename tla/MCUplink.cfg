SPECIFICATION BothSpec
CONSTANTS
    Params = {"all", "port"}
    BatchSize = 2
    ChanCap = 2
    Quota = 2
    MaxUpRuns = 2
    MaxPackets = 3
    MaxBreaks = 2
    MaxUpdates = 1
INVARIANTS
    PushedInOrder
    RunsTruthful
PROPERTIES
    EverythingArrives
    CaptureNoticed
CHECK_DEADLOCK FALSE
