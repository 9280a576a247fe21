SPECIFICATION FairSpec
CONSTANTS
    se1 = se1
    se2 = se2
    src1 = src1
    push1 = push1
    push2 = push2
    probe1 = probe1
    probe2 = probe2
    NoProbe = NoProbe
    NoSession = NoSession
    SessionOwner <- AliceAndBob
    Sessions <- TwoSessions
    Existing <- TwoSessions
    Principals <- TwoPrincipals
    Probes <- BothProbes
    Sources <- OneSource
    Streams <- TwoStreams
    ChannelSize = 1
    MaxBatch = 2
    MaxPackets = 3
    MaxAssigns = 1
INVARIANTS
    NoSendOnClosed
    DeliveryRecorded
    BindingTruthful
PROPERTIES
    CloseReturns
CHECK_DEADLOCK FALSE
