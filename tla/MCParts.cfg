SPECIFICATION AllSpec
CONSTANTS
  NoProject = NoProject
  NoOne = NoOne
  Users = {ann, bob}
  GlobalAdmins = {}
  ProjectIds = {p1}
  Sessions = {s1}
  ProjCallers = {c1, c2}
  MaxProjCalls = 4
  MaxRestarts = 1
  Names = {ann, bob, boss}
  EnvNames = {boss}
  Codes = {code}
  AccCallers = {c1, c2}
  Anonymous = Anonymous
  NoName = NoName
  MaxTokens = 3
  RunCallers = {c1, c2}
  MaxRuns = 3
  MaxRunFaults = 2
  Streams = {s1, s2}
  Readers = {s1}
  Cancellers = {s1}
  Talkers = {s1}
  QueueSize = 1
  MaxResponses = 1
  Retentions <- Switching
  Faults <- AllFaults
  MaxPackets = 4
  MaxBatch = 2
  CursorSyncEvery = 2
  SegBytes = 2
  MaxBytes = 3
  MaxDropped = 1
  MaxDowns = 2
  SyncWindow = 1
  Drivers = {"sqlite", "postgres"}
  Captured <- SqlPackets
  CapSessions = {"s1", "s2"}
  EventTypes = {"plain", "change"}
  Ports <- PortsOf
  EventIds <- TwoIds
  MaxMetrics = 1
  MaxClears = 1
  MaxLost = 1
  Openers = {"pipeline", "mcp"}
  OldRows = {1, 2, 3}
  FirstNew = 100
  BadRows = {2}
  OpenBatch = 2
  MaxNewRows = 2
  MaxStops = 2
  DecCalls = {c1, c2}
  DecPackets = 3
  RawBatch = 2
  MaxDecFaults = 1
  MaxVerified = 2
  MaxShifts = 1
  Messages <- TrcMessages
  Protocols <- TrcProtocols
  PendingLimit = 1
  Delays <- TrcDelays
  MaxEvents = 3
  PairWindow = 2
  RelatedWindow = 5
  FlowLimit = 4
  NoValue = "absent"
  Decoded <- EvDecoded
  Extra <- EvLeaves
  EvKeys = {"id"}
  Mantissa = 4
  MaxInt = 8
  MaxSequence = 1
  MaxBuilt = 3
  MaxMs = 2
  PrbUsers = {"ann", "bob"}
  Hostnames = {"h1", "h2"}
  PrbNames = {"h1"}
  PrbCalls = {1, 2}
  PrbSegments = {1, 2}
  PrbWindows = {{1}, {2}}
  MaxRows = 2
  MaxHandled = 3
INVARIANTS
  AckedWereDelivered
  OnlyInvited
  TokensKept
  OpenRunsSurvive
  AnswersExact
  OpenedIsOrdered
  
  VerdictByPacket
  
  EventsKept
  
  
  NobodyHangs
CHECK_DEADLOCK FALSE
