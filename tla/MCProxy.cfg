SPECIFICATION ProxySpec
CONSTANTS
  NoPort = NoPort
  Callers = {c1, c2}
  Owners = {alice}
  AgentPorts = {a1}
  CtrlPorts = {k1, k2}
  GrpcPorts = {g1}
  MaxLeasesPerOwner = 1
  MaxLeases = 2
  MaxLeaseSessions = 2
  Phones = {p1}
  Directions = {"request", "response"}
  Filtered = {}
  Sources = {x, y}
  MaxEpochs = 2
  MaxChunks = 2
  MaxStreams = 2
  MaxInFlight = 1
  MaxBreaks = 0
  DevCallers = {c1, c2}
  MaxAttempts = 3
  MaxLaunches = 2
  MaxEdits = 1
  MaxInstances = 1
  SesUsers = {u1, u2}
  FirstUsers = {u1}
  MaxSes = 2
  MaxKeep = 1
  MaxMcp = 1
  MaxCrashes = 1
INVARIANTS
  ResourcesAccounted
  RelayedApart
  NothingUnannounced
  DevHonest
  
PROPERTIES
  ClearedWhenEnded
SYMMETRY Symmetry
CHECK_DEADLOCK FALSE
