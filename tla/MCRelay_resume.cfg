SPECIFICATION RelSpec
CONSTANTS
  Phones = {p1}
  Directions = {"request", "response"}
  Filtered = {}
  Sources = {x, y}
  MaxEpochs = 2
  MaxChunks = 2
  MaxStreams = 3
  MaxInFlight = 1
  MaxBreaks = 1
INVARIANTS
  PushingRecovers
CHECK_DEADLOCK FALSE
