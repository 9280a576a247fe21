SPECIFICATION Spec
CONSTANTS
  Streams <- TwoStreams
  x1 = x1
  x2 = x2
  c1 = c1
  c2 = c2
  Sessions = {x1}
  Calls = {c1, c2}
  Owner = Owner
  Admin = Admin
  Stranger = Stranger
  NoSession = NoSession
  SendCap = 1
  MaxCalls = 2
  MaxTokens = 1
  MaxLocal = 1
SYMMETRY CallSymmetry
CONSTRAINT NotWedged
INVARIANTS
  AcceptedWasExecuted
  
  
CHECK_DEADLOCK FALSE
