SPECIFICATION FairSpec
CONSTANTS
  Streams <- OneStream
  x1 = x1
  x2 = x2
  c1 = c1
  c2 = c2
  Sessions = {x1}
  Calls = {c1}
  Owner = Owner
  Admin = Admin
  Stranger = Stranger
  NoSession = NoSession
  SendCap = 1
  MaxCalls = 1
  MaxTokens = 1
  MaxLocal = 0
PROPERTY
  CallsReturn
CHECK_DEADLOCK FALSE
