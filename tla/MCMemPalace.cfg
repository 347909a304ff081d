CONSTANTS
  Streams = {monday, tuesday}
  Offline = Offline
  EventCap = 1
  MaxSessions = 2
  MaxTime = 1
SPECIFICATION FairPalaceSpec
INVARIANTS SessionsAreKept LeaksAreExplained
PROPERTY EndedIsClosed
CHECK_DEADLOCK FALSE
