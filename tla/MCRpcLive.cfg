SPECIFICATION FairHandlersSpec
CONSTANTS
  s1 = s1
  c1 = c1
  c2 = c2
  MaxCalls = 2
  MaxId = 2
  Servers = {s1}
  Closers = {c1, c2}
  Timeouts = FALSE
  Cancels <- CloserCancels
  Outcomes <- Plain
  Lossy = FALSE
INVARIANTS
  NobodyForgotten
PROPERTIES
  CallsEnd
CHECK_DEADLOCK FALSE
