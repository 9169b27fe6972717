SPECIFICATION Spec
CONSTANTS
  s1 = s1
  s2 = s2
  MaxCalls = 3
  MaxId = 1
  Servers = {s1, s2}
  Closers = {}
  Timeouts = TRUE
  Cancels <- CallCancels
  Outcomes <- Quiet
  Lossy = TRUE
INVARIANTS
  Books
  AnswersMatch
  AtMostOnce
PROPERTIES
  ContractSpec
CHECK_DEADLOCK FALSE
