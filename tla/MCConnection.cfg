SPECIFICATION FairSpec
CONSTANTS
  c1 = c1
  c2 = c2
  e1 = e1
  v1 = v1
  Conns = {c1, c2}
  Subs = {c1}
  Pausing = {c2}
  Endpoints = {e1}
  Values = {v1}
  MaxFilters = 2
  Plans <- MCPlans
INVARIANTS
  Books
  ReturnedWasMade
  LoopClosesSockets
PROPERTIES
  ConnectionsEnd
CHECK_DEADLOCK FALSE
