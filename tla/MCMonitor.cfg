SPECIFICATION FairSpec
CONSTANTS
  r1 = r1
  NoReader = NoReader
  EventReaders = {r1}
  MaxEvents = 3
  Backlogs = {0, 1, 2}
  MaxMonitors = 2
INVARIANTS
  Books
  EventReaderServed
  MonitorsOwned
  EventsInTime
PROPERTIES
  MonitorEnds
CHECK_DEADLOCK FALSE
