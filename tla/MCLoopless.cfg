SPECIFICATION FairSpec
CONSTANTS
  MaxWrites = 2
  MaxIn = 2
  MaxRoom = 1
  MaxDepth = 2
  MaxQueue = 1
  Bytes <- MCBytes
  Limits <- OneLimit
  Nested <- Cooperative
  Quirks <- NoQuirks
INVARIANTS
  NoLostWakeup
  EndsInOrder
PROPERTIES
  Progress
CHECK_DEADLOCK FALSE
