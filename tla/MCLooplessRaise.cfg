SPECIFICATION FairSpec
CONSTANTS
  MaxWrites = 2
  MaxIn = 2
  MaxRoom = 1
  MaxDepth = 1
  MaxQueue = 1
  Bytes <- MCBytes
  Limits <- OneLimit
  Nested <- NoNesting
  Quirks <- RaiseOnly
PROPERTIES
  MessagesDelivered
CHECK_DEADLOCK FALSE
