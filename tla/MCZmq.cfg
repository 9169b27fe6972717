SPECIFICATION FairSpec
CONSTANTS
  MaxWrites = 3
  MaxIn = 2
  MaxRoom = 2
  Bytes <- MCBytes
  Limits <- MCLimits
  Nested <- Cooperative
INVARIANTS
  Books
  EndsInOrder
  Registered
PROPERTIES
  NoDataAfterClose
  ContractSpec
  Progress
CHECK_DEADLOCK FALSE
