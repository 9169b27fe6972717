SPECIFICATION Spec
CONSTANTS
  MaxWrites = 3
  MaxIn = 2
  MaxRoom = 1
  MaxDepth = 2
  MaxQueue = 2
  Bytes <- MCBytes
  Limits <- MCLimits
  Nested <- Anything
  Quirks <- AllQuirks
INVARIANTS
  Books
  SoonCallQueued
PROPERTIES
  ContractSpec
CHECK_DEADLOCK FALSE
