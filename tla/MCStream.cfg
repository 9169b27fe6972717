SPECIFICATION FairSpec
CONSTANTS
  r1 = r1
  d1 = d1
  d2 = d2
  Nobody = Nobody
  Readers = {r1}
  Drainers = {d1, d2}
  MaxIn = 3
  Bytes <- SomeBytes
  Limits <- MCLimits
  Kinds = {"zmq", "loopless"}
INVARIANTS
  Books
  WaitersKnown
PROPERTIES
  ContractSpec
  Progress
CHECK_DEADLOCK FALSE
