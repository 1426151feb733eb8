SPECIFICATION LiveSpec
CONSTANTS
  MaxMsg = 2
  Lens = {2, 5, 6, 10}
  Kinds = {"async", "sync", "none", "unknown", "version"}
  HdrLen = 2
  Byte8 = 4
  DrainLen = 2
  StartLimit = 2
  WaitLimit = 2
  BigEndian = FALSE
  MayDiscard = TRUE
INVARIANTS
  TypeOK
  HandedIntact
  InStep
PROPERTIES
  WaitEnds
CHECK_DEADLOCK FALSE
