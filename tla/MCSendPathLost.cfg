SPECIFICATION LiveSpec
CONSTANTS
  MaxMsg = 2
  Chunks = 2
  Sender = {s1}
  Owner = own
  OwnerSends = FALSE
  Faults = FALSE
PROPERTIES
  WaitingSent
CHECK_DEADLOCK FALSE
