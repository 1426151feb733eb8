SPECIFICATION LiveSpec
CONSTANTS
  MaxMsg = 3
  Chunks = 2
  Sender = {s1}
  Owner = own
  OwnerSends = TRUE
  Faults = TRUE
INVARIANTS
  TypeOK
  Accounted
  ReleasedOnce
PROPERTIES
  StreamOK
  OwnerServed
CHECK_DEADLOCK FALSE
