SPECIFICATION FairSpec
CONSTANTS
  n1 = n1
  n2 = n2
  n3 = n3
  b0 = b0
  b1 = b1
  Node = {n1, n2, n3}
  Bucket = {b0, b1}
  Bucket0 = b0
  MaxNodes = 2
  MagicMod = 4
  Proc = {p1, p2}
  RefDeleter = {p1}
  NodeDeleter = {p1, p2}
  Inserter = {p1}
  Null = Null
CONSTRAINT NodesInOrder
INVARIANTS
  TypeOK
  NodeDeletesSafe
  SlotsConserved
  RefResolves
  StaleRefDead
  ListsExact
  ScanComplete
  HeldNotFreed
PROPERTIES
  Reclaimed
CHECK_DEADLOCK FALSE
