SPECIFICATION Spec
CONSTANTS
  n1 = n1
  n2 = n2
  n3 = n3
  b0 = b0
  b1 = b1
  Node = {n1, n2, n3}
  Bucket = {b0, b1}
  Bucket0 = b0
  MaxNodes = 2
  MagicMod = 4
  Proc = {p1, p2}
  RefDeleter = {p1, p2}
  NodeDeleter = {}
  Inserter = {}
  Null = Null
INVARIANTS
  DeletesSafe
CHECK_DEADLOCK FALSE
