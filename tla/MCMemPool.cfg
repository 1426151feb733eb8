SPECIFICATION Spec
CONSTANTS
  Block = {b1, b2, b3, b4, b5, b6}
  Worker = {w1, w2}
  Other = {m1}
  StaticBlocks = 5
  HeapAllowed = 2
  ThresholdMin = 1
  ThresholdMax = 3
  ReplenishCount = 2
  MoveCount = 2
  CallocFails = TRUE
SYMMETRY Alike
INVARIANTS CountsExact WithinLimits
PROPERTIES HeapOnlyWhenFull
