SPECIFICATION Spec
CONSTANTS
  Timer = {t1, t2}
  Size <- ThreeWheels
  G = 2
  TmrTime = 128
  Request <- EveryWheel
  MaxTick = 26
INVARIANTS ExpiredCalled
CHECK_DEADLOCK FALSE
