SPECIFICATION LiveSpec
CONSTANTS
  Timer = {t1, t2}
  Size <- ThreeWheels
  G = 2
  TmrTime = 128
  Request <- EveryWheel
  MaxTick = 20
INVARIANTS TypeOK LongOnTime
PROPERTIES TimersOK RemoteStopEffective
CHECK_DEADLOCK FALSE
