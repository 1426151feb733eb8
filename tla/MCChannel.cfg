SPECIFICATION Spec
CONSTANTS
  Channel = {c1, c2}
  Datapath = {d1}
  Thread = {t1, t2}
  AuxId = {0, 1}
  MaxRetries = 0
  Outcome <- MCOutcome
  NoChannel = NoChannel
  NoDp = NoDp
  App = App
CONSTRAINT Reduced
SYMMETRY MCSymmetry
INVARIANTS
  BoundIsWatched
  TimerHasDatapath
  EchoFindsChannel
  MainRefAttached
  AuxRefSafe
  ActiveHasMain
PROPERTIES
  ClosedForever
CHECK_DEADLOCK FALSE
