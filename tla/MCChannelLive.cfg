SPECIFICATION FairSpec
CONSTANTS
  Channel = {c1}
  Datapath = {d1}
  Thread = {t1, t2}
  AuxId = {0, 1}
  MaxRetries = 3
  Outcome <- MCOutcome
  NoChannel = NoChannel
  NoDp = NoDp
  App = App
PROPERTIES
  SilentChannelClosed
  ClosedIsFreed
CHECK_DEADLOCK FALSE
