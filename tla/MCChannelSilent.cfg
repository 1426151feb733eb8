SPECIFICATION FairSpec
CONSTANTS
  Channel = {c1, c2}
  Datapath = {d1}
  Thread = {t1}
  AuxId = {0, 1}
  MaxRetries = 0
  Outcome <- MCSuccess
  NoChannel = NoChannel
  NoDp = NoDp
  App = App
PROPERTIES
  SilentChannelClosed
CHECK_DEADLOCK FALSE
