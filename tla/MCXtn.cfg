SPECIFICATION LiveSpec
CONSTANTS
  MaxXtn = 2
  Block = {b1, b2}
  Thread = {z, h}
  Zero = z
  Handler = h
  MaxMore = 1
  NoBlock = NoBlock
INVARIANTS
  BlockHasOneUser
  AnswersOwnRecord
  StaleTimersStopped
PROPERTIES
  XtnEnds
CHECK_DEADLOCK FALSE
