SPECIFICATION FairSpec
CONSTANTS
  Channels = {c1, c2}
  NoChannel = NoChannel
  Readers = {r1, r2}
  ReusesAddress = FALSE
  MaxEvents = 8
INVARIANT DeletedNotArmed
PROPERTY ReleaseReturns
PROPERTY WaitingIsStarted
CHECK_DEADLOCK FALSE
