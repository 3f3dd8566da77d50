SPECIFICATION FairSpec
CONSTANTS
  Channels = {c1}
  NoChannel = NoChannel
  Readers = {r1}
  ReusesAddress = FALSE
  MaxEvents = 5
CHECK_DEADLOCK FALSE
PROPERTY LeaveHandled
