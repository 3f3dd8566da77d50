SPECIFICATION FairSpec
CONSTANTS
  a = a
  b = b
  c = c
  Timers = {a, b, c}
  Plans <- MCPlans
  SleepTimes = {None, 5}
  SleepAction = "shutdown"
  Ask = TRUE
  Prepare = 1
  Backoff = 1
  Question = 1
  Soon = 6
  NoLead = 5
  Lead = 4
  Restart = 1
  BootTime = 2
  MaxUser = 2
  MaxFaults = 1
  MaxTime = 28
  None = None
INVARIANT StartsInTime
PROPERTY NeverCutsUnasked
PROPERTY GoesDown
CHECK_DEADLOCK FALSE
