SPECIFICATION FairSpec
CONSTANTS
  t1 = t1
  t2 = t2
  Timers = {t1, t2}
  NoTimer = NoTimer
  Service <- MCService
  PrepareTime = 1
  BackoffFirst = 1
  BackoffMax = 2
  DayLength = 4
  WeekLength = 2
  MaxDays = 6
  MaxWaitTime = 2
  AutoIncrease = 3
  Lead = 1
  Templates <- MixedTemplates
  UserOps = {"record", "toggle"}
  SwitchType = FALSE
  Settings <- EarlySettings
  Faults = {"prepare"}
  Budget <- MCBudget
  MaxFault = 1
  MaxJump = 1
  MaxCrash = 0
  MaxUser = 2
  MaxTime = 6
INVARIANT WakesInTime
PROPERTY NothingDueLeft
PROPERTY RefusalBacksOff
PROPERTY TimeOfDayKept
PROPERTY HandlerReturns
PROPERTY TimersEnd
CHECK_DEADLOCK FALSE
