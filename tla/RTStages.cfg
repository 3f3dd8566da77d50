SPECIFICATION Spec
CONSTANTS
  t1 = t1
  t2 = t2
  Timers = {t1, t2}
  NoTimer = NoTimer
  Service <- MCService
  PrepareTime = 1
  BackoffFirst = 1
  BackoffMax = 2
  DayLength = 4
  WeekLength = 2
  MaxDays = 6
  MaxWaitTime = 3
  AutoIncrease = 3
  Lead = 1
  Templates <- MixedTemplates
  UserOps = {"record", "remove", "toggle", "retry"}
  SwitchType = FALSE
  Settings <- AllSettings
  Faults = {"prepare", "start"}
  Budget <- MCBudget
  MaxFault = 1
  MaxJump = 0
  MaxCrash = 0
  MaxUser = 3
  MaxTime = 6
INVARIANT ServiceMatchesState
PROPERTY DisabledNeverPrepared
PROPERTY FollowsLifecycle
CHECK_DEADLOCK FALSE
