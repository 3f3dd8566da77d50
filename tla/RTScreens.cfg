SPECIFICATION Spec
CONSTANTS
  t1 = t1
  t2 = t2
  Timers = {t1, t2}
  NoTimer = NoTimer
  Service <- MCService
  PrepareTime = 1
  BackoffFirst = 1
  BackoffMax = 2
  DayLength = 4
  WeekLength = 2
  MaxDays = 6
  MaxWaitTime = 3
  AutoIncrease = 3
  Lead = 1
  Templates <- AllTemplates
  UserOps = {"record", "instant", "remove", "setend", "edit", "toggle", "conflict", "cleanup", "shutdown"}
  SwitchType = TRUE
  Settings <- AllSettings
  Faults = {}
  Budget <- MCBudget
  MaxFault = 0
  MaxJump = 0
  MaxCrash = 1
  MaxUser = 3
  MaxTime = 4
INVARIANT SavedCoversKnown
INVARIANT ListsConsistent
INVARIANT RemoveFindsEntry
CHECK_DEADLOCK FALSE
