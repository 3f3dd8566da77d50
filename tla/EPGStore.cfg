SPECIFICATION Spec
CONSTANTS
  MaxId = 2
  LastTime = 3
  Durations = {1, 3}
  Sources = {1, 2}
  o1 = o1
  o2 = o2
  o3 = o3
  Objects = {o1, o2, o3}
  Null = Null
  Free = Free
  Slack = 1
  Horizon = 3
  Contents = {1, 2}
  MaxStarts = 1
  MovesOntoPrivate = FALSE
  MaxTime = 2
INVARIANT MapsAgree
INVARIANT RowsNamePrivate
PROPERTY ListingKept
CHECK_DEADLOCK FALSE
SYMMETRY MCSymmetry
