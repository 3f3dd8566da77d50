SPECIFICATION Spec
CONSTANTS
  Tuners = {t1, t2}
  Ids = {i1, i2, i3}
  Raw = Raw
  None = None
  Services = {live, rec, str}
  Recordings = {rec, str}
  Streams = {str}
  MaxFaults = 2
INVARIANT UsesCounted
INVARIANT TunedWhenOk
INVARIANT HoldsWhatItNeeds
INVARIANT RunsInAnyOrder
CHECK_DEADLOCK FALSE
SYMMETRY Symmetry
