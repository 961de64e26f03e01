CONSTANTS
  Server = {s1, s2}
  Value = {v, w}
  Nil = Nil
  TakeSnapshots = FALSE
  Timers = {s1, s2}
  MaxTerm = 2
  MaxIndex = 1
  MaxInFlight = 2
  MaxCrashes = 0
SPECIFICATION Spec
SYMMETRY Symmetry
CHECK_DEADLOCK FALSE
INVARIANTS CommittedAgree
