CONSTANTS
  Server = {s1, s2}
  Value = {v}
  Nil = Nil
  TakeSnapshots = TRUE
  Timers = {s1}
  MaxTerm = 1
  MaxIndex = 2
  MaxInFlight = 2
  MaxCrashes = 1
SPECIFICATION Spec
SYMMETRY Symmetry
CHECK_DEADLOCK FALSE
INVARIANTS ServiceInOrder
