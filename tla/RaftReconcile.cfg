CONSTANTS
  Server = {s1, s2, s3}
  Value = {v}
  Nil = Nil
  TakeSnapshots = FALSE
  Timers = {s1}
  MaxTerm = 4
  MaxIndex = 1
  MaxInFlight = 1
  MaxCrashes = 0
SPECIFICATION DivergedSpec
SYMMETRY Symmetry
CHECK_DEADLOCK FALSE
PROPERTIES  RetryBacksOff
