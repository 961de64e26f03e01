\* Two clerks, which call at the same time and try a server twice before the next.
CONSTANTS
  Key = {k}
  Value = {v}
  Clerk = {c, d}
  Goroutine = {g}
  None = None
  N = 2
  TRITIME = 2
  TakeSnapshots = FALSE
  MaxCalls = 1
  MaxSent = 3
  MaxLog = 2
  MaxRestarts = 0
SPECIFICATION Spec
SYMMETRY Symmetry
CHECK_DEADLOCK FALSE
PROPERTIES Linearizable
