\* Two goroutines share a clerk; a server is restarted, from a snapshot or from nothing.
CONSTANTS
  Key = {k}
  Value = {v}
  Clerk = {c}
  Goroutine = {g, h}
  None = None
  N = 2
  TRITIME = 1
  TakeSnapshots = TRUE
  MaxCalls = 2
  MaxSent = 2
  MaxLog = 2
  MaxRestarts = 1
SPECIFICATION Spec
SYMMETRY Symmetry
CHECK_DEADLOCK FALSE
INVARIANTS TypeOK OneOutstanding ExactlyOnce
PROPERTIES Linearizable
