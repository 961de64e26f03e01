\* Every history of three operations on two keys, and a timeout.
SPECIFICATION FairSpec
CONSTANTS
  Key = {x, y}
  Value = {a}
  None = None
  NOps = 3
  MaxOut = 2
  MayTimeOut = TRUE
INVARIANTS ResultRight ListIsRest
PROPERTIES CheckReturns
CHECK_DEADLOCK FALSE
