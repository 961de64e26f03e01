\* Two servers, of which one is started again, and a call from a server or a clerk.
SPECIFICATION FairSpec
CONSTANTS
  Call = {c}
  Client = {k}
  N = 2
  unreliable = TRUE
  MaxStarts = 3
  None = None
  Name <- MCName
  Instance <- MCInstance
  End <- MCEnd
INVARIANTS TypeOK OldEndsSilent AcknowledgedSurvive PartitionIsolates
PROPERTIES KilledCallReturns CallReturns
CHECK_DEADLOCK FALSE
