\* One handler; the service is killed at any moment, or never.
SPECIFICATION FairSpec
CONSTANTS
  Handler = {h}
  MaxCommit = 3
  TooBig = {1, 2}
INVARIANTS TypeOK
PROPERTIES  CommittedApplied StartReturnsAlive
CHECK_DEADLOCK FALSE
