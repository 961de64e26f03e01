CONSTANTS
  MaxBase = 2
  MaxLength = 3
  MaxTerm = 2
  MaxServers = 4
SPECIFICATION Spec
INVARIANTS IndexBeforeTermIsLoop StaleLosesNothing SpliceIsExact MajorityIsGreatest
