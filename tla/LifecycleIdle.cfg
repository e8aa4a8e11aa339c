\* One change and one run: what Idle is said to mean, and what it says.
SPECIFICATION Spec
CONSTANTS
  ChannelSize = 1
  WatcherSize = 0
  MaxChanges = 1
  MaxRuns = 1
INVARIANTS IdleMeansNotSyncing
CHECK_DEADLOCK FALSE
