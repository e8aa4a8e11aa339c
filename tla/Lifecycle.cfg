\* Three changes through channels of one, two runs on one context.
SPECIFICATION FairSpec
CONSTANTS
  ChannelSize = 1
  WatcherSize = 0
  MaxChanges = 3
  MaxRuns = 2
INVARIANTS TypeOK NoLostWakeUps OnlyFailedCallsFailRuns RefusalsStayTyped StatusNamesAnActivity
PROPERTIES CancelledRunsEnd ChangesAreNoted
CHECK_DEADLOCK FALSE
