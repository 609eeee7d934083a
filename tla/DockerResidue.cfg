SPECIFICATION Spec
CONSTANTS
  PollAttempts = 2
  MaxFaults = 1
  MaxRivals = 0
  Requests <- MCRequests
INVARIANT PassedLeavesNothing
CHECK_DEADLOCK FALSE
