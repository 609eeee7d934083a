SPECIFICATION Spec
CONSTANTS
  PollAttempts = 2
  MaxFaults = 2
  MaxRivals = 1
  Requests <- MCRequests
INVARIANTS TypeOK ReportIsAccepted PrerequisitesPassed CleanupReportTellsResidue
PROPERTY OthersKept
CHECK_DEADLOCK FALSE
