\* The direct runner returns 1 for a skipped case.
CONSTANTS
  NULL = NULL
  MaxAsyncSignals = 2
  DupFailures = FALSE
  CaptureFailures = FALSE
SPECIFICATION Spec
CHECK_DEADLOCK FALSE
INVARIANT DirectRetvalMatchesResult
