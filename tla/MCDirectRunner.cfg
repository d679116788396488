\* One case in the direct runner: every provider shape, every return, fail,
\* skip or signal of the module's code, up to two signals from outside, and
\* dup()/open()/mkstemp() failures (the case is then cancelled).  sigcapture__
\* and sigrestore__ succeed here: after their failures (run
\* sigcapture_failures) a signal of the module ends the process unreported.
CONSTANTS
  NULL = NULL
  MaxAsyncSignals = 2
  DupFailures = TRUE
  CaptureFailures = FALSE
SPECIFICATION Spec
\* The run of one case ends when its result is reported.
CHECK_DEADLOCK FALSE
INVARIANT DirectResultMatchesDriver
INVARIANT DriverOutcomeIsFirstAbort
INVARIANT DriverTeardownExactlyOnce
INVARIANT DriverFixtureLifetime
PROPERTY ImplementsCaseReport
