\* sigaction() failing with an errno other than EINVAL, in either loop.
CONSTANTS
  NSignals = 3
  Invalid <- MCInvalid
  Cases = 2
  MaxRaises = 2
  SigactionFailures = TRUE
SPECIFICATION Spec
\* The client stops after its last case.
CHECK_DEADLOCK FALSE
INVARIANT HandlerCallsCurrentCase
