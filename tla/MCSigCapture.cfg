\* Two cases, each capturing and restoring three signals (one rejected with
\* EINVAL), with two signals raised from outside at any point, and
\* sigaction() failing with another errno in any loop.
CONSTANTS
  NSignals = 3
  Invalid <- MCInvalid
  Cases = 2
  MaxRaises = 2
  SigactionFailures = TRUE
SPECIFICATION Spec
\* The client stops after its last case.
CHECK_DEADLOCK FALSE
INVARIANT TypeOK
INVARIANT RestoreRoundTrip
