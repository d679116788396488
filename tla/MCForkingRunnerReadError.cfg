\* One case in the forking runner whose failure body cannot be allocated:
\* the reader then drops the body, and its next read() into NULL + offset
\* fails.  No other fault, so the child always runs to its own exit.
CONSTANTS
  NULL = NULL
  CORRUPT = CORRUPT
  HeaderUnits <- MCHeaderUnits
  StageUnits <- MCStageUnits
  FailureUnits <- MCFailureUnits
  LenModulus <- MCLenModulus
  OutInitCap <- MCOutInitCap
  OutPipeCap <- MCOutPipeCap
  MaxOutput <- MCMaxOutput
  AsyncSignals = FALSE
  ExternalKills = FALSE
  PollFailures = FALSE
  SpawnFailures = FALSE
  BodyAllocFailures = TRUE
SPECIFICATION Spec
\* The run of one case ends when its result is reported (or the parent dies).
CHECK_DEADLOCK FALSE
INVARIANT ReadFailureIsError
