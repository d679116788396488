\* Outside signals may interrupt the child anywhere, between the two
\* write() calls of a frame too: the parent still completes the case
\* and still collects all of the output.
CONSTANTS
  NULL = NULL
  CORRUPT = CORRUPT
  HeaderUnits <- MCHeaderUnits
  StageUnits <- MCStageUnits
  FailureUnits <- MCFailureUnits
  LenModulus <- MCLenModulus
  OutInitCap <- MCOutInitCap
  OutPipeCap <- MCOutPipeCap
  MaxOutput <- MCMaxOutput
  AsyncSignals = TRUE
  ExternalKills = FALSE
  PollFailures = FALSE
  SpawnFailures = FALSE
  BodyAllocFailures = FALSE
SPECIFICATION Spec
\* The run of one case ends when its result is reported.
CHECK_DEADLOCK FALSE
PROPERTY ImplementsCaseReport
