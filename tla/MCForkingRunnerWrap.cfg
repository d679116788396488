\* A failure whose serialized size reaches 2^16 bytes.
CONSTANTS
  NULL = NULL
  CORRUPT = CORRUPT
  HeaderUnits <- MCHeaderUnits
  StageUnits <- MCStageUnits
  FailureUnits <- MCFailureUnits
  LenModulus <- MCWrappingModulus
  OutInitCap <- MCOutInitCap
  OutPipeCap <- MCOutPipeCap
  MaxOutput <- MCMaxOutput
  AsyncSignals = FALSE
  ExternalKills = TRUE
  PollFailures = TRUE
  SpawnFailures = TRUE
  BodyAllocFailures = FALSE
SPECIFICATION Spec
\* The run of one case ends when its result is reported.
CHECK_DEADLOCK FALSE
INVARIANT DecodedStreamMatchesWritten
