\* An outside signal between the header and body of a frame.
CONSTANTS
  NULL = NULL
  CORRUPT = CORRUPT
  HeaderUnits <- MCHeaderUnits
  StageUnits <- MCStageUnits
  FailureUnits <- MCFailureUnits
  LenModulus <- MCLenModulus
  OutInitCap <- MCOutInitCap
  OutPipeCap <- MCOutPipeCap
  MaxOutput <- MCMaxOutput
  AsyncSignals = TRUE
  ExternalKills = TRUE
  PollFailures = TRUE
  SpawnFailures = TRUE
  BodyAllocFailures = FALSE
SPECIFICATION Spec
\* The run of one case ends when its result is reported.
CHECK_DEADLOCK FALSE
INVARIANT DecodedStreamMatchesWritten
