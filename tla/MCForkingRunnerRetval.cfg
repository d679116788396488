\* The value runner_run_testcase__ returns for every way a case can end.
CONSTANTS
  NULL = NULL
  CORRUPT = CORRUPT
  HeaderUnits <- MCHeaderUnits
  StageUnits <- MCStageUnits
  FailureUnits <- MCFailureUnits
  LenModulus <- MCLenModulus
  OutInitCap <- MCOutInitCap
  OutPipeCap <- MCOutPipeCap
  MaxOutput <- MCMaxOutput
  AsyncSignals = FALSE
  ExternalKills = TRUE
  PollFailures = TRUE
  SpawnFailures = TRUE
  BodyAllocFailures = FALSE
SPECIFICATION Spec
\* The run of one case ends when its result is reported.
CHECK_DEADLOCK FALSE
INVARIANT RetvalMatchesResult
