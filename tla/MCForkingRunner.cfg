\* One case in the forking runner: every provider shape, pipe/fork and
\* poll failures, the child killed from outside; no outside signal.
CONSTANTS
  NULL = NULL
  CORRUPT = CORRUPT
  HeaderUnits <- MCHeaderUnits
  StageUnits <- MCStageUnits
  FailureUnits <- MCFailureUnits
  LenModulus <- MCLenModulus
  OutInitCap <- MCOutInitCap
  OutPipeCap <- MCOutPipeCap
  MaxOutput <- MCMaxOutput
  AsyncSignals = FALSE
  ExternalKills = TRUE
  PollFailures = TRUE
  SpawnFailures = TRUE
  BodyAllocFailures = FALSE
SPECIFICATION Spec
\* The run of one case ends when its result is reported.
CHECK_DEADLOCK FALSE
INVARIANT TypeOK
INVARIANT DecodedStreamMatchesWritten
INVARIANT ReportedResultMatchesDriver
INVARIANT OutputDelivered
PROPERTY ImplementsCaseReport
