\* ctest run / ctest ls with up to two suites, every allocation and every
\* libltdl call allowed to fail.
CONSTANTS
  Files <- MCFiles
  MaxArgs <- MCMaxArgs
  NULL = NULL
  AllocFailures = TRUE
  LtdlFailures = TRUE
SPECIFICATION MCSpec
\* The process exits.
CHECK_DEADLOCK FALSE
INVARIANT TypeOK
INVARIANT ExitReleasesLoadedSuites
INVARIANT ExitStatus
INVARIANT BuilderReleases
INVARIANT BuilderShape
