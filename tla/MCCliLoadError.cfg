\* No allocation or libltdl failure: only a named file that is not a suite.
CONSTANTS
  Files <- MCFiles
  MaxArgs <- MCMaxArgs
  NULL = NULL
  AllocFailures = FALSE
  LtdlFailures = FALSE
SPECIFICATION Spec
\* The process exits.
CHECK_DEADLOCK FALSE
INVARIANT LoadErrorOmitsModule
