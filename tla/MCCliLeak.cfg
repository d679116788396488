\* Whether anything acquired while loading survives to the exit.
CONSTANTS
  Files <- MCFiles
  MaxArgs <- MCMaxArgs
  NULL = NULL
  AllocFailures = TRUE
  LtdlFailures = TRUE
SPECIFICATION Spec
\* The process exits.
CHECK_DEADLOCK FALSE
INVARIANT NoLeakAtExit
