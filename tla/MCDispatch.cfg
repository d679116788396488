\* Four cases, three tests, two suites, in every order; reporters and the
\* copy may fail to be allocated and the runner may fail.
CONSTANTS
  N <- MCN
  Tests = {t1, t2, t3}
  Suites = {s1, s2}
  NULL = NULL
  AllocFailures = TRUE
  RunErrors = TRUE
  Entries = {"testcases", "tests", "testsuites"}
SYMMETRY MCSymmetry
SPECIFICATION Spec
\* runner_run_testcases returns.
CHECK_DEADLOCK FALSE
INVARIANT TypeOK
INVARIANT PartitionCorrect
INVARIANT ReportersNeverRefuse
INVARIANT EachReporterOnce
INVARIANT DispatchOutcome
INVARIANT TestsPartitionCorrect
