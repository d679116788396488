# TLA+ models of the ctest execution engine

This directory holds TLA+ models of the ctest test runner in `src/`, the TLC
configurations that check them, and `PROJECT.json`. `PROJECT.json` maps every
definition to the lines of C it models and lists the runs, mutants, findings and
hazards. Each module is translated from the code; the line ranges are in its `map`.

## The system

`ctest` (`src/src/cli/main.c`) loads test modules (shared objects), each
holding one suite of tests of test cases, and runs them:

1. **The front end** (`main.c`) parses the options and the command. For
   `run` it loads every named suite (`loader.c`: libltdl, symbol lookup, the
   test and case objects), creates a console reporter and a runner, dispatches,
   destroys everything and turns the failure count into the exit status.
   `ls` lists the suites.
2. **Dispatch** (`runner_utils.c`) has three entry points: the selected cases
   (`runner_run_testcases`), the selected tests (`runner_run_tests`) or the
   selected suites (`runner_run_testsuites`).
   * It reorders the cases or tests so that each suite's members are adjacent
     (`repartition_testcases__`, `repartition_tests__`).
   * It opens a suite reporter and a test reporter around each run.
   * It counts the failed cases.
3. **A runner** runs one case and reports its result to a test-case reporter:
   * the *direct runner* (`direct_runner.c`) runs the case in-process and
     recovers from signals with `sigsetjmp`/`siglongjmp`;
   * the *forking runner* (`forking_runner.c`) forks a child. The child sends
     stage changes and failures as framed *events* on a pipe (`exec_events.c`)
     and writes its output to a second pipe. The parent polls both pipes,
     decodes the events, collects the output (`output_reader.c`, `output.c`),
     reaps the child and builds the result.
   Both runners install a process-wide signal capture (`sig.c`).
4. **The test-case driver** (`testcase_op_execute__`, `loader.c`) runs setup,
   body and teardown and announces each stage through the runner's hooks. It
   handles the fixture and installs the *dynamic-ops cell* through which the
   module's `ctest_fail`/`ctest_skip` (`stub.c`) abort the case.
5. **Failures** (`failure.c`, `location.c`, `stacktrace.c`) are single
   allocated blocks holding the description, location and stack trace. The
   forking child serializes them into an event body with relative pointers, and
   the parent deserializes them.
6. **The console reporter** (`console_reporter.c`) prints the results.
7. **The in-memory testing suite** (`testing_testsuite.c`,
   `ctest_create_testing_testsuite`) is a library entry point. It builds a suite
   with one test for each non-empty combination of five case kinds, to exercise
   runners and reporters.

## Modules

| Module | Models | State | Actions |
|---|---|---|---|
| `TestcaseDriver` | `testcase_op_execute__`, `dynamic_ops_abort__`, `report_failure`, `stub.c` | driver pc, stage, first failure and abort type, teardown pending, fixture (none/stack/heap/freed), the module's cell, histories of hook calls, reports, aborts and teardown runs | `Step` (each return, fail, skip of setup, body and teardown, nested aborts included), `Signal` (the module's code raises a signal) |
| `CaseReport` | the test-case reporter protocol (`reporter.h`, `console_reporter.c`) | PENDING/RUNNING/COMPLETED, the result's type and failure | `Start`, `Complete` (both weakly fair) and `Cancel` (a reporter destroyed before it started): the abstract specification both runners implement |
| `ForkingRunner` | `forking_runner.c`, `exec_events.c`, `output_reader.c`; the result (`result.c`) and the output buffer (`output.c`) appear only as the variables for their fields, with no definition of their own | the driver by `INSTANCE`, the child (pc, exit code, frames not yet written, a half-written frame), both pipes as sequences of units, the poll loop, the event reader's fields, the output buffer, the result, the return value, the reporter | the child's driver step, signal handler, the two writes of a frame, output, exit; outside signals and kills; pipe/fork and poll failures; the reader's failed `malloc` of a failure body and the parent's crash on the NULL body; one `read()` of any size on each pipe; hang-ups; `waitpid` and the result. `ReaderInit`, `ConsumerInit` and `OutputReaderInit` are the three `*_init` functions; `OnStageChange`/`OnFailure` are the consumer's callbacks, `OutputBuild` is `output_reader_build` |
| `DirectRunner` | `runner_run_testcase__` of `direct_runner.c` | the driver by `INSTANCE`, runner pc, the value `sigsetjmp` returns, the hooks' stage, `handler__` (none, this call's hooks, or a stale one), outside signals, the result, the local `result`, the reporter | `Prepare` (descriptor save and redirect, capture, start), `DriverStep`, `DriverSignal`, `Branch` (the switch on the jump), `Finish` (restore, complete), `AsyncSignal`. The runner ignores what `sigcapture__` and `sigrestore__` return (lines 227, 262): `CaptureOutcomes` and `RestoreOutcomes` are what they can leave behind when `CaptureFailures` is set. A signal without a capture, or through a stale one, ends the process (`xpc = "killed"`) |
| `SigCapture` | `sigcapture__`, `sigrestore__`, `sighandler__` (`sig.c`), with a client that captures and restores once per case | client pc and case, loop pc and index, mask, published handler/cookie, each signal's disposition, saved flag and saved disposition (`sigact`, kept when `f_saved` is already set, `sig.c:87`), pending signals, the handler calls made | `CapEnter`, `CapLoop`, `CapDone`, `Rollback`, `ResEnter`, `ResLoop`, `ResDone`, `Raise`, `Unblocked` |
| `Partition` | `repartition_testcases__` | the case→test and test→suite maps, `sorted_testcases`, `i_write`, `i_read`, the active and next test | `Outer`, `NextTest`, `Scan` (one inner iteration with its memmove), `ScanEnd` |
| `Dispatch` | the three entry points, `run_tests_in_testsuite__`, `run_testcases_in_test__`, `repartition_tests__` (a `RECURSIVE` operator), the reporters' creation | `Partition` by `INSTANCE`; the entry, the selection, the repartitioned tests, the loop indices, the open suite and test reporters, the cases run, the failure count | `Begin`/`Repartition`/`StartLoop`/`SwitchSuite`/`OpenTest`/`RunCase`/`CloseTest`/`Cleanup` (cases); `BeginTests`, `BeginTestsuites`, `NextSuiteRun`, `NextTestsuite`, `NextTest`, `CloseTestInSuite`, `CloseSuite` |
| `Cli` | `main`, `run__`, `ls__`, `load_testsuites__`, `destroy_testsuite_collection__`, `ctest_load_testsuite`, `test_create__`, `testcase_create__` and the destructors | the command line, pc, load index, the loaded suites, the set of live objects, libltdl's reference count, the failure count, the exit status | `Main`, `RunOptions`, `LsOptions`, `LoadBegin`, `LoadSuite` (each allocation and libltdl failure with its cleanup label), `LoadDone`, `MakeReporter`, `MakeRunner`, `RunTestsuites`, `Cleanup`, `List` |
| `FailureStorage` | `failure.c`, `location.c`, `stacktrace.c`, `serialization.h`, the event writer and the reader's failure body | the wanted record, the created block, the writer's buffer, the header length and body on the wire, the record the parent receives | `Create` (`ctest_failure_create_va`), `Write` (`exec_event_write` of a failure), `Read` (the reader's `failure_storage_deserialize`) |
| `TestingSuite` | `ctest_create_testing_testsuite`, `testsuite_create__`, `test_create__`, `testcase_create__`, `vsnprintfdup` and the three destroy functions | the builder's pc, the suite it returned (a sequence of tests, each the sequence of its case kinds), the objects alive | `Create` (the whole constructor: any allocation may fail, and `create_test_failed` destroys what the counters hold), `Release` (the caller's `ctest_testsuite_destroy`). The loops are the operators `TestLoop` (recursive over `i_test`) and `CaseLoop`. |
| `MC*` | the constants handed to TLC (bounds, symmetry) | | |

Data abstractions:
* **Driver and runners.** A failure is a record `[stage, origin, n]`. The forking
  runner's pipes carry *units*: one `read()`-able piece of a frame. A header
  decodes truthfully only when its units are exactly one frame's header;
  otherwise it decodes to any length. A failure header's length is taken
  modulo `LenModulus`, the `uint16_t` of `exec_events.c:59`. A stage header's
  length is `sizeof(stage)` (`exec_events.c:33`), which never wraps.
* **Testing suite.** No bound: the real five-kind table, so 31 tests and 80
  cases, with every allocation failing in turn.
* **Failure storage.** A block is a map from byte offsets to the object placed
  there: the failure, location and stacktrace structures and string cells. A
  pointer is an integer address, and a relative pointer is an integer offset. The
  sizes are LP64's. Any mix of the two layouts (a wrong offset, a cut body)
  decodes to `Garbage`, so a misplaced pointer is observable. `printf` is
  abstracted to the length it prints, or -1.
* **Cli.** A live object is a tuple `<<kind, suite, test, case>>`, so a leak is a
  member of `live` at the exit.

### Refinement

`CaseReport` is the abstract specification of one case's run as the reporter
sees it. `ForkingRunner` and `DirectRunner` each define
`Report == INSTANCE CaseReport WITH rstate <- ..., rtype <- ..., rfailed <- ...`,
mapping their reporter state and result. Each checks
`ImplementsCaseReport == Report!Spec` as a `PROPERTY`: every step is a `Start`,
a `Complete` or a stutter, and completion eventually happens.

## Runs

Distinct-state counts are from the last check.

| Run | cfg | Expect | What it shows |
|---|---|---|---|
| forking | `MCForkingRunner.cfg` | pass (≈378k) | With pipe/fork and poll failures and outside SIGKILLs: <ul><li>the parent decodes exactly the frames the child wrote, in order (`DecodedStreamMatchesWritten`);</li><li>the reported result and failure are the driver's outcome (`ReportedResultMatchesDriver`);</li><li>all output and its NUL are collected (`OutputDelivered`);</li><li>the runner implements `CaseReport`.</li></ul> |
| forking_async | `MCForkingRunnerAsync.cfg` | pass (≈414k) | A signal caught anywhere in the child, between a frame's two writes too, never breaks the `CaseReport` protocol: the case is started and completed once, whatever the parent decodes (`ImplementsCaseReport`). |
| direct | `MCDirectRunner.cfg` | pass (1,892) | With descriptor failures and up to two outside signals, and with `sigcapture__`/`sigrestore__` succeeding (finding 4 is about their failures): <ul><li>without outside signals the result is the driver's outcome (`DirectResultMatchesDriver`);</li><li>the driver keeps the first abort and failure;</li><li>it runs the teardown exactly once;</li><li>it frees a heap fixture only after the teardown, and always;</li><li>the runner implements `CaseReport`, a descriptor failure being a `Cancel`, whatever jumps happen.</li></ul> |
| sigcapture | `MCSigCapture.cfg` | pass (2,179) | With `sigaction()` failing in any loop: <ul><li>signals are never left blocked after `sig.c` returns;</li><li>every successful `sigrestore__` restores the original dispositions and clears the handler, also for an entry a failed rollback or restore left saved and a later capture saved again (`RestoreRoundTrip`).</li></ul> |
| dispatch | `MCDispatch.cfg` | pass (≈253k) | Over every spreading of 4 cases over 3 tests in 2 suites, every selection and every entry point, with reporter and copy allocation failures and runner errors: <ul><li>both repartitions yield their reference orders (`PartitionCorrect`, `TestsPartitionCorrect`);</li><li>no reporter refuses a test or case;</li><li>no suite or test reporter is opened twice;</li><li>a returned count means every case ran once, in order, and the count is the number of failed runs (`DispatchOutcome`).</li></ul> |
| cli | `MCCli.cfg` | pass (4,253) | With every allocation and libltdl call allowed to fail: <ul><li>everything a loaded suite owns, the collection, reporter and runner are released on every path to the exit (`ExitReleasesLoadedSuites`);</li><li>`run` exits `EX_OK` exactly when every suite loaded and no case failed (`ExitStatus`);</li><li>the testing-suite builder, with any allocation failing, leaves nothing alive once its result is destroyed (`BuilderReleases`);</li><li>a built suite has one test per non-empty combination of kinds, in table order (`BuilderShape`).</li></ul> `MCCli` runs the builder first and then the front end; the two share no state. |
| failure_storage | `MCFailureStorage.cfg` | pass (23,041) | For every record (description, optional location, up to two frames, with or without filenames) created at one address and deserialized at another: <ul><li>the blocks lie inside their computed sizes, disjoint and aligned (`BlockLayout`);</li><li>the writer never drops the event for a size mismatch (`FormatMatchesSize`);</li><li>the parent receives exactly the record created (`RoundTrip`).</li></ul> |
| forking_retval | `MCForkingRunnerRetval.cfg` | violation | `RetvalMatchesResult`: an errored case returns 0. |
| forking_torn_frame | `MCForkingRunnerTorn.cfg` | violation | `DecodedStreamMatchesWritten`: the signal handler's frame lands inside a half-written frame. |
| direct_retval | `MCDirectRunnerRetval.cfg` | violation | `DirectRetvalMatchesResult`: a skipped case returns 1. |
| sigcapture_failures | `MCSigCaptureFailures.cfg` | violation | `HandlerCallsCurrentCase`: a signal reaches a NULL handler or an earlier case's cookie. |
| forking_read_error | `MCForkingRunnerReadError.cfg` | violation | `ReadFailureIsError`: after a failed `read()` of the event pipe the case is reported as the child's exit status, not as an error. |

Every property of a passing run has a mutant in `PROJECT.json`: a plausible bug in
the mapped code that TLC must catch under the run's own cfg.

### Further configurations

These are kept beside the runs; `PROJECT.json`'s hazards refer to them. Each one
fails its single property:

| cfg | Property | Shows |
|---|---|---|
| `TestcaseDriverStage.cfg` (module `TestcaseDriver`) | `TeardownAnnounced` | `dynamic_ops_abort__` runs the teardown with the setup or execution stage still current, so a failure in it is stamped with the wrong stage (`loader.c:94`). |
| `MCForkingRunnerWrap.cfg` | `DecodedStreamMatchesWritten` | A failure body of 64 KiB or more wraps the `uint16_t` length (`exec_events.c:59`), and the stream loses its framing. |
| `MCCliLeak.cfg` | `NoLeakAtExit` | The tests array of a suite whose second test failed to allocate is never freed (`loader.c:553`). |
| `MCCliLoadError.cfg` | `LoadErrorOmitsModule` | The code stops the whole run when a named file is not a suite; the spec says only that module is left out (`main.c:90`). |
| `MCFailureStorageFormatError.cfg` | `CreatedHasDescription` | `vsnprintf` returning -1 wraps `description_len` to 0, and the failure is created with a NULL description. The console reporter's `strchr` at `console_reporter.c:109` then reads through NULL. |
| `MCFailureStorageWrap.cfg` | `DeserializeRejectsMalformed` | A record cut by the length wrap is deserialized with no range check (`failure.c:206`). Spec §4.1 asks for one. |

## Findings

1. **Errored cases return 0** (`forking_runner.c:366`, `result.c:31`):
   `ctest_result_set_failure` always returns 0. `run_testcases_in_test__`
   therefore does not count a killed child, a poll failure or a read error as a
   failure.
2. **Torn frames** (`forking_runner.c:108`, `exec_events.c:62-65`): the child's
   signal handler writes its frame even when the signal fell between a frame's
   header and body.
3. **A skip returns 1 in the direct runner** (`direct_runner.c:233`). Also, the
   non-volatile local `result` is indeterminate after a jump, so a failed case
   may return 0.
4. **Signals during the capture's failure path** (`sig.c:114`). The mask is
   restored before the rollback, while `handler__` is still NULL. A failed
   `sigrestore__` keeps the cookie, so the next case's capture gets EBUSY, which
   is ignored, and its signals reach the previous case's hooks.
5. **A failed read does not make the case an error** (`forking_runner.c:310`).
   Spec §4.9 says the parent SIGKILLs the child and reaps it. The code only sets
   an ERROR result and stops reading; the child runs on, and the reap
   (`forking_runner.c:348-362`) overwrites the result with the exit status. In
   the counterexample the reader's `malloc` of a failure body fails, the read
   fails, and the child's `exit(1)` turns the case into a plain failure. When a
   body is exactly as long as what arrives in one read, the NULL body is stored
   into instead (`exec_events.c:165`) and the parent crashes (`ppc = "crashed"`).

## Bounds

* **Driver.** One case, with every provider shape chosen in `Init`. Nesting of
  aborts inside the teardown is bounded by the teardown flag.
* **Forking runner.** The smallest sizes that let a read stop inside a header
  and inside a body: a header of 2 units, a stage body of 2, a failure body of 4.
  `LenModulus` is 8, above every frame. Output is 3 units, through a pipe of 2
  into a buffer of 1, so the buffer doubles twice. One case is enough because
  the runner keeps no state between cases.
* **Direct runner.** One case and up to two outside signals: enough for a signal
  inside the switch after a first jump.
* **Signal capture.** Three signals, one of them `EINVAL`, two cases and two
  outside signals. Two cases are needed for the stale cookie.
* **Dispatch.** 4 cases, 3 tests and 2 suites. This covers a suite interleaved
  with another, a test's cases split apart, and a test revisited after another
  suite. With 5 cases the run is too slow to check its mutants. Symmetry over
  tests and suites is sound because the code only compares their identities.
* **Cli.** Up to two of three suite files: one with a data-driven test of two
  rows and a plain test, an empty suite, and a file that is not a suite. Every
  allocation of each cleanup label is reached.
* **Testing suite.** No bound: the real five-kind table, so 31 tests and 80
  cases, with every allocation failing in turn.
* **Failure storage.** Descriptions and filenames of 1 or 4 bytes (4 makes
  padding matter), two addresses per block (64 and 256: different bases with the
  same alignment), up to two frames, LP64 sizes. `header.length` is kept at 16
  bits; the wrap is in `MCFailureStorageWrap.cfg`.

## Fairness

* The forking child's progress actions are weakly fair. It is a running
  process, and the test's code is assumed to terminate: the code has no timeout
  (the FIXME at `forking_runner.c:336`). Spec §4.11 leaves timeouts out, so a hanging test is not treated as a hazard.
* The parent's actions are weakly fair: `poll()` and `waitpid()` return once an
  fd is ready or the child has exited.
* The direct runner's own steps are weakly fair. `Cli`'s `Next` is weakly fair,
  as it is a sequential program.
* Environment events are not fair, as they may never happen: outside signals and
  kills, and pipe, poll, allocation and `sigaction` failures.
* The builder's step is weakly fair, as it is sequential code.
* `Partition`, `Dispatch`, `SigCapture` and `FailureStorage` are checked for
  safety only.

## Not modelled

* **The console reporter's text.** `wrap_output__`, the verdict lines, failure
  and stack-trace printing, `dup__` and `fdopen`. This is formatting; only the
  reporter's state machine and creation are modelled.
* **The direct runner's redirected output bytes.** `read_output__` and
  `opentemp`, and the `RESULT_TYPE_ERRNO__` and default branches, which no code
  jumps with.
* **Allocation failure in the output reader** and the output buffer's
  `NUL` overflow in `output_reader_build` (`output_reader.c:114`). Both are
  hazards whose properties would be violated. The run budget is spent on the five
  findings above, so they have no run. The event reader's allocation failure is
  modelled (`BodyAllocFailures`), and it is off in every passing run.
* **The event reader's leak** in `exec_event_reader_destroy`
  (`exec_events.c:260`). It is listed as a hazard; the model keeps no heap for
  the reader.
* **The testing suite's case bodies and getters** (`testing_testsuite.c`
  81-119, the `*_op_get_*` functions). The bodies print and call a hook, and
  no runner runs them in `src/`. The getters only read.
* **`waitpid` failing or returning another pid.** No other children exist.
* **`ctest_failure_destroy`, `ctest_stacktrace_destroy` and the destructors'
  `free()`.** They are modelled only as `Cli`'s live set.
* **The zero-case early return of `runner_run_testcases`.**
* **Smaller over-approximations.** The event reader neither drops a frame over
  its 1024-byte cap (`exec_events.c:195-200`) nor relies on `PIPE_BUF`
  atomicity, so it meets more interleavings than the real pipe delivers.
  `AsyncSignal` in the forking runner's child may write a frame after
  `exec_hooks_destroy__`. These two add behaviours, so the passing runs still
  cover the real ones. Two failure paths are left out, and their behaviours are
  not checked: `Start` does not model the failure to create the result, and
  `TestcaseDriver.Step` does not model a NULL from `ctest_failure_create_va`
  (a failure recorded as NULL, which the runners would report as a failed case
  without a failure).
* **libltdl internals, the magic and version values and name formatting.**
  These are abstracted to the outcome of each call.
* **The `ls` listing text and the help texts.**
* **The tmpdir fixture and the example tests.** They are test-side helpers, not
  part of the engine.
