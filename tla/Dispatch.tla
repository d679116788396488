------------------------------ MODULE Dispatch ------------------------------
(***************************************************************************)
(* The three dispatch entry points of src/src/exec/runner_utils.c with the *)
(* console reporters of src/src/exec/console_reporter.c, the entry chosen  *)
(* at the start:                                                           *)
(*  - runner_run_testcases: the selected cases are reordered by            *)
(*    repartition_testcases__ (module Partition, composed by INSTANCE);    *)
(*    the loop opens a suite reporter for each new suite, a test reporter  *)
(*    for each run of cases of one test, and a test-case reporter for each *)
(*    case, which it hands to the runner;                                  *)
(*  - runner_run_tests: the selected tests are grouped by suite by         *)
(*    repartition_tests__ (operator RepartitionTests) and each group run   *)
(*    by run_tests_in_testsuite__ under one suite reporter;                *)
(*  - runner_run_testsuites (what ctest run calls): each selected suite's  *)
(*    test array run by run_tests_in_testsuite__.                          *)
(* A test's cases are its testcases array, here the cases assigned to it  *)
(* in input order.                                                         *)
(*                                                                         *)
(* The reporters refuse (EINVAL) a test of another suite and a case of     *)
(* another test, and every calloc may fail when AllocFailures.  The runner *)
(* is the environment: it reports the case (module CaseReport, which both  *)
(* runners are shown to implement) and returns 0, 1, or -1 when RunErrors. *)
(* runner_run_testcases is given N >= 1 cases: its early return for zero  *)
(* cases (line 200) is not modelled; the other entries' selections may be  *)
(* empty.                                                                  *)
(***************************************************************************)
EXTENDS Integers, Sequences, FiniteSets, SequencesExt

CONSTANTS N, Tests, Suites, NULL,
  Entries,         \* the entry points called: "testcases", "tests", "testsuites"
  AllocFailures,   \* whether calloc may return NULL
  RunErrors        \* whether the runner may return -1

VARIABLES
  test_of, suite_of, sorted, i_write, i_read, test, next_test, pc,
  entry,      \* the entry point called
  sel,        \* runner_run_tests' tests
  ssel,       \* runner_run_testsuites' testsuites
  suite_tests,\* each suite's test array
  tsorted,    \* the tests as repartition_tests__ returned them
  it,         \* i_test of runner_run_tests, i of runner_run_testsuites
  tlist,      \* the tests run_tests_in_testsuite__ is iterating
  ti,         \* run_tests_in_testsuite__'s loop index
  sinner,     \* run_tests_in_testsuite__'s result so far
  batch,      \* the cases run_testcases_in_test__ is iterating
  dpc,        \* "begin" | "repartition" | "loop" | "test" | "suites" | "tests" |
              \* "cases" | "close" | "sclose" | "cleanup" | "done"
  ic,         \* i_testcase
  j,          \* the index of run_testcases_in_test__'s loop
  cur_suite,  \* the local testsuite
  suite_rep,  \* the suite of the open testsuite reporter, or NULL
  test_rep,   \* the test of the open test reporter, or NULL
  inner,      \* run_testcases_in_test__'s result so far
  result,     \* runner_run_testcases' result
  ran,        \* history: the cases handed to the runner, with its return
  opens,      \* history: the suite and test reporters created, in order
  refused     \* history: a reporter refused a test or case (EINVAL)

P == INSTANCE Partition

pvars == <<test_of, suite_of, sorted, i_write, i_read, test, next_test, pc>>
svars == <<entry, sel, ssel, suite_tests, tsorted, it, tlist, ti, sinner, batch>>
xvars == <<svars, dpc, ic, j, cur_suite, suite_rep, test_rep, inner, result, ran, opens, refused>>
vars == <<pvars, xvars>>

Cases == 1..N
RunResults == IF RunErrors THEN {-1, 0, 1} ELSE {0, 1}

\* The case at position k of sorted_testcases, and its test.
TestAt(k) == test_of[sorted[k]]

\* Whether a console reporter's create call returns a reporter, given its
\* argument check: NULL on EINVAL, and NULL when calloc fails.
Made(accepts) == IF AllocFailures THEN {accepts, FALSE} ELSE {accepts}

\* The checks of testsuite_reporter_op_report_test__ and
\* test_reporter_op_report_testcase__ against the reporter's own suite / test.
AcceptsTest(t) == suite_of[t] = suite_rep
AcceptsTestcase(c) == test_of[c] = test_rep

\* reporter_op_report_testsuite__, report_test and report_testcase.
ReportTestsuite == Made(TRUE)
ReportTest(t) == Made(AcceptsTest(t))
ReportTestcase(c) == Made(AcceptsTestcase(c))

\* Defective variant of RunEnd: the first case of the next test is taken in.
RunEndOverrun(k) ==
  LET e == CHOOSE e \in k + 1..N + 1 :
             /\ \A l \in k..e - 1 : TestAt(l) = TestAt(k)
             /\ e <= N => TestAt(e) # TestAt(k)
  IN IF e <= N THEN e + 1 ELSE e

\* Lines 227-230: one past the last case of the run of the test at k.
RunEnd(k) ==
  CHOOSE e \in k + 1..N + 1 :
    /\ \A l \in k..e - 1 : TestAt(l) = TestAt(k)
    /\ e <= N => TestAt(e) # TestAt(k)

\* A test's testcases array.
CasesOf(t) == SetToSortSeq({c \in Cases : test_of[c] = t}, <)

\* Defective variant of MoveBack: memmove moves one test too few, so the
\* test before the read one is lost and the read one doubled.
MoveBackShort(arr, w, r) ==
  [k \in DOMAIN arr |-> IF k < w \/ k > r THEN arr[k]
                        ELSE IF k = w \/ k = r THEN arr[r] ELSE arr[k - 1]]

(* repartition_tests__ (lines 11-43) as an operator over the copy of the  *)
(* selection.  memmove(tests + w + 1, tests + w, r - w); tests[w] = read:  *)
(* the test at r moves back to w and those in between shift up by one.    *)
MoveBack(arr, w, r) ==
  [k \in DOMAIN arr |-> IF k < w \/ k > r THEN arr[k]
                        ELSE IF k = w THEN arr[r] ELSE arr[k - 1]]

(* The inner loop from i_read_test = r, with i_write_test = w, for the     *)
(* suite s of the test at the outer loop's position: each test of s found *)
(* is moved to right after the last one; returns the array and w.          *)
RECURSIVE ScanTests(_, _, _, _)
ScanTests(arr, w, r, s) ==
  IF r > Len(arr) THEN <<arr, w>>
  ELSE IF suite_of[arr[r]] # s THEN ScanTests(arr, w, r + 1, s)
  ELSE IF w + 1 = r THEN ScanTests(arr, w + 1, r + 1, s)
  ELSE ScanTests(MoveBack(arr, w + 1, r), w + 1, r + 1, s)

\* The outer loop from i_write_test = w.
RECURSIVE GroupTests(_, _)
GroupTests(arr, w) ==
  IF w > Len(arr) THEN arr
  ELSE LET o == ScanTests(arr, w, w + 1, suite_of[arr[w]]) IN GroupTests(o[1], o[2] + 1)

RepartitionTests(tests) == GroupTests(tests, 1)

\* Lines 268-271: one past the last test of the suite of the test at k.
SuiteRunEnd(k) ==
  CHOOSE e \in k + 1..Len(tsorted) + 1 :
    /\ \A l \in k..e - 1 : suite_of[tsorted[l]] = suite_of[tsorted[k]]
    /\ e <= Len(tsorted) => suite_of[tsorted[e]] # suite_of[tsorted[k]]

\* Sequences of distinct elements of S: the selections a caller may pass.
Selections(S) == SetToAllKPermutations(S)

Init ==
  /\ P!Init
  /\ entry \in Entries
  /\ sel \in IF entry = "tests" THEN Selections(Tests) ELSE {<<>>}
  /\ ssel \in IF entry = "testsuites" THEN Selections(Suites) ELSE {<<>>}
  /\ suite_tests \in IF entry = "testsuites"
                     THEN {f \in [Suites -> Selections(Tests)] :
                             \A x \in Suites : ToSet(f[x]) = {t \in Tests : suite_of[t] = x}}
                     ELSE {[x \in Suites |-> <<>>]}
  /\ tsorted = <<>> /\ it = 1 /\ tlist = <<>> /\ ti = 1 /\ sinner = 0 /\ batch = <<>>
  /\ dpc = "begin"
  /\ ic = 1 /\ j = 1
  /\ cur_suite = NULL /\ suite_rep = NULL /\ test_rep = NULL
  /\ inner = 0 /\ result = -1
  /\ ran = <<>> /\ opens = <<>> /\ refused = FALSE

-----------------------------------------------------------------------------
\* Line 203 with lines 51-53: the copy of the selection is calloc'ed (a
\* failure returns -1) and repartitioned.
Begin ==
  /\ dpc = "begin" /\ entry = "testcases"
  /\ \E made \in Made(TRUE) :
       dpc' = IF made THEN "repartition" ELSE "done"
  /\ UNCHANGED <<pvars, svars, ic, j, cur_suite, suite_rep, test_rep, inner, result, ran, opens, refused>>

\* One step of repartition_testcases__.
Repartition ==
  /\ dpc = "repartition" /\ pc # "done"
  /\ P!Next
  /\ UNCHANGED xvars

\* Lines 206-208: the loop starts with no suite and no reporter.
StartLoop ==
  /\ dpc = "repartition" /\ pc = "done"
  /\ dpc' = "loop" /\ result' = 0
  /\ UNCHANGED <<pvars, svars, ic, j, cur_suite, suite_rep, test_rep, inner, ran, opens, refused>>

\* Defective variant of SwitchSuite: the local testsuite is not updated.
SwitchSuiteForgettingSuite ==
  LET s == suite_of[TestAt(ic)] IN
  /\ dpc = "loop" /\ ic <= N
  /\ \/ /\ s = cur_suite
        /\ dpc' = "test"
        /\ UNCHANGED <<suite_rep, result, opens>>
     \/ /\ s # cur_suite
        /\ \E made \in ReportTestsuite :
             \/ /\ made
                /\ suite_rep' = s
                /\ opens' = Append(opens, [kind |-> "suite", id |-> s])
                /\ dpc' = "test"
                /\ UNCHANGED result
             \/ /\ ~made
                /\ suite_rep' = NULL
                /\ result' = -1 /\ dpc' = "cleanup"
                /\ UNCHANGED opens
  /\ UNCHANGED <<pvars, svars, cur_suite, ic, j, test_rep, inner, ran, refused>>

(* Lines 209-225: a case of a new suite destroys the previous suite        *)
(* reporter and asks the reporter for one (reporter_op_report_testsuite__, *)
(* which fails only if calloc does); a failure ends the loop with -1.      *)
SwitchSuite ==
  LET s == suite_of[TestAt(ic)] IN
  /\ dpc = "loop" /\ ic <= N
  /\ \/ /\ s = cur_suite
        /\ dpc' = "test"
        /\ UNCHANGED <<cur_suite, suite_rep, result, opens>>
     \/ /\ s # cur_suite
        /\ \E made \in ReportTestsuite :
             \/ /\ made
                /\ suite_rep' = s /\ cur_suite' = s
                /\ opens' = Append(opens, [kind |-> "suite", id |-> s])
                /\ dpc' = "test"
                /\ UNCHANGED result
             \/ /\ ~made
                /\ suite_rep' = NULL
                /\ result' = -1 /\ dpc' = "cleanup"
                /\ UNCHANGED <<cur_suite, opens>>
  /\ UNCHANGED <<pvars, svars, ic, j, test_rep, inner, ran, refused>>

(* Lines 227-237: find the end of the run of cases of this test, and ask   *)
(* the suite reporter for a test reporter (testsuite_reporter_op_report_   *)
(* test__: EINVAL for a test of another suite, or calloc failing).         *)
OpenTest ==
  LET t == TestAt(ic) IN
  /\ dpc = "test"
  /\ ic' = RunEnd(ic) /\ j' = 1
  /\ batch' = SubSeq(sorted, ic, RunEnd(ic) - 1)
  /\ refused' = (refused \/ ~AcceptsTest(t))
  /\ \E made \in ReportTest(t) :
       \/ /\ made
          /\ test_rep' = t /\ inner' = 0
          /\ opens' = Append(opens, [kind |-> "test", id |-> t])
          /\ dpc' = "cases"
          /\ UNCHANGED result
       \/ /\ ~made
          /\ result' = -1 /\ dpc' = "cleanup"
          /\ UNCHANGED <<test_rep, inner, opens>>
  /\ UNCHANGED <<pvars, entry, sel, ssel, suite_tests, tsorted, it, tlist, ti, sinner,
                 cur_suite, suite_rep, ran>>

(* One iteration of run_testcases_in_test__ (lines 139-151): ask the test  *)
(* reporter for a test-case reporter (test_reporter_op_report_testcase__:  *)
(* EINVAL for a case of another test, or calloc failing), run the case,    *)
(* destroy the reporter, count a positive return; -1 on any failure.       *)
RunCase ==
  LET c == batch[j] IN
  /\ dpc = "cases"
  /\ refused' = (refused \/ ~AcceptsTestcase(c))
  /\ \E made \in ReportTestcase(c) :
       \/ /\ made
          /\ \E rc \in RunResults :
               /\ ran' = Append(ran, [case |-> c, rc |-> rc])
               /\ inner' = IF rc < 0 THEN -1 ELSE inner + (IF rc > 0 THEN 1 ELSE 0)
               /\ j' = j + 1
               /\ dpc' = IF rc < 0 \/ j = Len(batch) THEN "close" ELSE "cases"
       \/ /\ ~made
          /\ inner' = -1 /\ dpc' = "close"
          /\ UNCHANGED <<ran, j>>
  /\ UNCHANGED <<pvars, svars, ic, cur_suite, suite_rep, test_rep, result, opens>>

\* Defective variant of CloseTest: the count replaces the total.
CloseTestOverwriting ==
  /\ dpc = "close" /\ entry = "testcases"
  /\ test_rep' = NULL
  /\ \/ /\ inner >= 0
        /\ result' = inner /\ dpc' = "loop"
     \/ /\ inner < 0
        /\ result' = -1 /\ dpc' = "cleanup"
  /\ UNCHANGED <<pvars, svars, ic, j, cur_suite, suite_rep, inner, ran, opens, refused>>

\* Lines 238-244: destroy the test reporter and add its count, or end the
\* loop with -1.
CloseTest ==
  /\ dpc = "close" /\ entry = "testcases"
  /\ test_rep' = NULL
  /\ \/ /\ inner >= 0
        /\ result' = result + inner /\ dpc' = "loop"
     \/ /\ inner < 0
        /\ result' = -1 /\ dpc' = "cleanup"
  /\ UNCHANGED <<pvars, svars, ic, j, cur_suite, suite_rep, inner, ran, opens, refused>>

\* Lines 209 and 247-251: the loop is over; destroy the last suite
\* reporter, free the copy, return the result.
Cleanup ==
  /\ entry = "testcases"
  /\ \/ dpc = "loop" /\ ic > N
     \/ dpc = "cleanup"
  /\ suite_rep' = NULL
  /\ dpc' = "done"
  /\ UNCHANGED <<pvars, svars, ic, j, cur_suite, test_rep, inner, result, ran, opens, refused>>

-----------------------------------------------------------------------------
(* runner_run_tests (lines 254-264): an empty selection returns 0; the     *)
(* copy is calloc'ed (a failure returns -1) and repartitioned.             *)
BeginTests ==
  /\ dpc = "begin" /\ entry = "tests"
  /\ \/ /\ sel = <<>>
        /\ result' = 0 /\ dpc' = "done"
        /\ UNCHANGED <<tsorted, it>>
     \/ /\ sel # <<>>
        /\ \E made \in Made(TRUE) :
             \/ /\ made
                /\ tsorted' = RepartitionTests(sel)
                /\ result' = 0 /\ it' = 1 /\ dpc' = "suites"
             \/ /\ ~made
                /\ dpc' = "done"
                /\ UNCHANGED <<tsorted, it, result>>
  /\ UNCHANGED <<pvars, entry, sel, ssel, suite_tests, tlist, ti, sinner, batch,
                 ic, j, cur_suite, suite_rep, test_rep, inner, ran, opens, refused>>

\* runner_run_testsuites (lines 300-302): result starts at 0.
BeginTestsuites ==
  /\ dpc = "begin" /\ entry = "testsuites"
  /\ result' = 0 /\ it' = 1 /\ dpc' = "suites"
  /\ UNCHANGED <<pvars, entry, sel, ssel, suite_tests, tsorted, tlist, ti, sinner, batch,
                 ic, j, cur_suite, suite_rep, test_rep, inner, ran, opens, refused>>

(* The loop of runner_run_tests (lines 266-281): the tests from i_test up  *)
(* to the first of another suite get a suite reporter and are handed to    *)
(* run_tests_in_testsuite__; at the end the copy is freed.                 *)
NextSuiteRun ==
  /\ dpc = "suites" /\ entry = "tests"
  /\ \/ /\ it > Len(tsorted)
        /\ dpc' = "done"
        /\ UNCHANGED <<it, tlist, ti, sinner, suite_rep, result, opens>>
     \/ /\ it <= Len(tsorted)
        /\ LET x == suite_of[tsorted[it]] IN
           \E made \in ReportTestsuite :
             \/ /\ made
                /\ suite_rep' = x
                /\ opens' = Append(opens, [kind |-> "suite", id |-> x])
                /\ tlist' = SubSeq(tsorted, it, SuiteRunEnd(it) - 1)
                /\ it' = SuiteRunEnd(it) /\ ti' = 1 /\ sinner' = 0
                /\ dpc' = "tests"
                /\ UNCHANGED result
             \/ /\ ~made
                /\ result' = -1 /\ dpc' = "done"
                /\ UNCHANGED <<it, tlist, ti, sinner, suite_rep, opens>>
  /\ UNCHANGED <<pvars, entry, sel, ssel, suite_tests, tsorted, batch,
                 ic, j, cur_suite, test_rep, inner, ran, refused>>

(* The loop of runner_run_testsuites (lines 303-310): a suite reporter for *)
(* each testsuite, NULL returning -1 at once, and the suite's tests handed *)
(* to run_tests_in_testsuite__.                                            *)
NextTestsuite ==
  /\ dpc = "suites" /\ entry = "testsuites"
  /\ \/ /\ it > Len(ssel)
        /\ dpc' = "done"
        /\ UNCHANGED <<it, tlist, ti, sinner, suite_rep, result, opens>>
     \/ /\ it <= Len(ssel)
        /\ \E made \in ReportTestsuite :
             \/ /\ made
                /\ suite_rep' = ssel[it]
                /\ opens' = Append(opens, [kind |-> "suite", id |-> ssel[it]])
                /\ tlist' = suite_tests[ssel[it]]
                /\ it' = it + 1 /\ ti' = 1 /\ sinner' = 0
                /\ dpc' = "tests"
                /\ UNCHANGED result
             \/ /\ ~made
                /\ result' = -1 /\ dpc' = "done"
                /\ UNCHANGED <<it, tlist, ti, sinner, suite_rep, opens>>
  /\ UNCHANGED <<pvars, entry, sel, ssel, suite_tests, tsorted, batch,
                 ic, j, cur_suite, test_rep, inner, ran, refused>>

(* One iteration of run_tests_in_testsuite__ (lines 174-181): ask the      *)
(* suite reporter for a test reporter (EINVAL for a test of another suite, *)
(* or calloc failing: return -1) and hand the test's cases to              *)
(* run_testcases_in_test__; past the last test, return the count.          *)
NextTest ==
  /\ dpc = "tests"
  /\ \/ /\ ti > Len(tlist)
        /\ dpc' = "sclose"
        /\ UNCHANGED <<refused, test_rep, batch, j, inner, sinner, opens>>
     \/ /\ ti <= Len(tlist)
        /\ LET t == tlist[ti] IN
           /\ refused' = (refused \/ ~AcceptsTest(t))
           /\ \E made \in ReportTest(t) :
                \/ /\ made
                   /\ test_rep' = t /\ inner' = 0
                   /\ opens' = Append(opens, [kind |-> "test", id |-> t])
                   /\ batch' = CasesOf(t) /\ j' = 1
                   /\ dpc' = IF CasesOf(t) = <<>> THEN "close" ELSE "cases"
                   /\ UNCHANGED sinner
                \/ /\ ~made
                   /\ sinner' = -1 /\ dpc' = "sclose"
                   /\ UNCHANGED <<test_rep, batch, j, inner, opens>>
  /\ UNCHANGED <<pvars, entry, sel, ssel, suite_tests, tsorted, it, tlist, ti,
                 ic, cur_suite, suite_rep, result, ran>>

(* Lines 182-187: destroy the test reporter; a negative count is returned *)
(* at once, otherwise added.                                               *)
CloseTestInSuite ==
  /\ dpc = "close" /\ entry # "testcases"
  /\ test_rep' = NULL
  /\ \/ /\ inner < 0
        /\ sinner' = -1 /\ dpc' = "sclose"
        /\ UNCHANGED ti
     \/ /\ inner >= 0
        /\ sinner' = sinner + inner /\ ti' = ti + 1 /\ dpc' = "tests"
  /\ UNCHANGED <<pvars, entry, sel, ssel, suite_tests, tsorted, it, tlist, batch,
                 ic, j, cur_suite, suite_rep, inner, result, ran, opens, refused>>

(* run_tests_in_testsuite__ returned: its caller destroys the suite        *)
(* reporter and returns -1 on a negative count (lines 284-288, 306-311),  *)
(* otherwise adds it and goes on with the next suite.                      *)
CloseSuite ==
  /\ dpc = "sclose"
  /\ suite_rep' = NULL
  /\ \/ /\ sinner < 0
        /\ result' = -1 /\ dpc' = "done"
     \/ /\ sinner >= 0
        /\ result' = result + sinner /\ dpc' = "suites"
  /\ UNCHANGED <<pvars, svars, ic, j, cur_suite, test_rep, inner, ran, opens, refused>>

Next ==
  \/ Begin \/ Repartition \/ StartLoop
  \/ SwitchSuite \/ OpenTest \/ RunCase \/ CloseTest \/ Cleanup
  \/ BeginTests \/ BeginTestsuites \/ NextSuiteRun \/ NextTestsuite
  \/ NextTest \/ CloseTestInSuite \/ CloseSuite

Spec == Init /\ [][Next]_vars

-----------------------------------------------------------------------------
TypeOK ==
  /\ P!TypeOK
  /\ dpc \in {"begin", "repartition", "loop", "test", "suites", "tests", "cases",
             "close", "sclose", "cleanup", "done"}
  /\ entry \in Entries
  /\ tsorted \in Seq(Tests) /\ tlist \in Seq(Tests) /\ batch \in Seq(Cases)
  /\ it \in 1..Cardinality(Tests \cup Suites) + 1 /\ ti \in 1..Cardinality(Tests) + 1
  /\ sinner \in -1..N
  /\ ic \in 1..N + 1 /\ j \in 1..N + 1
  /\ cur_suite \in Suites \cup {NULL} /\ suite_rep \in Suites \cup {NULL}
  /\ test_rep \in Tests \cup {NULL}
  /\ inner \in -1..N /\ result \in -1..N
  /\ ran \in Seq([case : Cases, rc : {-1, 0, 1}])
  /\ refused \in BOOLEAN

\* repartition_testcases__ returns the reference order (module Partition),
\* checked while the loop has not yet started (sorted is not changed after).
PartitionCorrect == dpc = "repartition" => P!PartitionCorrect

(* The reporters never refuse what the loop asks for: every test reporter  *)
(* is asked of its own suite's reporter and every test-case reporter of    *)
(* its own test's, whatever the order of the selection.                    *)
ReportersNeverRefuse == ~refused

(* No suite or test is reported twice: the loop opens one reporter per     *)
(* suite and one per test, so the console shows each suite's and test's    *)
(* cases together.                                                         *)
EachReporterOnce ==
  \A a, b \in DOMAIN opens : a < b => opens[a] # opens[b]

(* The cases each entry point is to run, in order: the repartitioned     *)
(* selection, each test's cases in the order of the grouped tests, or the *)
(* cases of each selected suite's tests.                                   *)
ExpectedRun ==
  CASE entry = "testcases" -> sorted
    [] entry = "tests" -> FlattenSeq([k \in DOMAIN tsorted |-> CasesOf(tsorted[k])])
    [] entry = "testsuites" ->
         FlattenSeq([k \in DOMAIN ssel |->
           FlattenSeq([l \in DOMAIN suite_tests[ssel[k]] |->
             CasesOf(suite_tests[ssel[k]][l])])])

(* When an entry point returns a count, every case it was to run was run   *)
(* exactly once, in order, the count is the number of runs that returned *)
(* 1, and every reporter was destroyed; a -1 means a reporter or the copy *)
(* could not be made or a run returned -1.                                 *)
DispatchOutcome ==
  dpc = "done" =>
    /\ suite_rep = NULL /\ test_rep = NULL
    /\ \/ /\ result >= 0
          /\ Len(ran) = Len(ExpectedRun)
          /\ \A k \in DOMAIN ran : ran[k].case = ExpectedRun[k] /\ ran[k].rc \in {0, 1}
          /\ result = Cardinality({k \in DOMAIN ran : ran[k].rc = 1})
       \/ /\ result = -1
          /\ AllocFailures \/ \E k \in DOMAIN ran : ran[k].rc = -1

\* The position of test t in the selection, and the position of the first
\* selected test of suite x.
SelPos(t) == CHOOSE k \in DOMAIN sel : sel[k] = t
FirstSelOf(x) == CHOOSE k \in DOMAIN sel :
                   suite_of[sel[k]] = x /\ \A l \in 1..k - 1 : suite_of[sel[l]] # x

(* repartition_tests__ returns a permutation of the selection in which the *)
(* tests of a suite are adjacent, the suites in the order of their first  *)
(* selected test and each suite's tests in their selected order, so that  *)
(* runner_run_tests opens one suite reporter per suite.                   *)
TestsPartitionCorrect ==
  (entry = "tests" /\ tsorted # <<>>) =>
    /\ Len(tsorted) = Len(sel) /\ ToSet(tsorted) = ToSet(sel)
    /\ \A a, b \in DOMAIN tsorted : a < b =>
         LET fa == FirstSelOf(suite_of[tsorted[a]])
             fb == FirstSelOf(suite_of[tsorted[b]])
         IN fa < fb \/ (fa = fb /\ SelPos(tsorted[a]) < SelPos(tsorted[b]))
=============================================================================
