---------------------------- MODULE TestingSuite ----------------------------
(***************************************************************************)
(* ctest_create_testing_testsuite of src/src/exec/testing_testsuite.c: it  *)
(* builds, in memory, a suite with one test per non-empty combination of   *)
(* the five test-case kinds of its table (test i_test + 1 holds the kinds  *)
(* whose bit is set in i_test + 1), then its caller destroys it with       *)
(* ctest_testsuite_destroy.  Every malloc/calloc may fail; a failure       *)
(* inside the loop destroys the half-built suite through its own destroy   *)
(* operation, so what that frees is decided by the counters test_count and *)
(* testcase_count as they stand at the failure.                           *)
(*                                                                         *)
(* A built suite is the sequence of its tests, each the sequence of the    *)
(* kinds (indices into the table) of its test cases.  A heap object is     *)
(* <<kind, test, case>>, with test 0 for the suite's own objects.          *)
(***************************************************************************)
EXTENDS Integers, Sequences, FiniteSets, Bitwise

CONSTANTS
  NULL,
  BuilderAllocFailures  \* whether malloc/calloc may return NULL

VARIABLES
  ts_pc,      \* "create", "built" (returned to the caller), "done"
  ts_suite,   \* what ctest_create_testing_testsuite returned: a suite or NULL
  ts_live     \* objects alive on the heap

ts_vars == <<ts_pc, ts_suite, ts_live>>

\* The testcases[] table: the ops of each kind, in table order.
TestcaseKinds == <<"success", "skip", "setup_failure", "teardown_failure", "failure">>

\* test_count == (1 << testcase_count) - 1.
TestCount == 2^Len(TestcaseKinds) - 1

\* Defective variant of HasKind: the bit test on i_test instead of i_test + 1.
HasKindOfIndex(i_test, j) == (i_test & 2^(j - 1)) # 0

\* Test i_test holds kind j (1-based) when bit j - 1 of i_test + 1 is set.
HasKind(i_test, j) == ((i_test + 1) & 2^(j - 1)) # 0

Obj(k, t, c) == <<k, t, c>>

Made == IF BuilderAllocFailures THEN BOOLEAN ELSE {TRUE}

(* vsnprintfdup: malloc(len + 1) of the formatted name; NULL when malloc  *)
(* fails (or vsnprintf reports an error).                                  *)
Vsnprintfdup == Made
-----------------------------------------------------------------------------
\* testcase_destroy__: the name and the test case.
TestcaseFreed(t, c) == {Obj("case", t, c), Obj("name", t, c)}

\* test_destroy__: testcases[0 .. testcase_count-1], the array, the name, the test.
TestFreed(t, cases) ==
  {Obj("test", t, 0), Obj("cases", t, 0), Obj("name", t, 0)}
    \cup UNION {TestcaseFreed(t, cases[k]) : k \in DOMAIN cases}

\* testsuite_op_destroy__: tests[0 .. test_count-1], the array, the name, the suite.
TestsuiteFreed(tests) ==
  {Obj("suite", 0, 0), Obj("tests", 0, 0), Obj("name", 0, 0)}
    \cup UNION {TestFreed(t, tests[t]) : t \in DOMAIN tests}
-----------------------------------------------------------------------------
(* The constructors, as the set of their outcomes [ok, res]: res is what  *)
(* they allocated on success.  Each failure label frees what was          *)
(* allocated before it, so a failed constructor leaves nothing alive.     *)
Created(ok, res) == [ok |-> ok, res |-> IF ok THEN res ELSE {}]

\* testcase_create__: the name, then the test case (alloc_tc_failed frees the name).
TestcaseCreate(t, c) ==
  {Created(n /\ m, TestcaseFreed(t, c)) : n \in Vsnprintfdup, m \in Made}

\* test_create__: the name, the testcases array, the test.
TestCreate(t) ==
  {Created(n /\ a /\ m, TestFreed(t, <<>>)) : n \in Vsnprintfdup, a \in Made, m \in Made}

\* testsuite_create__: the name, the tests array, the suite.
TestsuiteCreate ==
  {Created(n /\ a /\ m, TestsuiteFreed(<<>>)) : n \in Vsnprintfdup, a \in Made, m \in Made}
-----------------------------------------------------------------------------
(* The two loops of ctest_create_testing_testsuite, over a builder state   *)
(* [tests, live]: tests is what the suite's tests[] and each test's        *)
(* testcases[] hold up to their counters, live what has been allocated.   *)
(* An outcome is [ok, b]; ok FALSE is a jump to create_test_failed with    *)
(* the builder state b.                                                    *)

\* The kinds the inner loop creates for test i_test, in table order.
TestKinds(i_test) == SelectSeq([j \in 1..Len(TestcaseKinds) |-> j], LAMBDA j : HasKind(i_test, j))

(* testcase_create__ for each of the kinds, then                          *)
(* testcases[testcase_count++] = testcase: the last test of b gains them.  *)
AddCases(b, kinds) ==
  LET t == Len(b.tests)
  IN [tests |-> [b.tests EXCEPT ![t] = @ \o kinds],
      live |-> b.live \cup UNION {(CHOOSE c \in TestcaseCreate(t, kinds[k]) : c.ok).res
                                 : k \in DOMAIN kinds}]

(* The inner loop of test i_test on the state b: every case created, or   *)
(* the n-th testcase_create__ failing after the n - 1 before it.           *)
CaseLoop(b, i_test) ==
  LET kinds == TestKinds(i_test)
  IN {[ok |-> TRUE, b |-> AddCases(b, kinds)]}
       \cup {[ok |-> FALSE, b |-> AddCases(b, SubSeq(kinds, 1, n - 1))]
             : n \in {n \in DOMAIN kinds :
                         \E c \in TestcaseCreate(Len(b.tests), kinds[n]) : ~c.ok}}

(* The outer loop from i_test on: test_create__, then                     *)
(* tests[test_count++] = test before any of its test cases is created.    *)
RECURSIVE TestLoop(_, _), TestLoopLateCount(_, _)

(* Defective variant of TestLoop: tests[test_count++] = test only after    *)
(* the test's cases are created, so a failing testcase_create__ leaves the *)
(* test outside the counter.                                               *)
TestLoopLateCount(b, i_test) ==
  IF i_test >= TestCount THEN {[ok |-> TRUE, b |-> b]}
  ELSE UNION {IF t.ok
              THEN UNION {IF r.ok THEN TestLoop(r.b, i_test + 1)
                          ELSE {[ok |-> FALSE, b |-> [r.b EXCEPT !.tests = b.tests]]}
                          : r \in CaseLoop([tests |-> Append(b.tests, <<>>),
                                            live |-> b.live \cup t.res], i_test)}
              ELSE {[ok |-> FALSE, b |-> b]}
              : t \in TestCreate(i_test + 1)}

TestLoop(b, i_test) ==
  IF i_test >= TestCount THEN {[ok |-> TRUE, b |-> b]}
  ELSE UNION {IF t.ok
              THEN UNION {IF r.ok THEN TestLoop(r.b, i_test + 1) ELSE {r}
                          : r \in CaseLoop([tests |-> Append(b.tests, <<>>),
                                            live |-> b.live \cup t.res], i_test)}
              ELSE {[ok |-> FALSE, b |-> b]}
              : t \in TestCreate(i_test + 1)}

(* ctest_create_testing_testsuite: testsuite_create__ (create_suite_failure *)
(* returns NULL), the loops, and on create_test_failed the suite's own      *)
(* destroy of what its counters hold, then NULL.                            *)
CreateTestingTestsuite ==
  UNION {IF s.ok
         THEN {IF r.ok
               THEN [suite |-> r.b.tests, live |-> r.b.live]
               ELSE [suite |-> NULL, live |-> r.b.live \ TestsuiteFreed(r.b.tests)]
               : r \in TestLoop([tests |-> <<>>, live |-> s.res], 0)}
         ELSE {[suite |-> NULL, live |-> {}]}
         : s \in TestsuiteCreate}
-----------------------------------------------------------------------------
TSInit == ts_pc = "create" /\ ts_suite = NULL /\ ts_live = {}

\* The caller calls ctest_create_testing_testsuite.
Create ==
  /\ ts_pc = "create"
  /\ \E o \in CreateTestingTestsuite :
       ts_suite' = o.suite /\ ts_live' = o.live
  /\ ts_pc' = "built"

\* The caller destroys a returned suite (testsuite_op_destroy__), or has none.
Release ==
  /\ ts_pc = "built"
  /\ \/ ts_suite # NULL /\ ts_live' = ts_live \ TestsuiteFreed(ts_suite)
     \/ ts_suite = NULL /\ UNCHANGED ts_live
  /\ ts_pc' = "done"
  /\ UNCHANGED ts_suite

TSNext == Create \/ Release

TSSpec == TSInit /\ [][TSNext]_ts_vars /\ WF_ts_vars(TSNext)
-----------------------------------------------------------------------------
(* Whatever allocation fails, at whatever point of the two loops, nothing  *)
(* the builder allocated is left alive once the caller has destroyed what  *)
(* it got: a failed build is released by the suite's destroy through the   *)
(* counters test_count and testcase_count, which must already cover the    *)
(* test being filled when one of its test cases fails.                    *)
BuilderReleases == ts_pc = "done" => ts_live = {}

(* A returned suite holds one test for every non-empty combination of     *)
(* kinds, each combination exactly once, and each test lists its kinds in  *)
(* table order: the bit enumeration of (i_test + 1) & (1 << i_testcase)    *)
(* against SUBSET of the table.                                            *)
BuilderShape ==
  (ts_pc = "built" /\ ts_suite # NULL) =>
    LET Kinds(t) == {ts_suite[t][k] : k \in DOMAIN ts_suite[t]}
    IN /\ {Kinds(t) : t \in DOMAIN ts_suite} = (SUBSET DOMAIN TestcaseKinds) \ {{}}
       /\ Len(ts_suite) = Cardinality(SUBSET DOMAIN TestcaseKinds) - 1
       /\ \A t \in DOMAIN ts_suite :
            \A k \in 1..Len(ts_suite[t]) - 1 : ts_suite[t][k] < ts_suite[t][k + 1]
=============================================================================
