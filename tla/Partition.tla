------------------------------ MODULE Partition ------------------------------
(***************************************************************************)
(* repartition_testcases__ of src/src/exec/runner_utils.c: the in-place    *)
(* reordering of the test cases to run so that the cases of one test, and  *)
(* the tests of one suite, are adjacent before the dispatch loop opens a   *)
(* reporter per suite and per test.                                        *)
(*                                                                         *)
(* The loop is modelled step by step (one step per iteration of the inner  *)
(* for loop), over every assignment of N cases to tests and of tests to    *)
(* suites.  A case is named by its position in the input.                  *)
(***************************************************************************)
EXTENDS Naturals, Sequences, SequencesExt

CONSTANTS N, Tests, Suites, NULL

ASSUME N \in Nat

VARIABLES
  test_of,       \* ctest_testcase_get_test, for each input case
  suite_of,      \* ctest_test_get_testsuite, for each test
  sorted,        \* sorted_testcases
  i_write,       \* i_write_testcase (1-based)
  i_read,        \* i_read_testcase (1-based)
  test,          \* the active test
  next_test,
  pc             \* "outer" | "next" | "scan" | "done"

vars == <<test_of, suite_of, sorted, i_write, i_read, test, next_test, pc>>

Cases == 1..N

TypeOK ==
  /\ test_of \in [Cases -> Tests]
  /\ suite_of \in [Tests -> Suites]
  /\ sorted \in [Cases -> Cases] /\ IsInjective(sorted)   \* a permutation
  /\ i_write \in 1..N+1 /\ i_read \in 1..N+1
  /\ test \in Tests \cup {NULL} /\ next_test \in Tests \cup {NULL}
  /\ pc \in {"outer", "next", "scan", "done"}

\* The calloc'ed copy of the input, in input order.
Init ==
  /\ test_of \in [Cases -> Tests]
  /\ suite_of \in [Tests -> Suites]
  /\ sorted = [c \in Cases |-> c]
  /\ i_write = 1 /\ i_read = 1
  /\ test = NULL /\ next_test = NULL
  /\ pc = "outer"

\* Lines 77-86: the case at i_write starts a new test (and suite).
Outer ==
  /\ pc = "outer"
  /\ \/ /\ i_write <= N
        /\ next_test' = test_of[sorted[i_write]]
        /\ i_write' = i_write + 1
        /\ pc' = "next"
     \/ /\ i_write > N
        /\ pc' = "done"
        /\ UNCHANGED <<i_write, next_test>>
  /\ UNCHANGED <<test_of, suite_of, sorted, i_read, test>>

\* Lines 87-92: make next_test active and scan what follows i_write.
NextTest ==
  /\ pc = "next"
  /\ \/ /\ next_test # NULL
        /\ test' = next_test
        /\ next_test' = NULL
        /\ i_read' = i_write
        /\ pc' = "scan"
     \/ /\ next_test = NULL
        /\ pc' = "outer"
        /\ UNCHANGED <<test, next_test, i_read>>
  /\ UNCHANGED <<test_of, suite_of, sorted, i_write>>

\* Defective variant of MoveForward: the store without the memmove.
MoveForwardStoreOnly(s, w, r) ==
  [j \in Cases |-> IF j = w THEN s[r] ELSE s[j]]

\* Shift sorted[w..r-1] up by one and put sorted[r] at w (the memmove and
\* store of lines 109-110).
MoveForward(s, w, r) ==
  [j \in Cases |-> IF j < w \/ j > r THEN s[j]
                   ELSE IF j = w THEN s[r] ELSE s[j - 1]]

\* Defective variant of Scan: the last, not the first, case of another test
\* of the suite becomes the next test.
ScanLastCandidate ==
  LET read_test == test_of[sorted[i_read]] IN
  /\ pc = "scan" /\ i_read <= N
  /\ \/ /\ read_test # test
        /\ next_test' = IF suite_of[read_test] = suite_of[test]
                        THEN read_test ELSE next_test
        /\ UNCHANGED <<sorted, i_write>>
     \/ /\ read_test = test
        /\ sorted' = IF i_write # i_read THEN MoveForward(sorted, i_write, i_read) ELSE sorted
        /\ i_write' = i_write + 1
        /\ UNCHANGED next_test
  /\ i_read' = i_read + 1
  /\ UNCHANGED <<test_of, suite_of, test, pc>>

\* Lines 93-112: one iteration of the scan.  A case of another test of the
\* same suite is remembered as the next test if it is the first; a case of
\* the active test is moved forward to i_write.
Scan ==
  LET read_test == test_of[sorted[i_read]] IN
  /\ pc = "scan" /\ i_read <= N
  /\ \/ /\ read_test # test
        /\ next_test' = IF next_test = NULL /\ suite_of[read_test] = suite_of[test]
                        THEN read_test ELSE next_test
        /\ UNCHANGED <<sorted, i_write>>
     \/ /\ read_test = test
        /\ sorted' = IF i_write # i_read THEN MoveForward(sorted, i_write, i_read) ELSE sorted
        /\ i_write' = i_write + 1
        /\ UNCHANGED next_test
  /\ i_read' = i_read + 1
  /\ UNCHANGED <<test_of, suite_of, test, pc>>

ScanEnd ==
  /\ pc = "scan" /\ i_read > N
  /\ pc' = "next"
  /\ UNCHANGED <<test_of, suite_of, sorted, i_write, i_read, test, next_test>>

Next == Outer \/ NextTest \/ Scan \/ ScanEnd

Spec == Init /\ [][Next]_vars

-----------------------------------------------------------------------------
(* The order the dispatch loop needs, by definition: suites in the order   *)
(* of their first case, within a suite the tests in the order of their     *)
(* first case, within a test the cases in input order.                     *)
FirstCase(P(_)) == CHOOSE c \in Cases : P(c) /\ \A d \in Cases : P(d) => c <= d
SuiteRank(c) == FirstCase(LAMBDA d : suite_of[test_of[d]] = suite_of[test_of[c]])
TestRank(c) == FirstCase(LAMBDA d : test_of[d] = test_of[c])

Before(a, b) ==
  \/ SuiteRank(a) < SuiteRank(b)
  \/ SuiteRank(a) = SuiteRank(b) /\ TestRank(a) < TestRank(b)
  \/ SuiteRank(a) = SuiteRank(b) /\ TestRank(a) = TestRank(b) /\ a < b

Reference == SetToSortSeq(Cases, Before)

\* When repartition_testcases__ returns, the cases are in exactly the
\* reference order: a permutation of the input in which every test's cases
\* and every suite's tests are adjacent, and first appearances are kept.
PartitionCorrect ==
  pc = "done" => sorted = [c \in Cases |-> Reference[c]]
=============================================================================
