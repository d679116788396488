----------------------------- MODULE CaseReport -----------------------------
(***************************************************************************)
(* What a runner promises the test-case reporter it is handed for one test *)
(* case (include/ctest/exec/reporter.h, console_reporter.c): the reporter  *)
(* is started, then completed exactly once with a result, and the result   *)
(* never changes afterwards; a passing result carries no failure.  A       *)
(* reporter destroyed before complete has cancelled its case (reporter.h,  *)
(* ctest_testcase_reporter_destroy; spec section 4.11).  Both runners'     *)
(* runner_run_testcase__ are shown to implement this module by a           *)
(* refinement mapping from their own state.                                *)
(***************************************************************************)
CONSTANTS NULL, Results

VARIABLES
  rstate,    \* CONSOLE_TESTCASE_PENDING / _RUNNING / _COMPLETED, or
             \* "cancelled" once destroyed before completion
  rtype,     \* the type of the result handed to complete, once completed
  rfailed    \* whether that result carries a failure

vars == <<rstate, rtype, rfailed>>

Init ==
  /\ rstate = "pending"
  /\ rtype = NULL
  /\ rfailed = FALSE

\* testcase_reporter_op_start__
Start ==
  /\ rstate = "pending"
  /\ rstate' = "running"
  /\ UNCHANGED <<rtype, rfailed>>

\* testcase_reporter_op_complete__ with a result of any type; the failure is
\* whatever the runner attached, and none for a pass.
Complete ==
  /\ rstate = "running"
  /\ rstate' = "completed"
  /\ rtype' \in Results
  /\ rfailed' \in BOOLEAN
  /\ rtype' = "pass" => ~rfailed'

\* testcase_reporter_op_destroy__ before complete: the case is cancelled.
Cancel ==
  /\ rstate \in {"pending", "running"}
  /\ rstate' = "cancelled"
  /\ UNCHANGED <<rtype, rfailed>>

Next == Start \/ Complete \/ Cancel

\* A reached case is eventually reported or cancelled: neither Start nor
\* Complete can be postponed forever once enabled; Cancel is the client's
\* choice and is not forced.
Spec == Init /\ [][Next]_vars /\ WF_vars(Start) /\ WF_vars(Complete)
=============================================================================
