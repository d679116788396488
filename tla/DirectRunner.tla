---------------------------- MODULE DirectRunner ----------------------------
(***************************************************************************)
(* runner_run_testcase__ of src/src/exec/direct_runner.c: one test case    *)
(* run in-process.  The runner saves and redirects the standard            *)
(* descriptors, arms sigsetjmp, starts the reporter, installs the signal   *)
(* capture and calls the test-case driver (module TestcaseDriver, composed *)
(* by INSTANCE).  The driver's execution hooks act synchronously: a stage  *)
(* change is stored in exec_hooks.stage, on_skip / on_failure set the      *)
(* result and siglongjmp back (RESULT_TYPE_NORMAL__); a caught signal      *)
(* siglongjmps back from the handler (RESULT_TYPE_SIGNAL__).               *)
(*                                                                         *)
(* A signal from outside may arrive whenever the capture is installed:     *)
(* inside the driver, after it returned, or inside the switch that handles *)
(* an earlier jump.  The redirected output is left out (see the README).   *)
(***************************************************************************)
EXTENDS Naturals, Sequences, FiniteSetsExt

CONSTANTS
  NULL,
  MaxAsyncSignals,   \* bound on signals sent from outside during the case
  DupFailures,       \* whether dup()/open()/mkstemp() may fail
  CaptureFailures    \* whether sigcapture__/sigrestore__ may fail

VARIABLES
  provider, dpc, stage, failure, abort_type, teardown, fixture,
  dynamic_ops_cell, hook_calls, reported, aborts, teardown_runs,
  xpc,          \* "init" | "running" | "branch" | "after" | "done" | "killed"
  jump,         \* the value sigsetjmp returns into the switch
  h_stage,      \* exec_hooks.stage
  captured,     \* handler__: "none", "live" (this call's exec_hooks) or
                \* "stale" (an exec_hooks whose frame has returned)
  signals,      \* outside signals delivered so far
  res_type,     \* exec_hooks.result->type
  res_failure,  \* exec_hooks.result->failure
  retval,       \* the local "result"
  rep_state     \* the test case reporter

D == INSTANCE TestcaseDriver

dvars == <<provider, dpc, stage, failure, abort_type, teardown, fixture,
           dynamic_ops_cell, hook_calls, reported, aborts, teardown_runs>>
xvars == <<xpc, jump, h_stage, captured, signals, res_type, res_failure, retval, rep_state>>
vars == <<dvars, xvars>>

ResultTypes == {"pass", "fail", "skipped", "error"}

\* exec_hooks_init__ and the locals of runner_run_testcase__.
Init ==
  /\ D!Init
  /\ xpc = "init"
  /\ jump = "none"
  /\ h_stage = "setup"
  /\ captured = "none"
  /\ signals = 0
  /\ res_type = "pass" /\ res_failure = NULL
  /\ retval = 1
  /\ rep_state = "pending"

-----------------------------------------------------------------------------
(* The runner ignores what sigcapture__ and sigrestore__ return (lines    *)
(* 227, 262).  sigcapture__ fails with EBUSY while an earlier call's       *)
(* handler__ is still published (a stale capture), or after a failed      *)
(* sigaction() whose rollback put the dispositions back (none).            *)
(* sigrestore__ that fails leaves handler__ and cookie__ pointing at this  *)
(* call's exec_hooks, stale once the call returns.                         *)
CaptureOutcomes == IF CaptureFailures THEN {"live", "none", "stale"} ELSE {"live"}
RestoreOutcomes == IF CaptureFailures THEN {"none", "stale"} ELSE {"none"}

\* Defective variant of Prepare: the reporter is not started.
PrepareWithoutStart ==
  /\ xpc = "init"
  /\ \/ /\ DupFailures
        /\ xpc' = "done"
        /\ UNCHANGED captured
     \/ /\ captured' \in CaptureOutcomes
        /\ xpc' = "running"
  /\ UNCHANGED <<dvars, jump, h_stage, signals, res_type, res_failure, retval, rep_state>>

(* Lines 196-227 up to the driver call: save and redirect the descriptors  *)
(* (any failure returns 1 at once, before the reporter is started), then,  *)
(* on sigsetjmp's first return, start the reporter and install the capture. *)
Prepare ==
  /\ xpc = "init"
  /\ \/ /\ DupFailures
        /\ xpc' = "done"
        /\ UNCHANGED <<rep_state, captured>>
     \/ /\ rep_state' = "running"
        /\ captured' \in CaptureOutcomes
        /\ xpc' = "running"
  /\ UNCHANGED <<dvars, jump, h_stage, signals, res_type, res_failure, retval>>

\* The hook calls one driver step makes.
NewCalls == [i \in 1..(Len(hook_calls') - Len(hook_calls)) |->
               hook_calls'[Len(hook_calls) + i]]

\* exec_hooks_op_on_stage_change__: the last stage announced by the step.
StageAfter(calls) ==
  LET ks == {i \in DOMAIN calls : calls[i].op = "stage"}
  IN IF ks = {} THEN h_stage ELSE calls[Max(ks)].arg

\* Defective variant of DriverStep: stage changes are not recorded.
DriverStepIgnoringStage ==
  /\ xpc = "running"
  /\ D!Step
  /\ UNCHANGED h_stage
  /\ \/ /\ NewCalls # <<>> /\ NewCalls[Len(NewCalls)].op # "stage"
        /\ res_type' = IF NewCalls[Len(NewCalls)].op = "skip" THEN "skipped" ELSE "fail"
        /\ res_failure' = NewCalls[Len(NewCalls)].arg
        /\ jump' = "normal" /\ xpc' = "branch"
        /\ UNCHANGED retval
     \/ /\ dpc' = "returned"
        /\ res_type' = "pass" /\ retval' = 0 /\ xpc' = "after"
        /\ UNCHANGED <<jump, res_failure>>
     \/ /\ dpc' \notin D!Done
        /\ UNCHANGED <<xpc, jump, res_type, res_failure, retval>>
  /\ UNCHANGED <<captured, signals, rep_state>>

(* One step of the driver with its hooks: record the announced stage;      *)
(* on_skip / on_failure set the result (exec_hooks_on_short_circuit__) and *)
(* siglongjmp with RESULT_TYPE_NORMAL__; a driver that returns gets the    *)
(* pass of lines 229-230.                                                  *)
DriverStep ==
  /\ xpc = "running"
  /\ D!Step
  /\ h_stage' = StageAfter(NewCalls)
  /\ \/ /\ NewCalls # <<>> /\ NewCalls[Len(NewCalls)].op # "stage"
        /\ res_type' = IF NewCalls[Len(NewCalls)].op = "skip" THEN "skipped" ELSE "fail"
        /\ res_failure' = NewCalls[Len(NewCalls)].arg
        /\ jump' = "normal" /\ xpc' = "branch"
        /\ UNCHANGED retval
     \/ /\ dpc' = "returned"
        /\ res_type' = "pass" /\ retval' = 0 /\ xpc' = "after"
        /\ UNCHANGED <<jump, res_failure>>
     \/ /\ dpc' \notin D!Done
        /\ UNCHANGED <<xpc, jump, res_type, res_failure, retval>>
  /\ UNCHANGED <<captured, signals, rep_state>>

(* The module's code raises a signal: handle_signal__ siglongjmps with    *)
(* RESULT_TYPE_SIGNAL__, abandoning the driver where it is.  Without a     *)
(* capture the default action ends the process; through a stale one it    *)
(* siglongjmps into a dead frame, undefined behaviour taken as a crash.    *)
(* Either way the reporter is never completed.                            *)
DriverSignal ==
  /\ xpc = "running"
  /\ D!Signal
  /\ jump' = "signal"
  /\ xpc' = IF captured = "live" THEN "branch" ELSE "killed"
  /\ UNCHANGED <<h_stage, captured, signals, res_type, res_failure, retval, rep_state>>

(* A signal from outside while the capture is installed jumps back into    *)
(* the switch from wherever the runner is.  "result" is a non-volatile     *)
(* local: once line 230 changed it after sigsetjmp, its value after the    *)
(* jump is indeterminate (C11 7.13.2.1), either the saved or the new one.  *)
AsyncSignal ==
  /\ signals < MaxAsyncSignals
  /\ captured = "live"
  /\ xpc \in {"running", "branch", "after"}
  /\ jump' = "signal" /\ xpc' = "branch"
  /\ retval' \in IF retval = 0 THEN {0, 1} ELSE {retval}
  /\ signals' = signals + 1
  /\ UNCHANGED <<dvars, h_stage, captured, res_type, res_failure, rep_state>>

\* Lines 233-244: the switch.  A short circuit already filled the result; a
\* signal makes it a failure naming exec_hooks.stage.
Branch ==
  /\ xpc = "branch"
  /\ \/ /\ jump = "normal"
        /\ UNCHANGED <<res_type, res_failure>>
     \/ /\ jump = "signal"
        /\ res_type' = "fail"
        /\ res_failure' = D!Failure(h_stage, "signal", 0)
  /\ xpc' = "after"
  /\ UNCHANGED <<dvars, jump, h_stage, captured, signals, retval, rep_state>>

\* Lines 262-287: sigrestore__, restore the descriptors, attach the output,
\* complete the reporter, return "result".
Finish ==
  /\ xpc = "after"
  /\ captured' \in RestoreOutcomes
  /\ rep_state' = "completed"
  /\ xpc' = "done"
  /\ UNCHANGED <<dvars, jump, h_stage, signals, res_type, res_failure, retval>>

Next ==
  \/ Prepare \/ DriverStep \/ DriverSignal \/ Branch \/ Finish
  \/ AsyncSignal

\* The runner's own steps are taken when enabled, and the module's code
\* terminates; outside signals are not forced.
Spec ==
  /\ Init /\ [][Next]_vars
  /\ WF_vars(Prepare) /\ WF_vars(DriverStep) /\ WF_vars(Branch) /\ WF_vars(Finish)
-----------------------------------------------------------------------------
\* Types.
TypeOK ==
  /\ D!TypeOK
  /\ xpc \in {"init", "running", "branch", "after", "done", "killed"}
  /\ captured \in {"none", "live", "stale"}
  /\ jump \in {"none", "normal", "signal"}
  /\ h_stage \in D!Stages
  /\ signals \in 0..MaxAsyncSignals
  /\ res_type \in ResultTypes
  /\ res_failure \in D!Failures \cup {NULL}
  /\ retval \in {0, 1}
  /\ rep_state \in {"pending", "running", "completed"}

(* The result handed to the reporter is the driver's outcome: a pass, the  *)
(* first abort's kind and failure, or a failure naming the last stage the  *)
(* driver announced when the module's code raised a signal.               *)
DirectResultMatchesDriver ==
  (xpc = "done" /\ rep_state = "completed" /\ signals = 0) =>
    /\ res_type = D!Outcome
    /\ res_failure = D!OutcomeFailure

(* The runner implements CaseReport: started, completed exactly once, the  *)
(* result never changed afterwards, a pass without a failure; or, when the *)
(* descriptors cannot be saved or redirected, returned without starting    *)
(* the reporter, which run_testcases_in_test__ then destroys: cancelled.   *)
Report == INSTANCE CaseReport WITH
  rstate <- IF xpc = "done" /\ rep_state = "pending" THEN "cancelled" ELSE rep_state,
  rtype <- IF rep_state = "completed" THEN res_type ELSE NULL,
  rfailed <- rep_state = "completed" /\ res_failure # NULL,
  Results <- ResultTypes

ImplementsCaseReport == Report!Spec

\* runner_run_testcase__ returns 1 exactly for a failed or errored case
\* (spec 4.10: the dispatch counts fails and errors).
DirectRetvalMatchesResult ==
  (xpc = "done" /\ rep_state = "completed") =>
    retval = IF res_type \in {"fail", "error"} THEN 1 ELSE 0

\* The driver's final hook call is the first abort with the first failure
\* (module TestcaseDriver: report_failure and dynamic_ops_abort__ keep the
\* first), checked with the driver composed into the runner.
DriverOutcomeIsFirstAbort == D!OutcomeIsFirstAbort

\* The provider's teardown runs exactly once on every way the driver returns
\* or unwinds (dynamic_ops_abort__ and testcase_op_execute__).
DriverTeardownExactlyOnce == D!TeardownExactlyOnce

\* A heap fixture is released only after its teardown and always on the way
\* out of testcase_op_execute__.
DriverFixtureLifetime == D!FixtureLifetime
=============================================================================
