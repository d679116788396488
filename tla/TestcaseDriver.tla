--------------------------- MODULE TestcaseDriver ---------------------------
(***************************************************************************)
(* The test-case driver of a loaded module: testcase_op_execute__ and the  *)
(* dynamic-ops callbacks of src/src/exec/loader.c, driven by the module's  *)
(* assertion entry points ctest_fail / ctest_skip of src/src/tests/stub.c. *)
(*                                                                         *)
(* The module's own code (fixture setup, test body, fixture teardown) is   *)
(* the environment: each time control is inside it, it may return, call    *)
(* ctest_fail or ctest_skip (report a failure, then abort), or raise a     *)
(* signal.  What a runner does with a signal is the runner's business: the *)
(* driver only stops (dpc = "signalled").                                  *)
(*                                                                         *)
(* The execution hooks the driver reports to are recorded as the sequence  *)
(* hook_calls; a runner that composes this module turns each call into its *)
(* own effect (an event on a pipe, a siglongjmp).  on_skip and on_failure  *)
(* never return, so after one of them the driver is "unwound".             *)
(***************************************************************************)
EXTENDS Naturals, Sequences, FiniteSetsExt

CONSTANT NULL

Stages == {"setup", "execution", "teardown"}

\* The module callbacks control can be inside of.  "abort_teardown" is the
\* teardown called from dynamic_ops_abort__ rather than from the normal path.
UserCode == {"setup", "body", "teardown", "abort_teardown"}
Done == {"returned", "unwound", "signalled"}
Pcs == {"idle"} \cup UserCode \cup Done

\* A failure record: the stage it names and where it came from: the n-th
\* report_failure of the case, the driver's fixture-allocation failure, or
\* a runner (its signal handler, or the parent process).  The message text
\* and location are abstracted to this origin.
Origins == {"report", "alloc", "signal", "parent"}
Failure(s, origin, n) == [stage |-> s, origin |-> origin, n |-> n]
AllocFailure == Failure("setup", "alloc", 0)
Failures == [stage : Stages, origin : Origins, n : Nat]

\* A fixture provider as the loader sees it: optional setup and teardown,
\* a size that does or does not fit the 128-byte inline storage, and
\* whether the module exports the ctest_dynamic_ops cell.
Providers == [setup : BOOLEAN, teardown : BOOLEAN, heap : BOOLEAN, cell : BOOLEAN]

StageHook(s) == [op |-> "stage", arg |-> s]
AbortHook(kind, f) == [op |-> IF kind = "skip" THEN "skip" ELSE "failure", arg |-> f]

VARIABLES
  provider,          \* the test's fixture provider and the module's cell export
  dpc,               \* where control is
  stage,             \* dynamic_ops.stage
  failure,           \* dynamic_ops.failure (first reported failure, or NULL)
  abort_type,        \* dynamic_ops.abort_type
  teardown,          \* dynamic_ops.teardown != NULL
  fixture,           \* "none" | "stack" | "heap" (free_fixture) | "freed"
  dynamic_ops_cell,  \* *p_dynamic_ops: the module's "old" value or "ours"
  hook_calls,        \* the execution-hook calls made so far
  reported,          \* history: failures passed to report_failure, in order
  aborts,            \* history: abort types passed to abort, in order
  teardown_runs      \* history: how many times teardown was called

dvars == <<provider, dpc, stage, failure, abort_type, teardown, fixture,
           dynamic_ops_cell, hook_calls, reported, aborts, teardown_runs>>

TypeOK ==
  /\ provider \in Providers
  /\ dpc \in Pcs
  /\ stage \in Stages
  /\ failure \in Failures \cup {NULL}
  /\ abort_type \in {"none", "fail", "skip"}
  /\ teardown \in BOOLEAN
  /\ fixture \in {"none", "stack", "heap", "freed"}
  /\ dynamic_ops_cell \in {"old", "ours"}
  /\ \A i \in DOMAIN hook_calls :
        IF hook_calls[i].op = "stage" THEN hook_calls[i].arg \in Stages
        ELSE hook_calls[i] \in [op : {"skip", "failure"}, arg : Failures]
  /\ reported \in Seq(Failures)
  /\ aborts \in Seq({"fail", "skip"})
  /\ teardown_runs \in Nat

Init ==
  /\ provider \in Providers
  /\ dpc = "idle"
  /\ stage = "setup"
  /\ failure = NULL
  /\ abort_type = "none"
  /\ teardown = FALSE
  /\ fixture = "none"
  /\ dynamic_ops_cell = "old"
  /\ hook_calls = <<>>
  /\ reported = <<>>
  /\ aborts = <<>>
  /\ teardown_runs = 0

-----------------------------------------------------------------------------
(* Steps of dynamic_ops_abort__.  AbortFinish is its tail: release the     *)
(* fixture, restore the module's cell, hand the failure to on_skip or      *)
(* on_failure (appended to the hook calls h), which unwind.               *)
AbortFinish(kind, f, h) ==
  /\ fixture' = IF fixture = "heap" THEN "freed" ELSE fixture
  /\ dynamic_ops_cell' = "old"
  /\ failure' = NULL
  /\ hook_calls' = Append(h, AbortHook(kind, f))
  /\ dpc' = "unwound"
  /\ UNCHANGED teardown

\* Defective variants of AbortStart: a nested abort overwrites the abort
\* type; the teardown is called without being cleared first.
AbortStartOverwritingType(kind, f) ==
  /\ abort_type' = kind
  /\ \/ /\ teardown
        /\ teardown' = FALSE
        /\ teardown_runs' = teardown_runs + 1
        /\ failure' = f
        /\ dpc' = "abort_teardown"
        /\ UNCHANGED <<fixture, dynamic_ops_cell, hook_calls>>
     \/ /\ ~teardown
        /\ AbortFinish(kind, f, hook_calls)
        /\ UNCHANGED teardown_runs

AbortStartKeepingTeardown(kind, f) ==
  LET kind_now == IF abort_type = "none" THEN kind ELSE abort_type IN
  /\ abort_type' = kind_now
  /\ \/ /\ teardown
        /\ teardown' = TRUE
        /\ teardown_runs' = teardown_runs + 1
        /\ failure' = f
        /\ dpc' = "abort_teardown"
        /\ UNCHANGED <<fixture, dynamic_ops_cell, hook_calls>>
     \/ /\ ~teardown
        /\ AbortFinish(kind_now, f, hook_calls)
        /\ UNCHANGED teardown_runs

\* dynamic_ops_abort__ entered with the (already reported) failure f: keep
\* the first abort type, then call the teardown once, clearing it first.
AbortStart(kind, f) ==
  LET kind_now == IF abort_type = "none" THEN kind ELSE abort_type IN
  /\ abort_type' = kind_now
  /\ \/ /\ teardown
        /\ teardown' = FALSE
        /\ teardown_runs' = teardown_runs + 1
        /\ failure' = f
        /\ dpc' = "abort_teardown"
        /\ UNCHANGED <<fixture, dynamic_ops_cell, hook_calls>>
     \/ /\ ~teardown
        /\ AbortFinish(kind_now, f, hook_calls)
        /\ UNCHANGED teardown_runs

\* dynamic_ops_op_report_failure__: keep the first failure only.
ReportFailure(f) == IF failure = NULL THEN f ELSE failure

\* Lines 229-231: announce the execution stage and call the test body.
EnterExecution ==
  /\ stage' = "execution"
  /\ dpc' = "body"

-----------------------------------------------------------------------------
(* testcase_op_execute__ up to the call of the fixture's setup: hook into  *)
(* the module's cell, announce setup, allocate and zero the fixture (heap  *)
(* allocation may fail, reported through on_failure), call setup.          *)
Begin ==
  /\ dpc = "idle"
  /\ teardown' = provider.teardown
  /\ dynamic_ops_cell' = IF provider.cell THEN "ours" ELSE dynamic_ops_cell
  /\ \/ /\ provider.heap
        /\ stage' = "setup"
        /\ fixture' = "none"
        /\ hook_calls' = hook_calls \o <<StageHook("setup"), AbortHook("fail", AllocFailure)>>
        /\ dpc' = "unwound"
     \/ /\ fixture' = IF provider.heap THEN "heap" ELSE "stack"
        /\ provider.setup
        /\ stage' = "setup"
        /\ hook_calls' = Append(hook_calls, StageHook("setup"))
        /\ dpc' = "setup"
     \/ /\ fixture' = IF provider.heap THEN "heap" ELSE "stack"
        /\ ~provider.setup
        /\ EnterExecution
        /\ hook_calls' = hook_calls \o <<StageHook("setup"), StageHook("execution")>>
  /\ UNCHANGED <<provider, failure, abort_type, reported, aborts, teardown_runs>>

\* The fixture's setup returns: announce execution, call the body.
SetupReturns ==
  /\ dpc = "setup"
  /\ EnterExecution
  /\ hook_calls' = Append(hook_calls, StageHook("execution"))
  /\ UNCHANGED <<provider, failure, abort_type, teardown, fixture,
                 dynamic_ops_cell, reported, aborts, teardown_runs>>

\* Defective variant of AfterTeardown: the heap fixture is never freed.
AfterTeardownLeakingFixture(h) ==
  IF failure # NULL
  THEN /\ abort_type' = IF abort_type = "none" THEN "fail" ELSE abort_type
       /\ AbortFinish(abort_type', failure, h)
  ELSE /\ dynamic_ops_cell' = IF provider.cell THEN "old" ELSE dynamic_ops_cell
       /\ fixture' = fixture
       /\ hook_calls' = h
       /\ dpc' = "returned"
       /\ UNCHANGED <<failure, abort_type>>

\* Lines 243-255, after the teardown, with the hook calls h made so far: a
\* failure reported without an abort is promoted to a fail abort; otherwise
\* unhook from the module's cell, free a heap fixture, return to the runner.
AfterTeardown(h) ==
  IF failure # NULL
  THEN /\ abort_type' = IF abort_type = "none" THEN "fail" ELSE abort_type
       /\ AbortFinish(abort_type', failure, h)
  ELSE /\ dynamic_ops_cell' = IF provider.cell THEN "old" ELSE dynamic_ops_cell
       /\ fixture' = IF fixture = "heap" THEN "freed" ELSE fixture
       /\ hook_calls' = h
       /\ dpc' = "returned"
       /\ UNCHANGED <<failure, abort_type>>

\* The body returns: announce teardown, then call the teardown (cleared
\* first) or, without one, finish.
BodyReturns ==
  LET h == Append(hook_calls, StageHook("teardown")) IN
  /\ dpc = "body"
  /\ stage' = "teardown"
  /\ \/ /\ teardown
        /\ teardown' = FALSE
        /\ teardown_runs' = teardown_runs + 1
        /\ hook_calls' = h
        /\ dpc' = "teardown"
        /\ UNCHANGED <<failure, abort_type, fixture, dynamic_ops_cell>>
     \/ /\ ~teardown
        /\ AfterTeardown(h)
        /\ UNCHANGED <<teardown, teardown_runs>>
  /\ UNCHANGED <<provider, reported, aborts>>

TeardownReturns ==
  /\ dpc = "teardown"
  /\ AfterTeardown(hook_calls)
  /\ UNCHANGED <<provider, stage, teardown, reported, aborts, teardown_runs>>

\* The teardown called from an abort returns: finish the abort.
AbortTeardownReturns ==
  /\ dpc = "abort_teardown"
  /\ AbortFinish(abort_type, failure, hook_calls)
  /\ UNCHANGED <<provider, stage, abort_type, reported, aborts, teardown_runs>>

\* ctest_fail / ctest_skip (stub.c): report_failure through the module's
\* cell, then abort with the matching type.  Only a module exporting the
\* cell links them.
CtestAbort(kind) ==
  LET f == Failure(stage, "report", Len(reported) + 1) IN
  /\ dpc \in UserCode
  /\ provider.cell
  /\ reported' = Append(reported, f)
  /\ aborts' = Append(aborts, kind)
  /\ AbortStart(kind, ReportFailure(f))
  /\ UNCHANGED <<provider, stage>>

\* A signal raised by the module's code: the runner's handler takes over.
Signal ==
  /\ dpc \in UserCode
  /\ dpc' = "signalled"
  /\ UNCHANGED <<provider, stage, failure, abort_type, teardown, fixture,
                 dynamic_ops_cell, hook_calls, reported, aborts, teardown_runs>>

\* Every step but a signal.
Step ==
  \/ Begin
  \/ SetupReturns
  \/ BodyReturns
  \/ TeardownReturns
  \/ AbortTeardownReturns
  \/ CtestAbort("fail")
  \/ CtestAbort("skip")

Next == Step \/ Signal

Spec == Init /\ [][Next]_dvars

-----------------------------------------------------------------------------
Finished == dpc \in {"returned", "unwound"}

\* The last stage announced to the hooks (setup before the first).
LastAnnounced ==
  LET ks == {k \in DOMAIN hook_calls : hook_calls[k].op = "stage"}
  IN IF ks = {} THEN "setup" ELSE hook_calls[Max(ks)].arg

\* The result a runner owes the case once the driver is done: a pass, the
\* kind and failure of the final on_skip / on_failure, or a failure naming
\* the announced stage when the module's code raised a signal.
Outcome ==
  CASE dpc = "returned" -> "pass"
    [] dpc = "unwound" /\ hook_calls[Len(hook_calls)].op = "skip" -> "skipped"
    [] OTHER -> "fail"

OutcomeFailure ==
  CASE dpc = "returned" -> NULL
    [] dpc = "unwound" -> hook_calls[Len(hook_calls)].arg
    [] OTHER -> Failure(LastAnnounced, "signal", 0)

\* Whatever the module's code does after its first ctest_fail / ctest_skip
\* (a second report, a fail or skip from the teardown that the abort calls),
\* the driver's final hook call is the FIRST abort's kind carrying the
\* FIRST reported failure (report_failure keeps the first failure,
\* dynamic_ops_abort__ keeps the first abort type).
OutcomeIsFirstAbort ==
  (dpc = "unwound" /\ aborts # <<>>) =>
     hook_calls[Len(hook_calls)] = AbortHook(aborts[1], reported[1])

\* Once the fixture is allocated, the provider's teardown runs exactly once
\* on every way out of testcase_op_execute__ (normal return, an abort in
\* setup, body or teardown, an abort inside the abort's own teardown).
TeardownExactlyOnce ==
  (Finished /\ fixture # "none") =>
     teardown_runs = IF provider.teardown THEN 1 ELSE 0

\* The teardown never runs on a released fixture, and a heap fixture is
\* released on every way out (the order of teardown and free in
\* dynamic_ops_abort__ and at the end of testcase_op_execute__).
FixtureLifetime ==
  /\ dpc \in {"teardown", "abort_teardown"} => fixture \in {"stack", "heap"}
  /\ Finished => fixture # "heap"

\* While a fixture's teardown runs, the stage the driver stamps failures with
\* and has announced to the hooks is the teardown stage (spec 4.7: an abort
\* still runs the teardown step).
TeardownAnnounced ==
  dpc \in {"teardown", "abort_teardown"} => stage = "teardown"
=============================================================================
