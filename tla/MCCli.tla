------------------------------- MODULE MCCli --------------------------------
(* The suite files for checking module Cli: a suite with a data-driven     *)
(* test of two rows and a plain test, an empty suite, and a file that is  *)
(* not a loadable suite.                                                   *)
(* Beside the front end runs the library's in-memory suite builder         *)
(* (module TestingSuite) with the same allocation failures; the two share  *)
(* no state and every property is about one of them, so the builder runs  *)
(* first and the front end after it: interleaving them would only repeat  *)
(* each component's states.                                               *)
EXTENDS Cli

VARIABLES ts_pc, ts_suite, ts_live

TS == INSTANCE TestingSuite WITH BuilderAllocFailures <- AllocFailures

ts_vars == <<ts_pc, ts_suite, ts_live>>

MCInit == Init /\ TS!TSInit

CliStep == ts_pc = "done" /\ Next /\ UNCHANGED ts_vars
BuilderStep == TS!TSNext /\ UNCHANGED vars

MCNext == CliStep \/ BuilderStep

MCSpec ==
  MCInit /\ [][MCNext]_<<vars, ts_vars>> /\ WF_<<vars, ts_vars>>(CliStep)
    /\ WF_<<vars, ts_vars>>(BuilderStep)

(* Every allocation of ctest_create_testing_testsuite may fail: once the    *)
(* caller has destroyed what it got, nothing the builder allocated is left  *)
(* alive (testing_testsuite.c create_test_failed and the destroy ops).      *)
BuilderReleases == TS!BuilderReleases

(* A suite ctest_create_testing_testsuite returns has one test per          *)
(* non-empty combination of the kinds of its table, in table order.         *)
BuilderShape == TS!BuilderShape

MCFiles ==
  {[kind |-> "ok", tests |-> <<[cases |-> 2, data |-> TRUE], [cases |-> 1, data |-> FALSE]>>],
   [kind |-> "ok", tests |-> <<>>],
   [kind |-> "badsym", tests |-> <<>>]}

MCMaxArgs == 2
=============================================================================
