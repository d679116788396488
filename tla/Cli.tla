-------------------------------- MODULE Cli ---------------------------------
(***************************************************************************)
(* The command-line driver of src/src/cli/main.c with the module loader of *)
(* src/src/exec/loader.c: main picks the command, run__ loads every suite  *)
(* named on the command line (load_testsuites__, ctest_load_testsuite),    *)
(* creates the console reporter and a runner, calls                        *)
(* ctest_runner_run_testsuites and destroys everything again; ls__ loads   *)
(* and lists.  What is tracked is the set of objects alive on the heap and *)
(* in libltdl, so that each failure label's cleanup can be compared with   *)
(* what was acquired before it, and the exit status.                      *)
(*                                                                         *)
(* Every calloc/malloc may fail (AllocFailures); lt_dlinit and the         *)
(* lt_dladvise calls may fail (LtdlFailures); a named file may not be a    *)
(* loadable suite (its kind).  Dispatch itself is module Dispatch; here    *)
(* only the value ctest_runner_run_testsuites returns is chosen.           *)
(***************************************************************************)
EXTENDS Integers, Sequences, FiniteSets, Functions

CONSTANTS
  Files,          \* the suite files that may be named on the command line
  MaxArgs,        \* bound on the number of suites named
  NULL,
  AllocFailures,  \* whether calloc/malloc may return NULL
  LtdlFailures    \* whether lt_dlinit / lt_dladvise_* may fail

(* A file is [kind, tests]: kind "ok", "nofile" (lt_dlopen fails),        *)
(* "nosym" (no suite symbol) or "badsym" (bad magic or version); tests is  *)
(* the suite's test array, each test [cases, data]: the data provider's    *)
(* count, and whether its to_string names the cases (data rows) or the    *)
(* null provider is used (one case named after the test).                 *)
ASSUME \A f \in Files :
         /\ f.kind \in {"ok", "nofile", "nosym", "badsym"}
         /\ \A t \in DOMAIN f.tests : ~f.tests[t].data => f.tests[t].cases = 1

\* sysexits.h
EX_OK == 0
EX_USAGE == 64
EX_UNAVAILABLE == 69
EX_SOFTWARE == 70

VARIABLES
  cmdline,        \* [mopt, command, copt]: main's option, the command, its option
  args,           \* the suites named after the command
  pc,             \* where the program is
  li,             \* load_testsuites__'s loop index
  loaded,         \* history: the indices whose ctest_load_testsuite succeeded
  live,           \* objects alive: <<kind, arg, test, case>>
  dl_refs,        \* libltdl's lt_dlinit reference count
  failure_count,  \* what ctest_runner_run_testsuites returned, or NULL
  status          \* the exit status, or NULL

vars == <<cmdline, args, pc, li, loaded, live, dl_refs, failure_count, status>>

Made == IF AllocFailures THEN BOOLEAN ELSE {TRUE}

Obj(k, a, t, c) == <<k, a, t, c>>

\* The command run__ / ls__ is running ("run" when none is named).
Cmd == IF cmdline.command = "ls" THEN "ls" ELSE "run"

CaseCount(f) == FoldFunction(LAMBDA x, y : x + y, 0, [t \in DOMAIN f.tests |-> f.tests[t].cases])
-----------------------------------------------------------------------------
(* The objects each destructor frees.  testcase_destroy__ frees the name   *)
(* unless it is the test definition's own name (no data to format).       *)
TestcaseFreed(a, t, c, d) ==
  {Obj("case", a, t, c)} \cup (IF d.data THEN {Obj("name", a, t, c)} ELSE {})

\* Defective variant of TestFreed: the testcases array is not freed.
TestFreedKeepingArray(a, t, d) ==
  {Obj("test", a, t, 0)} \cup UNION {TestcaseFreed(a, t, c, d) : c \in 1..d.cases}

\* test_destroy__: every test case, the array, the test.
TestFreed(a, t, d) ==
  {Obj("test", a, t, 0), Obj("cases", a, t, 0)}
    \cup UNION {TestcaseFreed(a, t, c, d) : c \in 1..d.cases}

\* testsuite_op_destroy__: every test, the array, the suite, lt_dlclose.
TestsuiteFreed(a, f) ==
  {Obj("suite", a, 0, 0), Obj("tests", a, 0, 0), Obj("handle", a, 0, 0)}
    \cup UNION {TestFreed(a, t, f.tests[t]) : t \in DOMAIN f.tests}

\* destroy_testsuite_collection__: every suite, the array, the collection.
CollectionFreed ==
  {Obj("collection", 0, 0, 0), Obj("array", 0, 0, 0)}
    \cup UNION {TestsuiteFreed(a, args[a]) : a \in DOMAIN args}

\* reporter_op_destroy__ and runner_op_destroy__.
ReporterFreed == {Obj("reporter", 0, 0, 0), Obj("fp", 0, 0, 0)}
RunnerFreed == {Obj("runner", 0, 0, 0)}
-----------------------------------------------------------------------------
(* The constructors, as the set of their possible outcomes [ok, res]: on   *)
(* success res is what was created; on failure res is what the failure    *)
(* label's cleanup left alive.                                              *)
Fail(res) == [ok |-> FALSE, res |-> res]

(* testcase_create__: calloc the test case and, when to_string yields a    *)
(* name, malloc "name[data]"; name_alloc_failed frees the test case.       *)
TestcaseCreate(a, t, c, d) ==
  (IF AllocFailures THEN {Fail({})} ELSE {})
    \cup {[ok |-> TRUE, res |-> TestcaseFreed(a, t, c, d)]}

(* test_create__'s loop from case c on: the test cases created so far stay *)
(* in testcases[] when one fails.                                          *)
RECURSIVE CasesCreate(_, _, _, _)
CasesCreate(a, t, d, c) ==
  IF c > d.cases THEN {[ok |-> TRUE, res |-> {}]}
  ELSE UNION {IF o.ok
              THEN {[ok |-> r.ok, res |-> o.res \cup r.res] : r \in CasesCreate(a, t, d, c + 1)}
              ELSE {Fail({})}
              : o \in TestcaseCreate(a, t, c, d)}

(* test_create__: calloc the test and the testcases array (either failing *)
(* frees what came before); testcase_create_failed destroys every non-NULL *)
(* entry of testcases[], then frees the array and the test.                *)
TestCreate(a, t, d) ==
  (IF AllocFailures THEN {Fail({})} ELSE {})
    \cup {IF r.ok
          THEN [ok |-> TRUE, res |-> r.res \cup {Obj("test", a, t, 0), Obj("cases", a, t, 0)}]
          ELSE Fail(r.res \ UNION {TestcaseFreed(a, t, c, d) : c \in 1..d.cases})
          : r \in CasesCreate(a, t, d, 1)}

\* ctest_load_testsuite's loop from test t on.
RECURSIVE TestsCreate(_, _, _)
TestsCreate(a, f, t) ==
  IF t > Len(f.tests) THEN {[ok |-> TRUE, res |-> {}]}
  ELSE UNION {IF o.ok
              THEN {[ok |-> r.ok, res |-> o.res \cup r.res] : r \in TestsCreate(a, f, t + 1)}
              ELSE {Fail({})}
              : o \in TestCreate(a, t, f.tests[t])}

(* ctest_load_testsuite from the suite's calloc on: calloc the suite, the  *)
(* tests array when test_count > 0, create each test.  test_creation_failed *)
(* destroys every non-NULL tests[i] and frees the suite, then falls        *)
(* through lt_dlclose, lt_dladvise_destroy and lt_dlexit; the success path *)
(* returns without lt_dladvise_destroy.                                    *)
Instantiate(a, f) ==
  LET own == {Obj("suite", a, 0, 0), Obj("handle", a, 0, 0), Obj("advise", a, 0, 0)}
               \cup (IF f.tests # <<>> THEN {Obj("tests", a, 0, 0)} ELSE {})
  IN (IF AllocFailures THEN {Fail({})} ELSE {})
       \cup {IF r.ok
             THEN [ok |-> TRUE, res |-> own \cup r.res]
             ELSE Fail((own \cup r.res)
                         \ (UNION {TestFreed(a, t, f.tests[t]) : t \in DOMAIN f.tests}
                            \cup {Obj("suite", a, 0, 0), Obj("handle", a, 0, 0),
                                  Obj("advise", a, 0, 0)}))
             : r \in TestsCreate(a, f, 1)}

(* ctest_load_testsuite: lt_dlinit, lt_dladvise_init / _local, lt_dlopen,  *)
(* the suite symbol and its magic and version, each failure unwinding what *)
(* came before it, lt_dlexit included; a loaded suite keeps one lt_dlinit  *)
(* reference until testsuite_op_destroy__.                                 *)
LoadTestsuite(a, f) ==
  (IF LtdlFailures THEN {Fail({})} ELSE {})
    \cup (IF f.kind = "ok" THEN Instantiate(a, f) ELSE {Fail({})})

(* dup__(stdout): fileno, fcntl(F_GETFL), dup, FD_CLOEXEC and fdopen; a   *)
(* failure after dup closes the descriptor, so nothing is left open.  Its  *)
(* failures (descriptors, fdopen's FILE) are counted with AllocFailures.   *)
DupStdout == Made

(* ctest_create_console_reporter: calloc the reporter and dup__ stdout,    *)
(* dup_failed freeing the reporter.                                        *)
CreateConsoleReporter ==
  {[ok |-> m /\ d, res |-> IF m /\ d THEN ReporterFreed ELSE {}] : m \in Made, d \in DupStdout}

\* ctest_create_forking_runner / ctest_create_direct_runner: one calloc.
CreateRunner == {[ok |-> m, res |-> IF m THEN RunnerFreed ELSE {}] : m \in Made}
-----------------------------------------------------------------------------
(* The command lines: main's own option, the command (none runs "run"     *)
(* with no argument), the command's option ("n" is run__'s -n; ls__ does  *)
(* not know it), and up to MaxArgs suites.                                 *)
CmdLines ==
  [mopt : {"none", "h", "bad"}, command : {"none", "run", "ls", "bogus"},
   copt : {"none", "h", "n", "bad"}]

Init ==
  /\ cmdline \in CmdLines
  /\ args \in UNION {[1..n -> Files] : n \in 0..MaxArgs}
  /\ cmdline.command = "none" => cmdline.copt = "none" /\ args = <<>>
  /\ pc = "main" /\ li = 1 /\ loaded = {}
  /\ live = {} /\ dl_refs = 0
  /\ failure_count = NULL /\ status = NULL

Exit(code) == status' = code /\ pc' = "exit"

(* main: -h prints help, an unknown option the usage; no command runs the *)
(* first one; an unknown command leaves result at EX_SOFTWARE.             *)
Main ==
  /\ pc = "main"
  /\ \/ cmdline.mopt = "h" /\ Exit(EX_OK)
     \/ cmdline.mopt = "bad" /\ Exit(EX_USAGE)
     \/ /\ cmdline.mopt = "none" /\ cmdline.command = "bogus"
        /\ Exit(EX_SOFTWARE)
     \/ /\ cmdline.mopt = "none" /\ cmdline.command # "bogus"
        /\ pc' = Cmd
        /\ UNCHANGED status
  /\ UNCHANGED <<cmdline, args, li, loaded, live, dl_refs, failure_count>>

(* run__'s option loop: -h prints help and returns EX_OK, an unknown      *)
(* option the usage and EX_USAGE; -n only selects the direct runner, which *)
(* the objects tracked here do not tell apart.                             *)
RunOptions ==
  /\ pc = "run"
  /\ \/ cmdline.copt = "h" /\ Exit(EX_OK)
     \/ cmdline.copt = "bad" /\ Exit(EX_USAGE)
     \/ /\ cmdline.copt \in {"none", "n"}
        /\ pc' = "load"
        /\ UNCHANGED status
  /\ UNCHANGED <<cmdline, args, li, loaded, live, dl_refs, failure_count>>

\* ls__'s option loop: -h prints help and returns 0; any other option,
\* -n included, the usage and 1.
LsOptions ==
  /\ pc = "ls"
  /\ \/ cmdline.copt = "h" /\ Exit(0)
     \/ cmdline.copt \in {"bad", "n"} /\ Exit(1)
     \/ /\ cmdline.copt = "none"
        /\ pc' = "load"
        /\ UNCHANGED status
  /\ UNCHANGED <<cmdline, args, li, loaded, live, dl_refs, failure_count>>

\* The status a command returns when load_testsuites__ returned NULL.
LoadFailed == Exit(IF Cmd = "run" THEN EX_UNAVAILABLE ELSE 1)

(* load_testsuites__ up to its loop: calloc the collection and, for a      *)
(* non-empty argv, the zeroed testsuites array.                            *)
LoadBegin ==
  /\ pc = "load"
  /\ \E mc \in Made, ma \in IF args # <<>> THEN Made ELSE {TRUE} :
       \/ /\ mc /\ ma
          /\ live' = live \cup {Obj("collection", 0, 0, 0)}
                          \cup (IF args # <<>> THEN {Obj("array", 0, 0, 0)} ELSE {})
          /\ pc' = "loading" /\ li' = 1
          /\ UNCHANGED status
       \/ /\ ~(mc /\ ma)
          /\ LoadFailed
          /\ UNCHANGED <<live, li>>
  /\ UNCHANGED <<cmdline, args, loaded, dl_refs, failure_count>>

\* Defective variant of LoadSuite: the cleanup also destroys testsuites[i].
LoadSuiteDestroyingFailed ==
  /\ pc = "loading" /\ li <= Len(args)
  /\ \E o \in LoadTestsuite(li, args[li]) :
       \/ /\ o.ok
          /\ live' = live \cup o.res
          /\ dl_refs' = dl_refs + 1
          /\ loaded' = loaded \cup {li}
          /\ li' = li + 1
          /\ UNCHANGED <<pc, status>>
       \/ /\ ~o.ok
          /\ live' = (live \cup o.res)
                       \ (UNION {TestsuiteFreed(a, args[a]) : a \in 1..li}
                          \cup {Obj("collection", 0, 0, 0), Obj("array", 0, 0, 0)})
          /\ dl_refs' = dl_refs - li
          /\ LoadFailed
          /\ UNCHANGED <<loaded, li>>
  /\ UNCHANGED <<cmdline, args, failure_count>>

(* One iteration of the loop: ctest_load_testsuite(argv[i]).  A NULL makes *)
(* load_suite_failed destroy every non-NULL testsuites[i], free the array *)
(* and the collection, and the command return its failure status.         *)
LoadSuite ==
  /\ pc = "loading" /\ li <= Len(args)
  /\ \E o \in LoadTestsuite(li, args[li]) :
       \/ /\ o.ok
          /\ live' = live \cup o.res
          /\ dl_refs' = dl_refs + 1
          /\ loaded' = loaded \cup {li}
          /\ li' = li + 1
          /\ UNCHANGED <<pc, status>>
       \/ /\ ~o.ok
          /\ live' = (live \cup o.res)
                       \ (UNION {TestsuiteFreed(a, args[a]) : a \in 1..li - 1}
                          \cup {Obj("collection", 0, 0, 0), Obj("array", 0, 0, 0)})
          /\ dl_refs' = dl_refs - (li - 1)
          /\ LoadFailed
          /\ UNCHANGED <<loaded, li>>
  /\ UNCHANGED <<cmdline, args, failure_count>>

\* Every suite loaded: run__ goes on to the reporter, ls__ to the listing.
LoadDone ==
  /\ pc = "loading" /\ li > Len(args)
  /\ pc' = IF Cmd = "run" THEN "reporter" ELSE "list"
  /\ UNCHANGED <<cmdline, args, li, loaded, live, dl_refs, failure_count, status>>

\* run__: ctest_create_console_reporter; a NULL goes to reporter_creation_failed.
MakeReporter ==
  /\ pc = "reporter"
  /\ \E o \in CreateConsoleReporter :
       /\ live' = live \cup o.res
       /\ pc' = IF o.ok THEN "runner" ELSE "cleanup"
  /\ UNCHANGED <<cmdline, args, li, loaded, dl_refs, failure_count, status>>

\* run__: the forking or the direct runner; a NULL goes to runner_creation_failed.
MakeRunner ==
  /\ pc = "runner"
  /\ \E o \in CreateRunner :
       /\ live' = live \cup o.res
       /\ pc' = IF o.ok THEN "dispatch" ELSE "cleanup"
  /\ UNCHANGED <<cmdline, args, li, loaded, dl_refs, failure_count, status>>

(* ctest_runner_run_testsuites over the whole collection: the number of    *)
(* failed cases, or -1 when the dispatch or a runner cannot allocate.      *)
DispatchResults ==
  (IF AllocFailures THEN {-1} ELSE {})
    \cup 0..FoldFunction(LAMBDA x, y : x + y, 0, [a \in DOMAIN args |-> CaseCount(args[a])])

RunTestsuites ==
  /\ pc = "dispatch"
  /\ failure_count' \in DispatchResults
  /\ pc' = "cleanup"
  /\ UNCHANGED <<cmdline, args, li, loaded, live, dl_refs, status>>

\* Defective variant of Cleanup: a negative count is taken for success.
CleanupAcceptingError ==
  /\ pc = "cleanup"
  /\ live' = live \ (RunnerFreed \cup ReporterFreed \cup CollectionFreed)
  /\ dl_refs' = dl_refs - Len(args)
  /\ Exit(IF failure_count # NULL /\ failure_count <= 0 THEN EX_OK ELSE EX_UNAVAILABLE)
  /\ UNCHANGED <<cmdline, args, li, loaded, failure_count>>

(* run__'s labels runner_failure, runner_creation_failed and              *)
(* reporter_creation_failed, fallen through from whichever was reached:   *)
(* destroy the runner, the reporter and the collection; result became     *)
(* EX_OK only for a failure count of 0 and is EX_UNAVAILABLE otherwise.   *)
Cleanup ==
  /\ pc = "cleanup"
  /\ live' = live \ (RunnerFreed \cup ReporterFreed \cup CollectionFreed)
  /\ dl_refs' = dl_refs - Len(args)
  /\ Exit(IF failure_count = 0 THEN EX_OK ELSE EX_UNAVAILABLE)
  /\ UNCHANGED <<cmdline, args, li, loaded, failure_count>>

\* ls__: print suite:test for every test, destroy the collection, return 0.
List ==
  /\ pc = "list"
  /\ live' = live \ CollectionFreed
  /\ dl_refs' = dl_refs - Len(args)
  /\ Exit(0)
  /\ UNCHANGED <<cmdline, args, li, loaded, failure_count>>

Next ==
  \/ Main \/ RunOptions \/ LsOptions \/ LoadBegin \/ LoadSuite \/ LoadDone
  \/ MakeReporter \/ MakeRunner \/ RunTestsuites \/ Cleanup \/ List

\* The process is single-threaded and each step returns.
Spec == Init /\ [][Next]_vars /\ WF_vars(Next)
-----------------------------------------------------------------------------
TypeOK ==
  /\ cmdline \in CmdLines
  /\ pc \in {"main", "run", "ls", "load", "loading", "reporter", "runner",
             "dispatch", "cleanup", "list", "exit"}
  /\ li \in 1..MaxArgs + 1
  /\ loaded \subseteq DOMAIN args
  /\ dl_refs \in 0..MaxArgs
  /\ failure_count \in DispatchResults \cup {NULL}
  /\ status \in {NULL, 0, 1, EX_OK, EX_USAGE, EX_UNAVAILABLE, EX_SOFTWARE}

(* What a loaded suite consists of, by the structures of loader.c: the    *)
(* suite, its tests array, its lt_dlopen handle, and per test the test,    *)
(* its testcases array, its test cases and their formatted names.          *)
SuiteObjects(a, f) ==
  {Obj("suite", a, 0, 0), Obj("tests", a, 0, 0), Obj("handle", a, 0, 0)}
    \cup {Obj(k, a, t, 0) : k \in {"test", "cases"}, t \in DOMAIN f.tests}
    \cup UNION {{Obj(k, a, t, c) : k \in {"case", "name"}, c \in 1..f.tests[t].cases}
                : t \in DOMAIN f.tests}

(* On every path to the exit, whatever the failure labels were taken,      *)
(* nothing of a suite that was loaded survives (suite, tests, test cases, *)
(* names, the libltdl handle), libltdl is back to uninitialised, and the  *)
(* collection, reporter and runner are gone: load_suite_failed,           *)
(* destroy_testsuite_collection__ and run__'s labels between them release *)
(* what load_testsuites__ and run__ acquired.                              *)
ExitReleasesLoadedSuites ==
  pc = "exit" =>
    /\ dl_refs = 0
    /\ live \cap UNION {SuiteObjects(a, args[a]) : a \in loaded} = {}
    /\ live \cap ({Obj("collection", 0, 0, 0), Obj("array", 0, 0, 0)}
                  \cup ReporterFreed \cup RunnerFreed) = {}

(* The run command's exit status: EX_OK exactly when every named suite     *)
(* loaded, the reporter and the runner were created and the dispatch      *)
(* counted no failed case; any failure on the way is EX_UNAVAILABLE.       *)
ExitStatus ==
  (pc = "exit" /\ cmdline.mopt = "none" /\ cmdline.command \in {"none", "run"}
     /\ cmdline.copt \in {"none", "n"}) =>
    /\ status \in {EX_OK, EX_UNAVAILABLE}
    /\ status = EX_OK <=> (loaded = DOMAIN args /\ failure_count = 0)

(* Everything ctest_load_testsuite and run__ acquire is released by the   *)
(* time the process exits: no heap block and no libltdl object remains.   *)
NoLeakAtExit == pc = "exit" => live = {}

(* spec section 7: a module-load error is surfaced and the offending      *)
(* module is omitted from the run.  load_testsuites__ instead gives up on *)
(* the whole collection, and run__ exits without dispatching anything.    *)
LoadErrorOmitsModule ==
  (pc = "exit" /\ cmdline.mopt = "none" /\ cmdline.command \in {"none", "run"}
     /\ cmdline.copt \in {"none", "n"}) =>
    failure_count # NULL
=============================================================================
