----------------------------- MODULE SigCapture -----------------------------
(***************************************************************************)
(* The process-wide signal capture of src/src/exec/sig.c: sigcapture__     *)
(* installs sighandler__ for every signal of signals__, saving the prior   *)
(* dispositions, and publishes the handler and cookie; sigrestore__ puts   *)
(* the saved dispositions back and clears the handler.  Both block every   *)
(* signal while they change the shared state.                              *)
(*                                                                         *)
(* The client is a runner that, for each of Cases test cases, captures     *)
(* with the case's exec_hooks as cookie, runs the case and restores,       *)
(* ignoring both return values (direct_runner.c:227,262,                   *)
(* forking_runner.c:451-453).  Signals arrive from outside at any time.    *)
(* sigaction() fails with EINVAL for the platform's invalid numbers        *)
(* (Invalid) and, when SigactionFailures, with any other error.            *)
(***************************************************************************)
EXTENDS Naturals, FiniteSets

CONSTANTS
  NSignals,           \* the length of signals__
  Invalid,            \* entries sigaction() rejects with EINVAL
  Cases,              \* test cases the client runs one after the other
  MaxRaises,          \* bound on signals sent from outside
  SigactionFailures   \* whether sigaction() may fail with another errno

Sigs == 1..NSignals
NoCookie == 0         \* handler__ == NULL (and cookie__ == NULL)

ASSUME Invalid \subseteq Sigs

VARIABLES
  cpc,        \* client: "capture" | "in_case" | "restore" | "finished"
  case_no,    \* the client's current case
  lpc,        \* inside sig.c: "idle" | "cap_loop" | "rollback" | "res_loop"
  i,          \* the loop index into signals__
  blocked,    \* all signals blocked by sigprocmask
  handler,    \* the cookie of the installed handler, or NoCookie
  disp,       \* each signal's disposition: "orig" or "ours" (sighandler__)
  saved,      \* saved_sigaction__[i].f_saved
  sigact,     \* saved_sigaction__[i].sigaction: the disposition it holds
  res_failed, \* sigrestore__'s result != 0
  pending,    \* signals raised while blocked
  raises,     \* signals raised so far
  calls       \* history: the handler calls made, [cookie, case]

vars == <<cpc, case_no, lpc, i, blocked, handler, disp, saved, sigact, res_failed,
          pending, raises, calls>>

Init ==
  /\ cpc = "capture" /\ case_no = 1
  /\ lpc = "idle" /\ i = 1
  /\ blocked = FALSE
  /\ handler = NoCookie
  /\ disp = [s \in Sigs |-> "orig"]
  /\ saved = [s \in Sigs |-> FALSE]
  /\ sigact = [s \in Sigs |-> "orig"]
  /\ res_failed = FALSE
  /\ pending = {} /\ raises = 0
  /\ calls = {}

\* A pending signal is delivered as soon as it is unblocked, before the
\* process does anything else.
Quiet == blocked \/ pending = {}

-----------------------------------------------------------------------------
(* sigcapture__ entered: EBUSY if a handler is installed (the client goes  *)
(* on with the case anyway), otherwise block every signal and loop.        *)
CapEnter ==
  /\ cpc = "capture" /\ lpc = "idle" /\ Quiet
  /\ \/ /\ handler # NoCookie
        /\ cpc' = "in_case"
        /\ UNCHANGED <<lpc, i, blocked>>
     \/ /\ handler = NoCookie
        /\ blocked' = TRUE
        /\ lpc' = "cap_loop" /\ i' = 1
        /\ UNCHANGED cpc
  /\ UNCHANGED <<case_no, handler, disp, saved, sigact, res_failed, pending, raises, calls>>

\* Defective variant of SavedAction: the old action is saved even when f_saved.
SavedActionOverwriting(s) == disp[s]

\* What the entry holds after a successful sigaction(): old_sigact is NULL
\* when f_saved is already set.
SavedAction(s) == IF saved[s] THEN sigact[s] ELSE disp[s]

(* One iteration of the installation loop: sigaction() saves the old     *)
(* disposition into the entry unless f_saved is already set (old_sigact   *)
(* NULL), when the entry keeps what an earlier call saved.  EINVAL is      *)
(* ignored; any other failure unblocks the signals and goes to the         *)
(* rollback.  A restored entry is zeroed, and unread until saved again.    *)
CapLoop ==
  /\ lpc = "cap_loop" /\ i <= NSignals /\ Quiet
  /\ \/ /\ i \in Invalid
        /\ i' = i + 1
        /\ UNCHANGED <<lpc, blocked, disp, saved, sigact>>
     \/ /\ i \notin Invalid
        /\ disp' = [disp EXCEPT ![i] = "ours"]
        /\ saved' = [saved EXCEPT ![i] = TRUE]
        /\ sigact' = [sigact EXCEPT ![i] = SavedAction(i)]
        /\ i' = i + 1
        /\ UNCHANGED <<lpc, blocked>>
     \/ /\ i \notin Invalid /\ SigactionFailures
        /\ blocked' = FALSE
        /\ lpc' = "rollback" /\ i' = 1
        /\ UNCHANGED <<disp, saved, sigact>>
  /\ UNCHANGED <<cpc, case_no, handler, res_failed, pending, raises, calls>>

\* Defective variant of CapDone: the old signal mask is not put back.
CapDoneKeepingBlocked ==
  /\ lpc = "cap_loop" /\ i > NSignals /\ Quiet
  /\ handler' = case_no
  /\ lpc' = "idle" /\ cpc' = "in_case"
  /\ UNCHANGED <<case_no, i, blocked, disp, saved, sigact, res_failed, pending, raises, calls>>

\* The loop is over: publish handler and cookie, unblock, return 0.
CapDone ==
  /\ lpc = "cap_loop" /\ i > NSignals /\ Quiet
  /\ handler' = case_no
  /\ blocked' = FALSE
  /\ lpc' = "idle" /\ cpc' = "in_case"
  /\ UNCHANGED <<case_no, i, disp, saved, sigact, res_failed, pending, raises, calls>>

(* The failure label: put back every saved disposition (a failing         *)
(* sigaction() keeps the entry), with the signals already unblocked.       *)
Rollback ==
  /\ lpc = "rollback" /\ Quiet
  /\ \/ /\ i <= NSignals /\ saved[i]
        /\ \/ /\ disp' = [disp EXCEPT ![i] = sigact[i]]
              /\ saved' = [saved EXCEPT ![i] = FALSE]
           \/ /\ SigactionFailures
              /\ UNCHANGED <<disp, saved>>
        /\ i' = i + 1
        /\ UNCHANGED <<lpc, cpc>>
     \/ /\ i <= NSignals /\ ~saved[i]
        /\ i' = i + 1
        /\ UNCHANGED <<lpc, cpc, disp, saved>>
     \/ /\ i > NSignals
        /\ lpc' = "idle" /\ cpc' = "in_case"
        /\ UNCHANGED <<i, disp, saved>>
  /\ UNCHANGED <<case_no, blocked, handler, res_failed, pending, raises, calls, sigact>>

\* The case is over: the client calls sigrestore__, which blocks signals.
ResEnter ==
  /\ cpc = "in_case" /\ lpc = "idle" /\ Quiet
  /\ cpc' = "restore"
  /\ blocked' = TRUE
  /\ lpc' = "res_loop" /\ i' = 1 /\ res_failed' = FALSE
  /\ UNCHANGED <<case_no, handler, disp, saved, sigact, pending, raises, calls>>

\* One iteration of the restoration loop over the saved entries.
ResLoop ==
  /\ lpc = "res_loop" /\ i <= NSignals
  /\ \/ /\ saved[i]
        /\ \/ /\ disp' = [disp EXCEPT ![i] = sigact[i]]
              /\ saved' = [saved EXCEPT ![i] = FALSE]
              /\ UNCHANGED res_failed
           \/ /\ SigactionFailures
              /\ res_failed' = TRUE
              /\ UNCHANGED <<disp, saved>>
     \/ /\ ~saved[i]
        /\ UNCHANGED <<disp, saved, res_failed>>
  /\ i' = i + 1
  /\ UNCHANGED <<cpc, case_no, lpc, blocked, handler, pending, raises, calls, sigact>>

(* The loop is over: clear handler and cookie only if every sigaction()    *)
(* succeeded, unblock; the client moves on to its next case.               *)
ResDone ==
  /\ lpc = "res_loop" /\ i > NSignals
  /\ handler' = IF res_failed THEN handler ELSE NoCookie
  /\ blocked' = FALSE
  /\ lpc' = "idle"
  /\ cpc' = IF case_no < Cases THEN "capture" ELSE "finished"
  /\ case_no' = IF case_no < Cases THEN case_no + 1 ELSE case_no
  /\ UNCHANGED <<i, disp, saved, sigact, res_failed, pending, raises, calls>>

-----------------------------------------------------------------------------
(* Delivery of signal s: sighandler__ calls handler__(s, cookie__).        *)
(* What the runner's callback then does is modelled by the runners; here  *)
(* only the call and its cookie are recorded.  A signal whose disposition *)
(* is the original one is not this module's business.                     *)
Deliver(s) ==
  calls' = IF disp[s] = "ours"
           THEN calls \cup {[cookie |-> handler, case |-> case_no]}
           ELSE calls

Raise(s) ==
  /\ raises < MaxRaises
  /\ raises' = raises + 1
  /\ \/ /\ blocked
        /\ pending' = pending \cup {s}
        /\ UNCHANGED calls
     \/ /\ ~blocked
        /\ Deliver(s)
        /\ UNCHANGED pending
  /\ UNCHANGED <<cpc, case_no, lpc, i, blocked, handler, disp, saved, sigact, res_failed>>

Unblocked(s) ==
  /\ ~blocked /\ s \in pending
  /\ pending' = pending \ {s}
  /\ Deliver(s)
  /\ UNCHANGED <<cpc, case_no, lpc, i, blocked, handler, disp, saved, sigact, res_failed, raises>>

Next ==
  \/ CapEnter \/ CapLoop \/ CapDone \/ Rollback
  \/ ResEnter \/ ResLoop \/ ResDone
  \/ \E s \in Sigs : Raise(s) \/ Unblocked(s)

Spec == Init /\ [][Next]_vars

-----------------------------------------------------------------------------
(* Types, and: every signal is blocked only while one of the two loops     *)
(* runs; sig.c never returns to the runner with its signals still masked.  *)
TypeOK ==
  /\ cpc \in {"capture", "in_case", "restore", "finished"}
  /\ case_no \in 1..Cases
  /\ lpc \in {"idle", "cap_loop", "rollback", "res_loop"}
  /\ i \in 1..NSignals + 1
  /\ blocked \in BOOLEAN /\ res_failed \in BOOLEAN
  /\ handler \in {NoCookie} \cup 1..Cases
  /\ disp \in [Sigs -> {"orig", "ours"}]
  /\ saved \in [Sigs -> BOOLEAN] /\ sigact \in [Sigs -> {"orig", "ours"}]
  /\ pending \subseteq Sigs /\ raises \in 0..MaxRaises
  /\ calls \subseteq [cookie : {NoCookie} \cup 1..Cases, case : 1..Cases]
  /\ blocked => lpc \in {"cap_loop", "res_loop"}

(* Every call sighandler__ makes goes through a published handler, with    *)
(* the cookie of the case running at the time: the installation publishes *)
(* handler__ only after every disposition is in place, and both loops run  *)
(* with every signal blocked, so no signal meets a half-built state or a   *)
(* NULL handler__, and none reaches an earlier case's exec_hooks.          *)
HandlerCallsCurrentCase ==
  \A c \in calls : c.cookie = c.case

(* Installing and then restoring the capture leaves every disposition as   *)
(* it was before, and no handler published (spec section 8): checked each  *)
(* time sigrestore__ has returned 0.                                       *)
RestoreRoundTrip ==
  (lpc = "idle" /\ cpc \in {"capture", "finished"} /\ ~res_failed) =>
    /\ \A s \in Sigs : disp[s] = "orig"
    /\ handler = NoCookie
=============================================================================
