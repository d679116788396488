---------------------------- MODULE ForkingRunner ----------------------------
(***************************************************************************)
(* One test case run by the forking runner (src/src/exec/forking_runner.c) *)
(* with the event codec of src/src/exec/exec_events.c and the output       *)
(* reader of src/src/exec/output_reader.c.                                 *)
(*                                                                         *)
(* The child runs the test-case driver (module TestcaseDriver); each of    *)
(* the driver's hook calls becomes an event frame, written to the event    *)
(* pipe as two write() calls: the header, then the body.  The test's own   *)
(* output goes to the output pipe.  The parent polls both pipes, decodes   *)
(* events with the reader's buffer/offset/capacity state machine, collects *)
(* the output, and when both pipes are closed reaps the child and builds   *)
(* the result from its exit status and the last failure event.            *)
(*                                                                         *)
(* Pipe contents are sequences of units.  A unit is one piece of one frame *)
(* ([f |-> frame number, i |-> position in the frame]), so the reader can  *)
(* be checked to cut the stream where the writer put the frame borders.   *)
(* A header the reader assembles from a frame's own header units decodes   *)
(* to that frame's type and length (a failure's size modulo LenModulus,   *)
(* the uint16_t length field); anything else decodes to any header at all. *)
(***************************************************************************)
EXTENDS Naturals, Sequences, FiniteSetsExt

CONSTANTS
  NULL, CORRUPT,
  HeaderUnits,      \* sizeof(exec_event_msg_header_t__)
  StageUnits,       \* sizeof(ctest_stage_t)
  FailureUnits,     \* failure_storage_size() of a failure
  LenModulus,       \* 2^16: the range of the header's length field
  OutInitCap,       \* the output reader's first buffer (128 bytes)
  OutPipeCap,       \* the output pipe's buffer
  MaxOutput,        \* bound on the output a test writes
  AsyncSignals,     \* may a signal from outside reach the child?
  ExternalKills,    \* may the child be SIGKILLed from outside?
  PollFailures,     \* may poll() fail (ENOMEM)?
  SpawnFailures,    \* may pipe() or fork() fail?
  BodyAllocFailures \* may the reader's malloc() of a failure body fail?

ASSUME HeaderUnits >= 1 /\ StageUnits >= 1 /\ FailureUnits >= 1
ASSUME LenModulus >= 1 /\ OutInitCap >= 1 /\ OutPipeCap >= 1

VARIABLES provider, dpc, stage, failure, abort_type, teardown, fixture,
          dynamic_ops_cell, hook_calls, reported, aborts, teardown_runs

D == INSTANCE TestcaseDriver

VARIABLES
  cpc,             \* child: "unforked" | "running" | "handling" (in the
                   \* signal handler) | "exited" | "killed"
  exit_code,       \* the child's exit status (a result type, or "other")
  outbox,          \* frames of hook calls made but not yet written
  hdr_sent,        \* the header of Head(outbox) is written, its body not
  sent,            \* every frame whose header was written, in order
  complete,        \* the numbers of the frames whose body was written too
  async_signalled, \* history: an outside signal reached the handler
  ev_pipe,         \* units in the event pipe
  out_pipe,        \* bytes in the output pipe
  out_written,     \* history: bytes the test wrote
  writers_open,    \* the child still holds the pipes' write ends
  ppc,             \* parent: "start" | "spawning" | "polling" | "reaping" | "done"
                   \* | "crashed"
  ev_open,         \* the event fd is still polled
  out_open,        \* the output fd is still polled
  ev_eof,          \* history: the event fd was closed at end of stream
  out_eof,         \* history: the output fd was closed at end of stream
  read_failed,     \* history: a read() of the event fd failed
  r_buf,           \* reader->buf: "header" | "stage" | "failure" | "none"
  r_ofs, r_cap, r_len,
  r_on_done,       \* reader->on_done
  r_body,          \* reader->state.read_body.on_done
  r_data,          \* the units read into reader->buf so far
  c_stage,         \* child_event_consumer.stage
  c_last_failure,  \* child_event_consumer.last_failure
  o_len, o_cap,    \* output reader: length, capacity (0: no buffer yet)
  res_type, res_failure, res_output,   \* the ctest_result_t
  retval,          \* runner_run_testcase__'s return value
  rep_state        \* the test case reporter

dvars == <<provider, dpc, stage, failure, abort_type, teardown, fixture,
           dynamic_ops_cell, hook_calls, reported, aborts, teardown_runs>>
cvars == <<cpc, exit_code, outbox, hdr_sent, sent, complete, async_signalled>>
pipes == <<ev_pipe, out_pipe, out_written, writers_open>>
rvars == <<r_buf, r_ofs, r_cap, r_len, r_on_done, r_body, r_data>>
pvars == <<ppc, ev_open, out_open, ev_eof, out_eof, read_failed, c_stage, c_last_failure,
           o_len, o_cap, res_type, res_failure, res_output, retval, rep_state>>
vars == <<dvars, cvars, pipes, rvars, pvars>>

ResultTypes == {"pass", "fail", "error", "skipped"}
FrameTypes == {"stage", "failure"}

\* coerce_result_type__: an exit status that is not a result type is an error.
Coerce(code) == IF code \in ResultTypes THEN code ELSE "error"

-----------------------------------------------------------------------------
(* The event codec.                                                        *)
FrameOf(call) ==
  IF call.op = "stage" THEN [type |-> "stage", arg |-> call.arg]
                       ELSE [type |-> "failure", arg |-> call.arg]

BodyUnits(fr) == IF fr.type = "stage" THEN StageUnits ELSE FailureUnits

\* header.length: sizeof(stage) for a stage, a failure's len truncated to
\* the uint16_t field.
EncodedLength(fr) ==
  IF fr.type = "stage" THEN StageUnits ELSE FailureUnits % LenModulus

HeaderOf(k) == [i \in 1..HeaderUnits |-> [f |-> k, i |-> i]]
BodyOf(k) == [j \in 1..BodyUnits(sent[k]) |-> [f |-> k, i |-> HeaderUnits + j]]

\* What a header, a stage body and a failure body read from the pipe decode
\* to.  Bytes that are not one frame's header decode to any header whose
\* length is no larger than a frame (GarbageLengths bounds the choice).
GarbageLengths == 0..(StageUnits + FailureUnits)
DecodeHeader(data) ==
  IF \E k \in DOMAIN sent : data = HeaderOf(k)
  THEN LET k == CHOOSE k \in DOMAIN sent : data = HeaderOf(k) IN
       {[type |-> sent[k].type, length |-> EncodedLength(sent[k])]}
  ELSE [type : FrameTypes \cup {"other"}, length : GarbageLengths]

DecodeStage(data) ==
  IF \E k \in DOMAIN sent : sent[k].type = "stage" /\ data = BodyOf(k)
  THEN {sent[CHOOSE k \in DOMAIN sent : sent[k].type = "stage" /\ data = BodyOf(k)].arg}
  ELSE D!Stages \cup {CORRUPT}

\* failure_storage_deserialize validates nothing: any bytes become a failure.
DecodeFailure(data) ==
  IF \E k \in DOMAIN sent : sent[k].type = "failure" /\ data = BodyOf(k)
  THEN sent[CHOOSE k \in DOMAIN sent : sent[k].type = "failure" /\ data = BodyOf(k)].arg
  ELSE CORRUPT

\* exec_hooks_t__.stage: set by on_stage_change before its frame is written.
HooksStage ==
  LET begun == sent \o (IF outbox # <<>> /\ ~hdr_sent THEN <<Head(outbox)>> ELSE <<>>)
      stages == {k \in DOMAIN begun : begun[k].type = "stage"}
  IN IF stages = {} THEN "setup" ELSE begun[Max(stages)].arg

-----------------------------------------------------------------------------
\* exec_event_reader_init: no body yet; reader_prep_next_msg__ expects a header.
ReaderInit ==
  /\ r_buf = "header" /\ r_ofs = 0 /\ r_cap = HeaderUnits /\ r_len = HeaderUnits
  /\ r_on_done = "header_done" /\ r_body = "ignored" /\ r_data = <<>>

\* child_event_consumer_init__
ConsumerInit == c_stage = "setup" /\ c_last_failure = NULL

\* output_reader_init: no buffer, nothing read.
OutputReaderInit == o_len = 0 /\ o_cap = 0

Init ==
  /\ D!Init
  /\ cpc = "unforked" /\ exit_code = "pass"
  /\ outbox = <<>> /\ hdr_sent = FALSE /\ sent = <<>> /\ complete = {}
  /\ async_signalled = FALSE
  /\ ev_pipe = <<>> /\ out_pipe = 0 /\ out_written = 0 /\ writers_open = FALSE
  /\ ppc = "start" /\ ev_open = FALSE /\ out_open = FALSE
  /\ ev_eof = FALSE /\ out_eof = FALSE /\ read_failed = FALSE
  /\ ReaderInit /\ ConsumerInit /\ OutputReaderInit
  \* ctest_result_create_empty
  /\ res_type = "pass" /\ res_failure = NULL /\ res_output = 0
  /\ retval = -1
  /\ rep_state = "pending"

-----------------------------------------------------------------------------
(* runner_run_testcase__ up to the fork: create the result and start the  *)
(* reporter, then create both pipes and fork.  A failure of pipe() or      *)
(* fork() completes the case as an error in the setup stage.               *)
\* Defective variant of Start: the reporter is never started.
StartWithoutReporter ==
  /\ ppc = "start"
  /\ ppc' = "spawning"
  /\ UNCHANGED <<dvars, cvars, pipes, rvars, ev_open, out_open, ev_eof, out_eof,
                 read_failed, c_stage, c_last_failure, o_len, o_cap, res_type,
                 res_failure, res_output, retval, rep_state>>

Start ==
  /\ ppc = "start"
  /\ ppc' = "spawning"
  /\ rep_state' = "running"
  /\ UNCHANGED <<dvars, cvars, pipes, rvars, ev_open, out_open, ev_eof, out_eof,
                 read_failed, c_stage, c_last_failure, o_len, o_cap, res_type,
                 res_failure, res_output, retval>>

Spawn ==
  /\ ppc = "spawning"
  /\ \/ /\ cpc' = "running"
        /\ writers_open' = TRUE
        /\ ppc' = "polling" /\ ev_open' = TRUE /\ out_open' = TRUE
        /\ UNCHANGED <<res_type, res_failure, retval, rep_state>>
     \/ /\ SpawnFailures
        /\ res_type' = "error" /\ res_failure' = D!Failure("setup", "parent", 0)
        /\ retval' = 0
        /\ rep_state' = "completed"
        /\ ppc' = "done"
        /\ UNCHANGED <<cpc, writers_open, ev_open, out_open>>
  /\ UNCHANGED <<dvars, exit_code, outbox, hdr_sent, sent, complete, async_signalled,
                 ev_pipe, out_pipe, out_written, rvars, ev_eof, out_eof, read_failed,
                 c_stage, c_last_failure, o_len, o_cap, res_output>>

(* The child.  It runs the driver; a driver step's hook calls are queued   *)
(* for the event writer, and the child does nothing else until they are   *)
(* written (the hook call returns after its write() calls).                *)
ChildStep ==
  /\ cpc = "running" /\ outbox = <<>>
  /\ D!Step
  /\ outbox' = [i \in 1..(Len(hook_calls') - Len(hook_calls)) |->
                   FrameOf(hook_calls'[Len(hook_calls) + i])]
  /\ UNCHANGED <<cpc, exit_code, hdr_sent, sent, complete, async_signalled, pipes, rvars, pvars>>

\* The test's code raises a signal: exec_hooks_on_signal__ writes a failure
\* naming the hooks' stage, then the child exits with a failure.
ChildSignal ==
  /\ cpc = "running" /\ outbox = <<>>
  /\ D!Signal
  /\ outbox' = <<[type |-> "failure", arg |-> D!Failure(HooksStage, "signal", 0)]>>
  /\ cpc' = "handling"
  /\ UNCHANGED <<exit_code, hdr_sent, sent, complete, async_signalled, pipes, rvars, pvars>>

\* A caught signal from outside interrupts the child wherever it is, even
\* between the two write() calls of a frame; the frame is never finished.
AsyncSignal ==
  /\ AsyncSignals
  /\ cpc = "running" /\ dpc # "returned"    \* sigrestore__ ends the capture
  /\ outbox' = <<[type |-> "failure", arg |-> D!Failure(HooksStage, "signal", 0)]>>
  /\ hdr_sent' = FALSE
  /\ cpc' = "handling"
  /\ async_signalled' = TRUE
  /\ UNCHANGED <<dvars, exit_code, sent, complete, pipes, rvars, pvars>>

\* exec_event_writer: the header write(), then the body write().  Frames
\* are far smaller than the pipe buffer, so each write() is whole.
WriteHeader ==
  /\ cpc \in {"running", "handling"} /\ outbox # <<>> /\ ~hdr_sent
  /\ sent' = Append(sent, Head(outbox))
  /\ ev_pipe' = ev_pipe \o HeaderOf(Len(sent) + 1)
  /\ hdr_sent' = TRUE
  /\ UNCHANGED <<dvars, cpc, exit_code, outbox, complete, async_signalled,
                 out_pipe, out_written, writers_open, rvars, pvars>>

WriteBody ==
  /\ cpc \in {"running", "handling"} /\ hdr_sent
  /\ ev_pipe' = ev_pipe \o BodyOf(Len(sent))
  /\ complete' = complete \cup {Len(sent)}
  /\ outbox' = Tail(outbox)
  /\ hdr_sent' = FALSE
  /\ UNCHANGED <<dvars, cpc, exit_code, sent, async_signalled,
                 out_pipe, out_written, writers_open, rvars, pvars>>

\* The test's code writes a byte of output (blocking while the pipe is full).
ChildOutput ==
  /\ cpc = "running" /\ dpc \in D!UserCode /\ outbox = <<>>
  /\ out_written < MaxOutput /\ out_pipe < OutPipeCap
  /\ out_pipe' = out_pipe + 1 /\ out_written' = out_written + 1
  /\ UNCHANGED <<dvars, cvars, ev_pipe, writers_open, rvars, pvars>>

\* exit_child__: after the driver returns (PASS), after on_skip / on_failure
\* (exec_hooks_on_short_circuit__: SKIPPED / FAIL), or from the signal
\* handler (FAIL), once the frames are written.  Exiting closes the pipes.
ChildExit ==
  /\ outbox = <<>> /\ ~hdr_sent
  /\ \/ /\ cpc = "running" /\ dpc = "returned" /\ exit_code' = "pass"
     \/ /\ cpc = "running" /\ dpc = "unwound"
        /\ exit_code' = IF hook_calls[Len(hook_calls)].op = "skip" THEN "skipped" ELSE "fail"
     \/ /\ cpc = "handling" /\ exit_code' = "fail"
  /\ cpc' = "exited"
  /\ writers_open' = FALSE
  /\ UNCHANGED <<dvars, outbox, hdr_sent, sent, complete, async_signalled,
                 ev_pipe, out_pipe, out_written, rvars, pvars>>

\* The test's code calls exit() itself, with a status that is or is not the
\* value of a result type.
UserExit ==
  /\ cpc = "running" /\ dpc \in D!UserCode /\ outbox = <<>>
  /\ exit_code' \in ResultTypes \cup {"other"}
  /\ cpc' = "exited"
  /\ writers_open' = FALSE
  /\ UNCHANGED <<dvars, outbox, hdr_sent, sent, complete, async_signalled,
                 ev_pipe, out_pipe, out_written, rvars, pvars>>

\* SIGKILL from outside (cannot be caught).
ExternalKill ==
  /\ ExternalKills
  /\ cpc \in {"running", "handling"}
  /\ cpc' = "killed"
  /\ writers_open' = FALSE
  /\ UNCHANGED <<dvars, exit_code, outbox, hdr_sent, sent, complete, async_signalled,
                 ev_pipe, out_pipe, out_written, rvars, pvars>>
-----------------------------------------------------------------------------
(* The event reader (exec_events.c, lines 139-211), as functions of the    *)
(* units data read into the current buffer and the new offset ofs.         *)

\* Defective variant of PrepNext: the offset is not reset.
PrepNextKeepingOffset ==
  /\ r_buf' = "header" /\ r_cap' = HeaderUnits /\ r_len' = HeaderUnits
  /\ r_on_done' = "header_done" /\ r_data' = <<>>
  /\ UNCHANGED <<r_body, r_ofs>>

\* reader_prep_next_msg__
PrepNext ==
  /\ r_buf' = "header" /\ r_ofs' = 0 /\ r_cap' = HeaderUnits /\ r_len' = HeaderUnits
  /\ r_on_done' = "header_done" /\ r_data' = <<>>
  /\ UNCHANGED r_body

\* reader_on_msg_header_done__: size the body buffer from the header.  A
\* stage change gets the stage field, a failure a malloc'ed buffer of the
\* announced length (NULL when malloc fails: the body is then read as if
\* dropped, but still handed to reader_on_failure_done__), anything else is
\* read into nothing.
HeaderDone(h) ==
  /\ r_ofs' = 0 /\ r_len' = h.length /\ r_on_done' = "body_done" /\ r_data' = <<>>
  /\ \/ /\ h.type = "stage" /\ h.length >= StageUnits
        /\ r_buf' = "stage" /\ r_cap' = StageUnits /\ r_body' = "stage"
     \/ /\ h.type = "failure"
        /\ r_buf' = "failure" /\ r_cap' = h.length /\ r_body' = "failure"
     \/ /\ h.type = "failure" /\ BodyAllocFailures /\ h.length > 0
        /\ r_buf' = "none" /\ r_cap' = h.length /\ r_body' = "failure"
     \/ /\ ~(h.type = "stage" /\ h.length >= StageUnits) /\ h.type # "failure"
        /\ r_buf' = "none" /\ r_cap' = h.length /\ r_body' = "ignored"
  /\ UNCHANGED <<c_stage, c_last_failure>>

\* The consumer's operations: child_event_consumer_op_on_stage_change__
\* keeps the stage, child_event_consumer_op_on_failure__ the latest failure.
OnStageChange(s) == c_stage' = s /\ UNCHANGED c_last_failure
OnFailure(f) == c_last_failure' = f /\ UNCHANGED c_stage

\* reader_on_msg_body_done__: hand the body to the consumer, then drop what
\* is left of a body longer than its buffer (keeping the offset reached),
\* or expect the next header.
BodyDone(data, ofs) ==
  /\ \/ /\ r_body = "stage"
        /\ \E s \in DecodeStage(data) : OnStageChange(s)
     \/ /\ r_body = "failure"
        /\ OnFailure(DecodeFailure(data))
     \/ /\ r_body = "ignored"
        /\ UNCHANGED <<c_stage, c_last_failure>>
  /\ \/ /\ r_cap < r_len
        /\ r_buf' = "none" /\ r_cap' = r_len /\ r_ofs' = ofs
        /\ r_on_done' = "prep_next" /\ r_data' = <<>>
        /\ UNCHANGED <<r_len, r_body>>
     \/ /\ r_cap >= r_len
        /\ PrepNext

\* reader->on_done, called once the buffer is full.
OnDone(data, ofs) ==
  \/ /\ r_on_done = "header_done"
     /\ \E h \in DecodeHeader(data) : HeaderDone(h)
  \/ /\ r_on_done = "body_done"
     /\ BodyDone(data, ofs)
  \/ /\ r_on_done = "prep_next"
     /\ PrepNext /\ UNCHANGED <<c_stage, c_last_failure>>

\* The store of one read() of n units into the buffer, and on_done when the
\* buffer is full.
Store(n) ==
  LET data == r_data \o SubSeq(ev_pipe, 1, n)
      ofs == r_ofs + n
  IN /\ ev_pipe' = SubSeq(ev_pipe, n + 1, Len(ev_pipe))
     /\ \/ /\ ofs >= r_cap
           /\ OnDone(data, ofs)
        \/ /\ ofs < r_cap
           /\ r_ofs' = ofs /\ r_data' = data
           /\ UNCHANGED <<r_buf, r_cap, r_len, r_on_done, r_body, c_stage, c_last_failure>>

\* A read error on a pipe (wait_for_child__, lines 308-311): the result
\* becomes an error at the consumer's stage and the fd is no longer polled.
ReadError ==
  /\ res_type' = "error" /\ res_failure' = D!Failure(c_stage, "parent", 0)
  /\ retval' = 0

\* A failure body whose malloc() returned NULL: reader->buf is NULL while
\* reader_on_failure_done__ is the body's on_done.
NullBody == r_buf = "none" /\ r_on_done = "body_done" /\ r_body = "failure"

\* POLLIN on the event fd: reader_op_on_data_available__ and the poll
\* loop's handling of its return value.  With no buffer (dropping) at a
\* nonzero offset, NULL + ofs is not NULL: read() into it fails (EFAULT).
\* A read of zero units returns 0, taken as the end of the stream.  A
\* NULL failure body read whole in one go is deserialized at NULL
\* (failure_storage_deserialize dereferences it): the parent crashes.
EventsReadable ==
  /\ ppc = "polling" /\ ev_open /\ ev_pipe # <<>>
  /\ \/ /\ r_cap = r_ofs
        /\ OnDone(r_data, r_ofs) /\ ev_open' = FALSE /\ ev_eof' = TRUE
        /\ UNCHANGED <<ppc, ev_pipe, read_failed, res_type, res_failure, retval>>
     \/ /\ r_cap > r_ofs /\ r_buf = "none" /\ r_ofs > 0
        /\ ReadError /\ ev_open' = FALSE /\ read_failed' = TRUE
        /\ UNCHANGED <<ppc, ev_pipe, rvars, c_stage, c_last_failure, ev_eof>>
     \/ /\ r_cap > r_ofs /\ ~(r_buf = "none" /\ r_ofs > 0)
        /\ \E n \in 1..Min({r_cap - r_ofs, Len(ev_pipe)}) :
             /\ ~(NullBody /\ r_ofs + n >= r_cap)
             /\ Store(n)
        /\ UNCHANGED <<ppc, ev_open, ev_eof, read_failed, res_type, res_failure, retval>>
     \/ /\ NullBody /\ r_ofs = 0 /\ Len(ev_pipe) >= r_cap
        /\ ppc' = "crashed"
        /\ UNCHANGED <<ev_pipe, rvars, ev_open, ev_eof, read_failed, c_stage,
                       c_last_failure, res_type, res_failure, retval>>
  /\ UNCHANGED <<dvars, cvars, out_pipe, out_written, writers_open,
                 out_open, out_eof, o_len, o_cap, res_output, rep_state>>

\* Defective variant of EventsHangup: only POLLIN is acted on.
EventsHangupPollinOnly ==
  /\ ppc = "polling" /\ ev_open /\ ev_pipe = <<>> /\ ~writers_open
  /\ ev_pipe # <<>>
  /\ ev_open' = FALSE /\ ev_eof' = TRUE
  /\ UNCHANGED <<dvars, cvars, pipes, rvars, ppc, out_open, out_eof, read_failed, c_stage,
                 c_last_failure, o_len, o_cap, res_type, res_failure, res_output,
                 retval, rep_state>>

\* POLLHUP alone: the writer is gone and the pipe is drained.
EventsHangup ==
  /\ ppc = "polling" /\ ev_open /\ ev_pipe = <<>> /\ ~writers_open
  /\ ev_open' = FALSE /\ ev_eof' = TRUE
  /\ UNCHANGED <<dvars, cvars, pipes, rvars, ppc, out_open, out_eof, read_failed, c_stage,
                 c_last_failure, o_len, o_cap, res_type, res_failure, res_output,
                 retval, rep_state>>

\* Defective variant of OutputReadable: read() is given the capacity, not
\* the room left.
OutputReadableOverrun ==
  LET cap == IF o_cap = 0 THEN OutInitCap
             ELSE IF o_len >= o_cap THEN o_len * 2 ELSE o_cap
  IN /\ ppc = "polling" /\ out_open /\ out_pipe > 0
     /\ o_cap' = cap
     /\ \E n \in 1..Min({cap, out_pipe}) :
          /\ o_len' = o_len + n
          /\ out_pipe' = out_pipe - n
     /\ UNCHANGED <<dvars, cvars, ev_pipe, out_written, writers_open, rvars,
                    ppc, ev_open, out_open, ev_eof, out_eof, read_failed, c_stage,
                    c_last_failure, res_type, res_failure, res_output, retval, rep_state>>

\* POLLIN on the output fd: output_reader's op_on_data_available__.  The
\* buffer is created with OutInitCap bytes and doubled when full.
OutputReadable ==
  LET cap == IF o_cap = 0 THEN OutInitCap
             ELSE IF o_len >= o_cap THEN o_len * 2 ELSE o_cap
  IN /\ ppc = "polling" /\ out_open /\ out_pipe > 0
     /\ o_cap' = cap
     /\ \E n \in 1..Min({cap - o_len, out_pipe}) :
          /\ o_len' = o_len + n
          /\ out_pipe' = out_pipe - n
     /\ UNCHANGED <<dvars, cvars, ev_pipe, out_written, writers_open, rvars,
                    ppc, ev_open, out_open, ev_eof, out_eof, read_failed, c_stage,
                    c_last_failure, res_type, res_failure, res_output, retval, rep_state>>

OutputHangup ==
  /\ ppc = "polling" /\ out_open /\ out_pipe = 0 /\ ~writers_open
  /\ out_open' = FALSE /\ out_eof' = TRUE
  /\ UNCHANGED <<dvars, cvars, pipes, rvars, ppc, ev_open, ev_eof, read_failed, c_stage,
                 c_last_failure, o_len, o_cap, res_type, res_failure, res_output,
                 retval, rep_state>>

\* poll() fails: an error at the consumer's stage; SIGKILL the child.
PollFail ==
  /\ PollFailures
  /\ ppc = "polling" /\ (ev_open \/ out_open)
  /\ ReadError
  /\ cpc' = IF cpc \in {"running", "handling"} THEN "killed" ELSE cpc
  /\ writers_open' = FALSE
  /\ ppc' = "reaping"
  /\ UNCHANGED <<dvars, exit_code, outbox, hdr_sent, sent, complete, async_signalled,
                 ev_pipe, out_pipe, out_written, rvars, ev_open, out_open,
                 ev_eof, out_eof, read_failed, c_stage, c_last_failure, o_len, o_cap,
                 res_output, rep_state>>

\* Defective variants of Reap: a skip loses its failure; the output's
\* length leaves out the NUL.
ReapDroppingSkipFailure ==
  /\ \/ ppc = "reaping"
     \/ ppc = "polling" /\ ~ev_open /\ ~out_open
  /\ cpc \in {"exited", "killed"}
  /\ \/ /\ cpc = "exited" /\ Coerce(exit_code) = "pass"
        /\ res_type' = "pass" /\ res_failure' = NULL /\ retval' = 0
     \/ /\ cpc = "exited" /\ Coerce(exit_code) # "pass"
        /\ res_type' = Coerce(exit_code)
        /\ res_failure' = IF Coerce(exit_code) = "skipped" THEN NULL ELSE c_last_failure
        /\ retval' = IF Coerce(exit_code) = "skipped" THEN 0 ELSE 1
     \/ /\ cpc = "killed"
        /\ res_type' = "error" /\ res_failure' = D!Failure(c_stage, "parent", 0)
        /\ retval' = 0
  /\ res_output' = IF o_len = 0 THEN 0 ELSE o_len + 1
  /\ rep_state' = IF rep_state = "running" THEN "completed" ELSE rep_state
  /\ ppc' = "done"
  /\ UNCHANGED <<dvars, cvars, pipes, rvars, ev_open, out_open, ev_eof, out_eof,
                 read_failed, c_stage, c_last_failure, o_len, o_cap>>

ReapWithoutNul ==
  /\ \/ ppc = "reaping"
     \/ ppc = "polling" /\ ~ev_open /\ ~out_open
  /\ cpc \in {"exited", "killed"}
  /\ \/ /\ cpc = "exited" /\ Coerce(exit_code) = "pass"
        /\ res_type' = "pass" /\ res_failure' = NULL /\ retval' = 0
     \/ /\ cpc = "exited" /\ Coerce(exit_code) # "pass"
        /\ res_type' = Coerce(exit_code) /\ res_failure' = c_last_failure
        /\ retval' = IF Coerce(exit_code) = "skipped" THEN 0 ELSE 1
     \/ /\ cpc = "killed"
        /\ res_type' = "error" /\ res_failure' = D!Failure(c_stage, "parent", 0)
        /\ retval' = 0
  /\ res_output' = IF o_len = 0 THEN 0 ELSE o_len
  /\ rep_state' = IF rep_state = "running" THEN "completed" ELSE rep_state
  /\ ppc' = "done"
  /\ UNCHANGED <<dvars, cvars, pipes, rvars, ev_open, out_open, ev_eof, out_eof,
                 read_failed, c_stage, c_last_failure, o_len, o_cap>>

\* waitpid() returns once the child is gone; the result follows its exit
\* status (the last failure event for anything but a pass), or is an error
\* at the consumer's stage if a signal killed it.  output_reader_build adds
\* a NUL (res_output is the output's length, 0 for none).  Then the
\* reporter is told the case is complete.
\* output_reader_build: no output when nothing was read, otherwise the
\* bytes read with a NUL appended (ctest_output_resize to length + 1).
OutputBuild == IF o_len = 0 THEN 0 ELSE o_len + 1

Reap ==
  /\ \/ ppc = "reaping"
     \/ ppc = "polling" /\ ~ev_open /\ ~out_open
  /\ cpc \in {"exited", "killed"}
  /\ \/ /\ cpc = "exited" /\ Coerce(exit_code) = "pass"
        /\ res_type' = "pass" /\ res_failure' = NULL /\ retval' = 0
     \/ /\ cpc = "exited" /\ Coerce(exit_code) # "pass"
        /\ res_type' = Coerce(exit_code) /\ res_failure' = c_last_failure
        /\ retval' = IF Coerce(exit_code) = "skipped" THEN 0 ELSE 1
     \/ /\ cpc = "killed"
        /\ res_type' = "error" /\ res_failure' = D!Failure(c_stage, "parent", 0)
        /\ retval' = 0
  /\ res_output' = OutputBuild
  /\ rep_state' = IF rep_state = "running" THEN "completed" ELSE rep_state
  /\ ppc' = "done"
  /\ UNCHANGED <<dvars, cvars, pipes, rvars, ev_open, out_open, ev_eof, out_eof,
                 read_failed, c_stage, c_last_failure, o_len, o_cap>>

-----------------------------------------------------------------------------
Child ==
  \/ ChildStep \/ ChildSignal \/ WriteHeader \/ WriteBody \/ ChildOutput
  \/ ChildExit \/ UserExit

Environment == AsyncSignal \/ ExternalKill

Parent ==
  \/ Start \/ Spawn \/ EventsReadable \/ EventsHangup \/ OutputReadable
  \/ OutputHangup \/ PollFail \/ Reap

Next == Child \/ Environment \/ Parent

\* The child makes progress (its test code terminates, its writes complete)
\* and the parent is scheduled whenever poll() or waitpid() would return.
Fairness ==
  /\ WF_vars(ChildStep \/ WriteHeader \/ WriteBody \/ ChildExit)
  /\ WF_vars(Start) /\ WF_vars(Spawn) /\ WF_vars(EventsReadable) /\ WF_vars(EventsHangup)
  /\ WF_vars(OutputReadable) /\ WF_vars(OutputHangup) /\ WF_vars(Reap)

Spec == Init /\ [][Next]_vars /\ Fairness

-----------------------------------------------------------------------------
Frames == [type : {"stage"}, arg : D!Stages] \cup [type : {"failure"}, arg : D!Failures]
Units == [f : Nat, i : Nat]

TypeOK ==
  /\ D!TypeOK
  /\ cpc \in {"unforked", "running", "handling", "exited", "killed"}
  /\ exit_code \in ResultTypes \cup {"other"}
  /\ outbox \in Seq(Frames) /\ sent \in Seq(Frames) /\ hdr_sent \in BOOLEAN
  /\ complete \subseteq DOMAIN sent
  /\ async_signalled \in BOOLEAN
  /\ ev_pipe \in Seq(Units)
  /\ out_pipe \in 0..OutPipeCap /\ out_written \in 0..MaxOutput
  /\ writers_open \in BOOLEAN
  /\ ppc \in {"start", "spawning", "polling", "reaping", "done", "crashed"}
  /\ {ev_open, out_open, ev_eof, out_eof, read_failed} \subseteq BOOLEAN
  /\ r_buf \in {"header", "stage", "failure", "none"}
  /\ {r_ofs, r_cap, r_len} \subseteq Nat
  /\ r_on_done \in {"header_done", "body_done", "prep_next"}
  /\ r_body \in {"ignored", "stage", "failure"}
  /\ r_data \in Seq(Units)
  /\ c_stage \in D!Stages \cup {CORRUPT}
  /\ c_last_failure \in D!Failures \cup {NULL, CORRUPT}
  /\ o_len \in Nat /\ o_cap \in Nat
  \* no read() writes past the end of a buffer
  /\ o_len <= o_cap /\ r_ofs <= r_cap
  /\ res_type \in ResultTypes
  \* a parent's failure names the consumer's stage, which may be garbage
  /\ res_failure \in D!Failures \cup {NULL, CORRUPT}
                      \cup [stage : {CORRUPT}, origin : {"parent"}, n : {0}]
  /\ res_output \in Nat
  /\ retval \in {-1, 0, 1}
  /\ rep_state \in {"pending", "running", "completed"}

\* The argument of the last completely written frame of a type.
LastWritten(type, none) ==
  LET ks == {k \in complete : sent[k].type = type}
  IN IF ks = {} THEN none ELSE sent[Max(ks)].arg

\* Once the parent has read the event stream to its end, the consumer's
\* stage and last failure are those of the last stage and failure frames
\* the child wrote in full: the reader's header/body state machine cuts the
\* stream at the writer's frame borders, whatever the sizes of the read()s,
\* and a frame cut short by the child's death is never delivered.
DecodedStreamMatchesWritten ==
  ev_eof =>
    /\ c_stage = LastWritten("stage", "setup")
    /\ c_last_failure = LastWritten("failure", NULL)

\* The outcome the driver reached in the child (return, skip, fail, or a
\* signal caught in the test's code) is the result the reporter is given,
\* with the failure the driver reported, when the child exited by itself
\* and the parent read its events to the end.
ReportedResultMatchesDriver ==
  (ppc = "done" /\ cpc = "exited" /\ dpc \in D!Done /\ ev_eof /\ ~async_signalled) =>
    /\ res_type = D!Outcome
    /\ res_failure = D!OutcomeFailure

\* Every byte the test wrote to stdout or stderr reaches the result, which
\* output_reader_build terminates with a NUL, when the parent read the
\* output pipe to its end.
OutputDelivered ==
  (ppc = "done" /\ out_eof) =>
    res_output = IF out_written = 0 THEN 0 ELSE out_written + 1

(* The runner implements CaseReport: the reporter is started, then        *)
(* completed exactly once, whatever the child does or suffers (neither the *)
(* poll loop nor waitpid() waits forever), and the result it is given is   *)
(* never changed afterwards; a pass carries no failure.                    *)
Report == INSTANCE CaseReport WITH
  rstate <- rep_state,
  rtype <- IF rep_state = "completed" THEN res_type ELSE NULL,
  rfailed <- rep_state = "completed" /\ res_failure # NULL,
  Results <- ResultTypes

ImplementsCaseReport == Report!Spec

\* runner_run_testcase__ returns 1 exactly when the case failed or errored
\* (spec 4.9: "1 on fail or error"); the dispatch loop counts failures by it.
RetvalMatchesResult ==
  ppc = "done" => retval = IF res_type \in {"fail", "error"} THEN 1 ELSE 0

(* Spec 4.9: if a read of the child's data fails mid-stream, the parent    *)
(* SIGKILLs the child and reaps it, so the case is an error.  A failed     *)
(* read() on the event pipe (forking_runner.c:310-313) must leave the case *)
(* reported as an error, whatever the child does after it.                 *)
ReadFailureIsError ==
  (ppc = "done" /\ read_failed) => res_type = "error"
=============================================================================
