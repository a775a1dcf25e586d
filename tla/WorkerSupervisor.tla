-------------------------- MODULE WorkerSupervisor --------------------------
(***************************************************************************)
(* Supervision of one contained sketch execution (src/src/wasm/worker.rs): *)
(* the supervisor loop, its writer and reader threads, the worker process  *)
(* (src/src/bin/kernal-wasm-worker.rs), the cleanup dispatcher and the     *)
(* staged output (src/src/wasm/worker/output.rs).                          *)
(*                                                                         *)
(* The supervisor polls its channels and the process one after the other;  *)
(* each poll is a step.  A write of the writer thread and the event that   *)
(* reports it are two steps.  The worker follows its own program but may   *)
(* stall, crash or garble a frame at any point; its pipes close before its *)
(* exit can be observed.  Time is a choice: the deadline passes, the grace *)
(* runs out and a bounded wait gives up whenever the model says so.        *)
(***************************************************************************)
EXTENDS Integers, Sequences, SequencesExt

CONSTANTS Granted,   \* whether an output destination is configured
          Traces,    \* whether the worker may send a trace
          PipeRoom,  \* frames the pipe to the worker holds
          Reports    \* terminal reports the worker may send

ASSUME WorkerConstants ==
  /\ {Granted, Traces} \subseteq BOOLEAN
  /\ PipeRoom \in Nat \ {0}
  /\ Reports \subseteq {"completed", "execution", "cancelled", "deadline", "reported",
                        "protocol", "leaky"}

VARIABLES asked,   \* what asks the execution to stop: the token, the deadline
          sup,     \* the supervisor: its step and the locals of supervise
          phase,   \* ParentReceivePhase
          lane,    \* ProtocolLanes: both helper threads and their channels
          worker,  \* the worker process and its two pipes
          own,     \* who holds ExecutionOwnership: lease, gauges, control, staging
          out,     \* the staging directory and the final destination
          ledger   \* WorkerExecutionLedger

vars == <<asked, sup, phase, lane, worker, own, out, ledger>>

Stops == {"cancelled", "deadline"}

None == "none"

Results == Stops \cup {"completed", "execution", "reported", "protocol", "unexpected_exit",
  "containment_cleanup", "forced_cancelled", "forced_deadline", "refused", "launch",
  "output_grant", "output_commit", "output_cleanup", "committed_cleanup", None}

Forced(trigger) == IF trigger = "cancelled" THEN "forced_cancelled" ELSE "forced_deadline"

Frames == {"hello", "start", "end", "cancel"}

Replies == {"hello_ack", "execute_ack", "trace", "garbled"} \cup Reports

Polls == {"select", "writes", "reads", "wait", "stop"}

TypeOK ==
  /\ asked \subseteq Stops
  /\ sup \in [at: Polls \cup {"admit", "leased", "staged", "force", "reap", "pipe", "close", "exited",
                              "finish", "commit", "boundary", "replace", "done"},
              selected: Stops \cup {None}, queued: BOOLEAN, grace: {None, "armed", "over"},
              why: Results, result: Results, clean: BOOLEAN]
  /\ phase \in [hello_acked: BOOLEAN, upload_queued: BOOLEAN, upload_complete: BOOLEAN,
                execute_ack_deferred: BOOLEAN, execute_acked: BOOLEAN, trace_received: BOOLEAN]
  /\ lane.commands \in Seq({"hello", "upload", "cancel", "close"})
  /\ lane.events \in Seq({"hello", "upload", "cancel"} \X BOOLEAN)
  /\ lane.replies \in Seq(Replies \cup {"err"})
  /\ lane.writer \in {None, "recv", "write", "sent", "done"}
  /\ lane.writing \in {"hello", "upload", "cancel", None}
  /\ lane.left \in Seq(Frames) /\ lane.ok \in BOOLEAN
  /\ lane.reader \in {None, "read", "done"} /\ lane.budget \in 0..4
  /\ worker.at \in {None, "hello", "start", "module", "run", "traced", "reported"}
  /\ worker.process \in {None, "alive", "closing", "zombie", "gone"}
  /\ {worker.clean, worker.told, worker.sound} \subseteq BOOLEAN /\ worker.report \in Reports \cup {None}
  /\ worker.down \in Seq(Frames) /\ worker.up \in Seq(Replies)
  /\ own \in {None, "lease", "supervisor", "cleanup"}
  /\ out \in [staged: {None, "empty", "file", "gone", "left"}, final: {"old", "new"}]
  /\ ledger \in [spawned: Nat, cancel_sent: Nat, grace_expired: Nat, forced: Nat, reaped: Nat,
                 protocol_failures: Nat]

\* The supervisor outside its loop, whose locals are born and end with it.
Outside(at, why, result) ==
  [at |-> at, selected |-> None, queued |-> FALSE, grace |-> None, why |-> why,
   result |-> result, clean |-> FALSE]

NewPhase ==
  [hello_acked |-> FALSE, upload_queued |-> FALSE, upload_complete |-> FALSE,
   execute_ack_deferred |-> FALSE, execute_acked |-> FALSE, trace_received |-> FALSE]

Init ==
  /\ asked = {}
  /\ sup = Outside("admit", None, None)
  /\ phase = NewPhase
  /\ lane = [commands |-> <<>>, events |-> <<>>, replies |-> <<>>, writer |-> None,
             writing |-> None, left |-> <<>>, ok |-> TRUE, reader |-> None, budget |-> 4]
  /\ worker = [at |-> None, process |-> None, clean |-> FALSE, told |-> FALSE, sound |-> TRUE,
               report |-> None, down |-> <<>>, up |-> <<>>]
  /\ own = None
  /\ out = [staged |-> None, final |-> "old"]
  /\ ledger = [spawned |-> 0, cancel_sent |-> 0, grace_expired |-> 0, forced |-> 0, reaped |-> 0,
               protocol_failures |-> 0]

\* The token is cancelled, the deadline passes, the cooperative grace runs out.
Ask(why) ==
  /\ asked' = asked \cup {why}
  /\ UNCHANGED <<sup, phase, lane, worker, own, out, ledger>>

GracePasses ==
  /\ sup.grace = "armed"
  /\ sup' = [sup EXCEPT !.grace = "over"]
  /\ UNCHANGED <<asked, phase, lane, worker, own, out, ledger>>

\* selected_stop: cancellation wins over a deadline seen at the same time.
SelectStop ==
  IF "cancelled" \in asked THEN "cancelled" ELSE IF "deadline" \in asked THEN "deadline" ELSE None

Or(stop, result) == IF stop # None THEN stop ELSE result

-----------------------------------------------------------------------------
(* The worker process, kernal-wasm-worker.rs.                              *)

Alive == worker.process = "alive"

WorkerUnchanged == UNCHANGED <<asked, sup, phase, lane, own, out, ledger>>

\* run_with_io: hello, execute-start, the module, each answered or awaited.
WorkerReads ==
  LET step == [hello |-> [to |-> "start", say |-> <<"hello_ack">>],
               start |-> [to |-> "module", say |-> <<>>],
               module |-> [to |-> "run", say |-> <<"execute_ack">>]]
  IN /\ Alive /\ worker.at \in DOMAIN step /\ worker.down # <<>>
     /\ worker' = [worker EXCEPT !.at = step[worker.at].to, !.down = Tail(@),
                                 !.up = @ \o step[worker.at].say]
     /\ WorkerUnchanged

\* The control thread: a Cancel, or the end of stdin, cancels the root.
WorkerIsTold ==
  /\ Alive /\ worker.at \in {"run", "traced", "reported"} /\ ~worker.told
  /\ worker.down # <<>> \/ lane.writer = "done"
  /\ worker' = [worker EXCEPT !.told = TRUE, !.down = IF @ = <<>> THEN @ ELSE Tail(@)]
  /\ WorkerUnchanged

\* The sketch commits its granted output into the staging directory.
WorkerWrites ==
  /\ Alive /\ worker.at = "run" /\ out.staged = "empty"
  /\ out' = [out EXCEPT !.staged = "file"]
  /\ UNCHANGED <<asked, sup, phase, lane, worker, own, ledger>>

WorkerTraces ==
  /\ Traces /\ Alive /\ worker.at = "run"
  /\ worker' = [worker EXCEPT !.at = "traced", !.up = Append(@, "trace")]
  /\ WorkerUnchanged

\* execute_request ends with one terminal report.
WorkerReports(r) ==
  /\ Alive /\ worker.at \in {"run", "traced"}
  /\ r = "cancelled" => worker.told
  /\ r = "deadline" => "deadline" \in asked
  /\ worker' = [worker EXCEPT !.at = "reported", !.report = r, !.up = Append(@, r)]
  /\ WorkerUnchanged

\* main returns; a crash or a failed read or write exits nonzero.
WorkerExits(clean) ==
  /\ Alive
  /\ clean => worker.at = "reported"
  /\ worker' = [worker EXCEPT !.process = "closing", !.clean = clean, !.down = <<>>,
                              !.at = None, !.told = FALSE]
  /\ WorkerUnchanged

\* A frame that does not decode.
WorkerGarbles ==
  /\ Alive /\ worker.at # "reported" /\ worker.sound
  /\ worker' = [worker EXCEPT !.up = Append(@, "garbled"), !.sound = FALSE]
  /\ WorkerUnchanged

\* The descriptors are closed first; then the exit can be waited for.
KernelEnds ==
  /\ worker.process = "closing"
  /\ worker' = [worker EXCEPT !.process = "zombie"]
  /\ WorkerUnchanged

-----------------------------------------------------------------------------
(* The writer and the reader thread.                                       *)

LaneUnchanged == UNCHANGED <<asked, sup, phase, own, out, ledger>>

FramesOf(command) ==
  CASE command = "hello" -> <<"hello">> [] command = "upload" -> <<"start", "end">>
    [] command = "cancel" -> <<"cancel">>

WriterTakes ==
  /\ lane.writer = "recv" /\ lane.commands # <<>>
  /\ LET c == Head(lane.commands)
         rest == [lane EXCEPT !.commands = Tail(@)]
     IN lane' = IF c = "close" THEN [rest EXCEPT !.writer = "done"]
                ELSE [rest EXCEPT !.writer = "write", !.writing = c, !.left = FramesOf(c), !.ok = TRUE]
  /\ UNCHANGED worker /\ LaneUnchanged

\* write_upload and write_message block while the pipe is full.
WriterWrites ==
  /\ lane.writer = "write"
  /\ IF Alive
     THEN /\ Len(worker.down) < PipeRoom
          /\ worker' = [worker EXCEPT !.down = Append(@, Head(lane.left))]
          /\ lane' = [lane EXCEPT !.left = Tail(@), !.writer = IF Len(lane.left) = 1 THEN "sent" ELSE @]
     ELSE /\ lane' = [lane EXCEPT !.left = <<>>, !.ok = FALSE, !.writer = "sent"]
          /\ UNCHANGED worker
  /\ LaneUnchanged

\* The event; its receiver is gone once the lanes went to the dispatcher.
WriterTells ==
  /\ lane.writer = "sent"
  /\ lane' = IF own = "cleanup" THEN [lane EXCEPT !.writer = "done", !.writing = None]
             ELSE [lane EXCEPT !.writer = "recv", !.writing = None,
                               !.events = Append(@, <<lane.writing, lane.ok>>)]
  /\ UNCHANGED worker /\ LaneUnchanged

\* forward_worker_responses: at most four messages, then an error.
ReaderReads ==
  /\ lane.reader = "read"
  /\ lane.budget = 0 \/ worker.up # <<>> \/ worker.process \in {"closing", "zombie", "gone"}
  /\ LET m == IF worker.up = <<>> \/ lane.budget = 0 \/ Head(worker.up) = "garbled" THEN "err" ELSE Head(worker.up)
     IN lane' = IF own = "cleanup" THEN [lane EXCEPT !.reader = "done"]
                ELSE [lane EXCEPT !.replies = Append(@, m), !.budget = IF @ = 0 THEN 0 ELSE @ - 1,
                                  !.reader = IF m \in Reports \cup {"err"} THEN "done" ELSE @]
  /\ worker' = IF worker.up = <<>> \/ lane.budget = 0 THEN worker ELSE [worker EXCEPT !.up = Tail(@)]
  /\ LaneUnchanged

-----------------------------------------------------------------------------
(* supervise: admission, staging and launch.                               *)

\* Every way to the end releases what the supervisor still owns.
Ends(result) ==
  /\ sup' = Outside("done", None, result)
  /\ own' = IF own = "cleanup" THEN own ELSE None

Admit ==
  /\ sup.at = "admit"
  /\ IF "cancelled" \in asked THEN Ends("cancelled")
     ELSE sup' = [sup EXCEPT !.at = "leased"] /\ own' = "lease"
  /\ UNCHANGED <<asked, phase, lane, worker, out, ledger>>

\* The module is too large for the transport, or no root lease is free.
Refuse ==
  /\ sup.at = "admit" /\ "cancelled" \notin asked
  /\ Ends("refused")
  /\ UNCHANGED <<asked, phase, lane, worker, out, ledger>>

\* The dispatcher thread and the staging directory come before the worker.
Stage(failure) ==
  /\ sup.at = "leased"
  /\ failure = "output_grant" => Granted
  /\ IF SelectStop # None THEN Ends(SelectStop) /\ UNCHANGED out
     ELSE IF failure # None THEN Ends(failure) /\ UNCHANGED out
     ELSE /\ sup' = [sup EXCEPT !.at = "staged"]
          /\ out' = [out EXCEPT !.staged = IF Granted THEN "empty" ELSE None]
          /\ UNCHANGED own
  /\ UNCHANGED <<asked, phase, lane, worker, ledger>>

\* What removing the staging directory leaves; a failure leaves it behind.
Removed(fails) ==
  [out EXCEPT !.staged = IF @ = None THEN None ELSE IF fails THEN "left" ELSE "gone"]

LaunchFails(cleanup) ==
  /\ sup.at = "staged"
  /\ Ends("launch")
  /\ out' = Removed(cleanup)
  /\ UNCHANGED <<asked, phase, lane, worker, ledger>>

\* The worker runs; without both pipes or a request id it is forced at once.
Launch(piped) ==
  /\ sup.at = "staged"
  /\ own' = "supervisor"
  /\ ledger' = [ledger EXCEPT !.spawned = @ + 1]
  /\ worker' = [worker EXCEPT !.process = "alive", !.at = "hello"]
  /\ IF piped
     THEN /\ lane' = [lane EXCEPT !.writer = "recv", !.reader = "read", !.commands = <<"hello">>]
          /\ sup' = [sup EXCEPT !.at = "select"]
     ELSE sup' = Outside("force", "protocol", None) /\ UNCHANGED lane
  /\ UNCHANGED <<asked, phase, out>>

-----------------------------------------------------------------------------
(* ParentReceivePhase.                                                     *)

\* upload: whether the writer's result is accepted, and the phase after it.
UploadAccepted(p, ok) == ok /\ p.hello_acked /\ p.upload_queued /\ ~p.upload_complete

Uploaded(p) == [p EXCEPT !.upload_complete = TRUE, !.execute_acked = @ \/ p.execute_ack_deferred]

\* receive: which messages are accepted in which phase.
ReceiveAccepted(p, m) ==
  \/ m = "trace" /\ p.execute_acked /\ ~p.trace_received
  \/ m = "hello_ack" /\ ~p.hello_acked
  \/ m = "execute_ack" /\ p.hello_acked /\ p.upload_queued /\ ~p.execute_ack_deferred /\ ~p.execute_acked
  \/ m \in Reports /\ p.execute_acked

Received(p, m) ==
  [p EXCEPT !.trace_received = @ \/ m = "trace",
            !.hello_acked = @ \/ m = "hello_ack",
            !.execute_acked = @ \/ (m = "execute_ack" /\ p.upload_complete),
            !.execute_ack_deferred = @ \/ (m = "execute_ack" /\ ~p.upload_complete)]

-----------------------------------------------------------------------------
(* The supervisor loop.                                                    *)

Goto(at) == sup' = [sup EXCEPT !.at = at]

Force(why) == sup' = Outside("force", why, None)

\* The lanes are closed by the step that leaves the loop for good.
Closing(l) == [l EXCEPT !.commands = Append(@, "close")]

Select ==
  LET s == Or(sup.selected, SelectStop)
  IN /\ sup.at = "select"
     /\ sup' = IF s # None /\ ~phase.upload_complete
               THEN Outside("force", s, None)
               ELSE [sup EXCEPT !.selected = s, !.at = "writes"]
     /\ UNCHANGED <<asked, phase, lane, worker, own, out, ledger>>

PollWrites ==
  /\ sup.at = "writes"
  /\ IF lane.events = <<>> THEN Goto("reads") /\ UNCHANGED <<phase, lane, ledger>>
     ELSE LET what == Head(lane.events)[1]
              ok   == Head(lane.events)[2]
          IN /\ lane' = [lane EXCEPT !.events = Tail(@)]
             /\ \/ what = "hello" /\ ok /\ Goto("reads") /\ UNCHANGED <<phase, ledger>>
                \/ /\ what = "upload" /\ ok
                   /\ IF UploadAccepted(phase, ok) THEN phase' = Uploaded(phase) /\ Goto("reads")
                      ELSE Force("protocol") /\ UNCHANGED phase
                   /\ UNCHANGED ledger
                \/ /\ what = "cancel" /\ ok
                   /\ ledger' = [ledger EXCEPT !.cancel_sent = @ + 1]
                   /\ sup' = [sup EXCEPT !.at = "reads", !.grace = "armed"]
                   /\ UNCHANGED phase
                \/ ~ok /\ Goto("pipe") /\ UNCHANGED <<phase, ledger>>
  /\ UNCHANGED <<asked, worker, own, out>>

\* map_terminal: what a report means; one with live counters means nothing.
Mapped(r) == IF r = "leaky" THEN None ELSE r

PollReads ==
  /\ sup.at = "reads"
  /\ IF lane.replies = <<>> THEN Goto("wait") /\ UNCHANGED <<phase, lane, ledger>>
     ELSE LET m == Head(lane.replies)
              rest == [lane EXCEPT !.replies = Tail(@)]
          IN \/ m = "err" /\ Goto("pipe") /\ lane' = rest /\ UNCHANGED <<phase, ledger>>
             \/ m # "err" /\ ~ReceiveAccepted(phase, m) /\ Force("protocol") /\ lane' = rest /\ UNCHANGED <<phase, ledger>>
             \/ /\ m # "err" /\ ReceiveAccepted(phase, m)
                /\ phase' = [Received(phase, m) EXCEPT !.upload_queued = @ \/ m = "hello_ack"]
                /\ lane' = IF m = "hello_ack" THEN [rest EXCEPT !.commands = Append(@, "upload")] ELSE rest
                /\ sup' = IF m \notin Reports THEN [sup EXCEPT !.at = "wait"]
                          ELSE IF Mapped(m) = None THEN Outside("force", "protocol", None)
                          ELSE [sup EXCEPT !.at = "reap", !.result = Mapped(m)]
                /\ ledger' = [ledger EXCEPT !.protocol_failures = IF m = "protocol" THEN @ + 1 ELSE @]
  /\ UNCHANGED <<asked, worker, own, out>>

PollExit ==
  /\ sup.at = "wait"
  /\ IF worker.process = "zombie"
     THEN /\ worker' = [worker EXCEPT !.process = "gone"]
          /\ sup' = [sup EXCEPT !.at = "exited", !.clean = worker.clean]
          /\ lane' = Closing(lane)
     ELSE Goto("stop") /\ UNCHANGED <<worker, lane>>
  /\ UNCHANGED <<asked, phase, own, out, ledger>>

\* try_wait fails.
PollExitFails ==
  /\ sup.at = "wait"
  /\ Force("unexpected_exit")
  /\ UNCHANGED <<asked, phase, lane, worker, own, out, ledger>>

StopWorker ==
  /\ sup.at = "stop"
  /\ IF sup.selected # None /\ ~sup.queued
     THEN /\ lane' = [lane EXCEPT !.commands = Append(@, "cancel")]
          /\ sup' = [sup EXCEPT !.at = "select", !.queued = TRUE, !.grace = "armed"]
          /\ UNCHANGED ledger
     ELSE /\ IF sup.grace = "over"
             THEN Force(sup.selected) /\ ledger' = [ledger EXCEPT !.grace_expired = @ + 1]
             ELSE Goto("select") /\ UNCHANGED ledger
          /\ UNCHANGED lane
  /\ UNCHANGED <<asked, phase, worker, own, out>>

-----------------------------------------------------------------------------
(* The ways out of the loop.                                               *)

Counted(why, forced) ==
  [ledger EXCEPT !.protocol_failures = IF why = "protocol" THEN @ + 1 ELSE @,
                 !.forced = @ + forced, !.reaped = @ + forced]

\* Mutant: the writer lane stays open.
ForceReapsKeepsLanes ==
  /\ sup.at = "force"
  /\ worker' = [worker EXCEPT !.process = "gone", !.down = <<>>, !.at = None, !.told = FALSE]
  /\ ledger' = Counted(sup.why, 1)
  /\ sup' = Outside("close", None, IF sup.why \in Stops THEN Forced(sup.why) ELSE sup.why)
  /\ phase' = NewPhase
  /\ UNCHANGED <<asked, lane, own, out>>

\* force_result, then lanes.close() or the hand-off to the dispatcher.
ForceReaps ==
  /\ sup.at = "force"
  /\ worker' = [worker EXCEPT !.process = "gone", !.down = <<>>, !.at = None, !.told = FALSE]
  /\ ledger' = Counted(sup.why, 1)
  /\ lane' = Closing(lane)
  /\ sup' = Outside("close", None, IF sup.why \in Stops THEN Forced(sup.why) ELSE sup.why)
  /\ phase' = NewPhase
  /\ UNCHANGED <<asked, own, out>>

\* Mutant: a failed force drops the owner instead of handing it off.
ForceFailsLetsGo ==
  /\ sup.at = "force"
  /\ ledger' = Counted(sup.why, 0)
  /\ sup' = Outside("done", None, "containment_cleanup")
  /\ phase' = NewPhase
  /\ lane' = [lane EXCEPT !.events = <<>>, !.replies = <<>>]
  /\ own' = None
  /\ UNCHANGED <<asked, worker, out>>

ForceFails ==
  /\ sup.at = "force"
  /\ ledger' = Counted(sup.why, 0)
  /\ sup' = Outside("done", None, "containment_cleanup")
  /\ phase' = NewPhase
  /\ lane' = [lane EXCEPT !.events = <<>>, !.replies = <<>>]
  /\ own' = "cleanup"
  /\ UNCHANGED <<asked, worker, out>>

\* reap_clean after a terminal report.
Reap ==
  /\ sup.at = "reap" /\ worker.process = "zombie"
  /\ worker' = [worker EXCEPT !.process = "gone"]
  /\ ledger' = [ledger EXCEPT !.reaped = @ + 1]
  /\ lane' = Closing(lane)
  /\ sup' = [sup EXCEPT !.at = "close",
                        !.result = IF worker.clean THEN Or(sup.selected, @) ELSE "unexpected_exit"]
  /\ UNCHANGED <<asked, phase, own, out>>

ReapTimesOut ==
  /\ sup.at = "reap" /\ worker.process # "zombie"
  /\ Force("containment_cleanup")
  /\ UNCHANGED <<asked, phase, lane, worker, own, out, ledger>>

\* pipe_failure_result: EXIT_OBSERVATION_BOUND to see the worker exit.
PipeReaps ==
  /\ sup.at = "pipe" /\ worker.process = "zombie"
  /\ worker' = [worker EXCEPT !.process = "gone"]
  /\ sup' = [sup EXCEPT !.at = "exited", !.clean = worker.clean]
  /\ lane' = Closing(lane)
  /\ UNCHANGED <<asked, phase, own, out, ledger>>

PipeTimesOut ==
  /\ sup.at = "pipe" /\ worker.process # "zombie"
  /\ Force("protocol")
  /\ UNCHANGED <<asked, phase, lane, worker, own, out, ledger>>

HelpersJoined == lane.writer \in {None, "done"} /\ lane.reader \in {None, "done"}

LanesClosed ==
  /\ sup.at = "close" /\ HelpersJoined
  /\ Goto("finish")
  /\ UNCHANGED <<asked, phase, lane, worker, own, out, ledger>>

\* exited_join_result: replay the upload's event, then the replies up to the
\* report, the first error or the first message out of order.
Replayed ==
  FoldLeft(LAMBDA p, e : IF e[1] = "upload" /\ UploadAccepted(p, e[2]) THEN Uploaded(p) ELSE p,
           phase, lane.events)

UploadRejected == \E e \in Range(lane.events) : e[1] = "upload" /\ ~UploadAccepted(phase, e[2])

Drained ==
  FoldLeft(LAMBDA d, m : IF ~d.open THEN d
                         ELSE IF m = "err" \/ ~ReceiveAccepted(d.phase, m) THEN [d EXCEPT !.open = FALSE]
                         ELSE IF m \in Reports THEN [d EXCEPT !.open = FALSE, !.report = m]
                         ELSE [d EXCEPT !.phase = Received(@, m)],
           [phase |-> Replayed, open |-> TRUE, report |-> None], lane.replies)

Exited ==
  LET report == IF UploadRejected THEN None ELSE Drained.report
      mapped == IF report = None \/ ~sup.clean THEN "unexpected_exit"
                ELSE IF Mapped(report) = None THEN "protocol"
                ELSE Or(sup.selected, Mapped(report))
  IN /\ sup.at = "exited" /\ HelpersJoined
     /\ sup' = [sup EXCEPT !.at = "finish", !.result = mapped]
     /\ ledger' = [ledger EXCEPT !.reaped = @ + 1,
                     !.protocol_failures = IF sup.clean /\ report \in {"leaky", "protocol"} THEN @ + 1 ELSE @]
     /\ UNCHANGED <<asked, phase, lane, worker, own, out>>

-----------------------------------------------------------------------------
(* CleanupDispatcher: forces until it succeeds, then lets everything go.   *)

\* Mutant: the dispatcher does not close the writer lane.
CleanupReapsKeepsLanes ==
  /\ own = "cleanup" /\ worker.process # "gone"
  /\ worker' = [worker EXCEPT !.process = "gone", !.down = <<>>, !.at = None, !.told = FALSE]
  /\ ledger' = [ledger EXCEPT !.forced = @ + 1, !.reaped = @ + 1]
  /\ UNCHANGED <<asked, sup, phase, lane, own, out>>

CleanupReaps ==
  /\ own = "cleanup" /\ worker.process # "gone"
  /\ worker' = [worker EXCEPT !.process = "gone", !.down = <<>>, !.at = None, !.told = FALSE]
  /\ ledger' = [ledger EXCEPT !.forced = @ + 1, !.reaped = @ + 1]
  /\ lane' = Closing(lane)
  /\ UNCHANGED <<asked, sup, phase, own, out>>

CleanupEnds(fails) ==
  /\ own = "cleanup" /\ worker.process = "gone" /\ HelpersJoined
  /\ own' = None
  /\ out' = Removed(fails)
  /\ UNCHANGED <<asked, sup, phase, lane, worker, ledger>>

-----------------------------------------------------------------------------
(* finish_output and StagedOutput.                                         *)

\* Mutant: whatever the worker staged is committed.
FinishOutputAlways(fails) ==
  /\ sup.at = "finish"
  /\ IF out.staged = None THEN Ends(sup.result) /\ UNCHANGED out
     ELSE IF out.staged = "file" THEN Goto("commit") /\ UNCHANGED <<own, out>>
     ELSE Ends(IF fails THEN "output_cleanup" ELSE sup.result) /\ out' = Removed(fails)
  /\ UNCHANGED <<asked, phase, lane, worker, ledger>>

\* The worker is reaped; a completed execution goes on to the commit.
FinishOutput(fails) ==
  LET result == IF sup.result = "completed" THEN Or(SelectStop, "completed") ELSE sup.result
  IN /\ sup.at = "finish"
     /\ IF out.staged = None THEN Ends(sup.result) /\ UNCHANGED out
        ELSE IF result = "completed" THEN Goto("commit") /\ UNCHANGED <<own, out>>
        ELSE Ends(IF fails THEN "output_cleanup" ELSE result) /\ out' = Removed(fails)
     /\ UNCHANGED <<asked, phase, lane, worker, ledger>>

\* The staged file must be a regular file that can be flushed.
CommitFlush(fails, cleanup) ==
  /\ sup.at = "commit"
  /\ IF out.staged = "file" /\ ~fails THEN Goto("boundary") /\ UNCHANGED <<own, out>>
     ELSE Ends("output_commit") /\ out' = Removed(cleanup)
  /\ UNCHANGED <<asked, phase, lane, worker, ledger>>

CommitBoundary(fails) ==
  /\ sup.at = "boundary"
  /\ IF SelectStop = None THEN Goto("replace") /\ UNCHANGED <<own, out>>
     ELSE Ends(IF fails THEN "output_cleanup" ELSE SelectStop) /\ out' = Removed(fails)
  /\ UNCHANGED <<asked, phase, lane, worker, ledger>>

CommitReplace(fails, cleanup) ==
  /\ sup.at = "replace"
  /\ out' = IF fails THEN Removed(cleanup) ELSE [Removed(cleanup) EXCEPT !.final = "new"]
  /\ Ends(IF fails THEN "output_commit" ELSE IF cleanup THEN "committed_cleanup" ELSE "completed")
  /\ UNCHANGED <<asked, phase, lane, worker, ledger>>

-----------------------------------------------------------------------------
Worker ==
  \/ WorkerReads \/ WorkerIsTold \/ WorkerWrites \/ WorkerTraces \/ WorkerGarbles
  \/ \E r \in Reports : WorkerReports(r)
  \/ \E clean \in BOOLEAN : WorkerExits(clean)

Writer == WriterTakes \/ WriterWrites \/ WriterTells

Supervisor ==
  \/ Admit \/ Refuse \/ \E f \in {None, "launch", "output_grant"} : Stage(f)
  \/ \E b \in BOOLEAN : LaunchFails(b) \/ Launch(b)
  \/ Select \/ PollWrites \/ PollReads \/ PollExit \/ PollExitFails \/ StopWorker
  \/ ForceReaps \/ ForceFails \/ Reap \/ ReapTimesOut \/ PipeReaps \/ PipeTimesOut
  \/ LanesClosed \/ Exited
  \/ \E b \in BOOLEAN : FinishOutput(b) \/ CommitBoundary(b)
  \/ \E b, d \in BOOLEAN : CommitFlush(b, d) \/ CommitReplace(b, d)

Cleanup == CleanupReaps \/ \E b \in BOOLEAN : CleanupEnds(b)

Next ==
  \/ \E why \in Stops : Ask(why)
  \/ GracePasses \/ KernelEnds \/ Worker \/ Writer \/ ReaderReads \/ Supervisor \/ Cleanup

Spec == Init /\ [][Next]_vars

\* The host's threads run, the kernel finishes an exit, time passes, and a
\* force that is repeated succeeds in the end.  Nothing is asked of the worker.
FairSpec ==
  /\ Spec
  /\ WF_vars(Ask("deadline")) /\ WF_vars(GracePasses) /\ WF_vars(KernelEnds)
  /\ WF_vars(Writer) /\ WF_vars(ReaderReads) /\ WF_vars(Supervisor) /\ WF_vars(Cleanup)

-----------------------------------------------------------------------------
\* The destination changes only through a worker that reported completion and
\* exited zero by itself, and the result says whether it changed ("Only
\* successful, reaped execution may publish staged bytes", worker/output.rs).
PublishedExactlyBySuccess ==
  /\ out.final = "new" => worker.process = "gone" /\ worker.clean /\ worker.report = "completed"
  /\ sup.at = "done" =>
       (out.final = "new" <=> Granted /\ sup.result \in {"completed", "committed_cleanup"})

\* A worker that reported well-formed and exited zero is never an unexpected
\* exit, however its exit, its report and the helper threads are ordered
\* (exited_join_result: "keeps a reported outcome from being demoted to
\* `UnexpectedExit` purely because a helper thread lost a scheduling race").
CleanReportIsExpected ==
  sup.at = "done" /\ sup.result = "unexpected_exit" /\ ledger.forced = 0 =>
    ~(worker.clean /\ worker.sound /\ worker.report # None)

\* A granted output is published exactly by a successful run, and a worker that
\* reported well-formed and exited zero is never an unexpected exit, however its
\* exit, its report and the helper threads are ordered (finish_output,
\* exited_join_result).
ReportsAreHonoured == TypeOK /\ PublishedExactlyBySuccess /\ CleanReportIsExpected

\* When lease and gauges are gone the worker has been reaped, and counted,
\* exactly once, both helpers have ended and the staging directory has been
\* dealt with, whether the supervisor or the dispatcher did it.
NothingOutlivesTheLease ==
  sup.at = "done" /\ own = None =>
    /\ worker.process \in {None, "gone"} /\ HelpersJoined
    /\ ledger.reaped = ledger.spawned
    /\ out.staged \notin {"empty", "file"}

\* A worker that kept to the protocol and reported an outcome, without anybody
\* asking it to stop, is not called a protocol failure (ProtocolLanes: "lets
\* every terminal path drain what the worker already reported before it
\* classifies the outcome").
ReportedOutcomeIsKept ==
  sup.at = "done" /\ worker.sound /\ asked = {} /\ worker.report \notin {None, "protocol", "leaky"} =>
    sup.result # "protocol"

\* The supervision ends whatever the worker does: it stalls, keeps its pipe
\* full, closes its pipe or cannot be killed.
SupervisionEnds == <>(sup.at = "done")

\* What a failed force handed to the dispatcher is let go in the end.
ContainmentEnds == <>[](own = None)

====
