-------------------------- MODULE WebviewSessions --------------------------
(***************************************************************************)
(* The native webviews of one logical root: SketchWebviews                 *)
(* (tauri/sketch.rs) runs one job per guest operation and one watcher per  *)
(* view on top of the operation hub, the table of native backings          *)
(* (tauri.rs), the window toolkit's UI thread, viewport captures           *)
(* (tauri/capture.rs) and the encoder that publishes them                  *)
(* (NativeBlobEncoder).  An action is one stretch between two awaits or    *)
(* two critical sections.  Every unsuccessful terminal is "Ended".         *)
(***************************************************************************)
EXTENDS Naturals, FiniteSets

CONSTANTS Views,      \* tokens of external webview resources
          Ops,        \* tokens of operations, reused once free
          MaxOpens,   \* maximum_operations.min(4), native opens
          MaxCaptures,\* maximum_operations.min(4), native captures
          MaxJobs,    \* MAX_JOBS
          None

VARIABLES closed,   \* the hub is closed
          view,     \* the hub's resource of a view
          op,       \* the hub's operations
          job,      \* the jobs, by operation
          watch,    \* the terminal watchers, by view
          listed,   \* self.jobs
          closing, failed, explicit,   \* self.closing and stop, failed, closing set
          table,    \* service.native
          nat,      \* who holds the NativeWebview of a view
          win,      \* the native window
          build,    \* create_on_wry_thread of a view: its lease is held until "done"
          term,     \* the view's terminal completion was sent
          loadTaken,\* views whose load waiter was consumed
          cap,      \* native captures, by operation: lease held unless "none"
          entry,    \* UI_CAPTURES
          ui,       \* UI closures of captures: capture() to return, entries to drop
          loop,     \* the event loop runs
          shut      \* shutdown: its stage, the jobs it awaits, the views it took

vars == <<closed, view, op, job, watch, listed, closing, failed, explicit, table,
          nat, win, build, term, loadTaken, cap, entry, ui, loop, shut>>

hubVars == <<closed, view, op>>
jobVars == <<job, watch, listed, closing, failed, explicit>>
natVars == <<table, nat, win, build, term, loadTaken>>
capVars == <<cap, entry, ui, loop>>

Kinds == {"open", "load", "capture", "close"}

\* blob: an encoder's reserved blob is bound to the operation
NoOp == [present |-> FALSE, terminal |-> None, blob |-> FALSE]
NoJob == [at |-> "none", kind |-> "none", v |-> None]

Init ==
  /\ closed = FALSE /\ view = [v \in Views |-> "none"]
  /\ op = [o \in Ops |-> NoOp] /\ job = [o \in Ops |-> NoJob]
  /\ watch = [v \in Views |-> "none"] /\ listed = {} /\ closing = FALSE
  /\ failed = FALSE /\ explicit = {} /\ table = {}
  /\ nat = [v \in Views |-> "none"] /\ win = [v \in Views |-> "none"]
  /\ build = [v \in Views |-> "none"] /\ term = {} /\ loadTaken = {}
  /\ cap = [o \in Ops |-> "none"] /\ entry = [o \in Ops |-> "none"]
  /\ loop = TRUE /\ ui = [returning |-> {}, drops |-> {}]
  /\ shut = [at |-> "no", jobs |-> {}, views |-> {}, waits |-> {}]

-----------------------------------------------------------------------------
(* The hub, as functions of its resources and operations.                  *)

h == [view |-> view, op |-> op]
Install(t) == view' = t.view /\ op' = t.op

Pending(t, o) == t.op[o].present /\ t.op[o].terminal = None

\* terminal_locked: the first terminal stays; it publishes or removes what the operation created.
Terminate(t, o, terminal) ==
  IF ~Pending(t, o) THEN t ELSE
  [view |-> IF job[o].kind # "open" THEN t.view
            ELSE [t.view EXCEPT ![job[o].v] =
                    IF terminal # "Completed" THEN "gone" ELSE IF @ = "reserved" THEN "live" ELSE @],
   op |-> [t.op EXCEPT ![o].terminal = terminal,
                       ![o].blob = FALSE]]

\* close_resource_with_terminal_locked: an open borrows its grant, not its view.
Borrowers(t, v) ==
  {o \in Ops : Pending(t, o) /\ job[o].kind # "open" /\ job[o].v = v}

Ended(t, S) ==
  [t EXCEPT !.op = [o \in Ops |-> IF o \in S THEN Terminate(t, o, "Ended").op[o] ELSE @[o]]]

Revoke(t, v) ==
  IF t.view[v] \in {"none", "gone"} THEN t
  ELSE Ended([t EXCEPT !.view[v] = "gone"], Borrowers(t, v))

\* close_locked: every resource goes, every operation ends.
CloseHub ==
  /\ ~closed /\ closed' = TRUE
  /\ view' = [v \in Views |-> IF view[v] = "none" THEN "none" ELSE "gone"]
  /\ op' = Ended(h, {o \in Ops : Pending(h, o)}).op
  /\ UNCHANGED <<jobVars, natVars, capVars, shut>>

\* The guest collects a terminal; closing the blob it was given is left to the hub's own model.
Poll(o) ==
  /\ op[o].present /\ op[o].terminal # None
  /\ op' = [op EXCEPT ![o] = NoOp]
  /\ job' = [job EXCEPT ![o] = IF @.at = "done" /\ @.kind # "capture" THEN NoJob ELSE @]
  /\ UNCHANGED <<closed, view, watch, listed, closing, failed, explicit, natVars, capVars, shut>>

CancelOperation(o) ==
  /\ Pending(h, o) /\ Install(Terminate(h, o, "Ended"))
  /\ UNCHANGED <<closed, jobVars, natVars, capVars, shut>>

-----------------------------------------------------------------------------
(* Admission.                                                              *)

JobOver(x) == IF x \in Ops THEN job[x].at \in {"none", "done"} ELSE watch[x] = "done"

\* admit_job, under the lock of self.jobs
Admit == ~closing /\ Cardinality(listed) < MaxJobs

Free(o) == ~op[o].present /\ job[o].at \in {"none", "done"} 
           /\ cap[o] = "none" /\ entry[o] = "none" /\ o \notin ui.returning \cup ui.drops

\* begin_granted_webview_open, begin_external_webview_*, bind_producer_cancellation
Begin(o, kind, v) ==
  /\ ~closed /\ Free(o)
  /\ IF kind = "open" THEN view[v] = "none" ELSE view[v] = "live"
  /\ view' = IF kind = "open" THEN [view EXCEPT ![v] = "reserved"] ELSE view
  /\ op' = [op EXCEPT ![o] = [NoOp EXCEPT !.present = TRUE]]

Submit(o, kind, v) ==
  /\ Admit /\ Begin(o, kind, v)
  /\ job' = [job EXCEPT ![o] = [at |-> "start", kind |-> kind, v |-> v]]
  /\ listed' = listed \cup {o}
  /\ UNCHANGED <<closed, watch, closing, failed, explicit, natVars, capVars, shut>>

-----------------------------------------------------------------------------
(* What every job shares.                                                  *)

\* A finished job is forgotten with its operation, except a capture, whose callback names it.
Goes(o, to) ==
  job' = [job EXCEPT ![o] = IF to = "done" /\ ~op[o].present /\ @.kind # "capture" THEN NoJob
                            ELSE [@ EXCEPT !.at = to]]
\* admit_job drops finished jobs from the list before it looks at it: they leave at once here.
Leaves(x, to) == listed' = IF to = "done" THEN listed \ {x} ELSE listed
At(o, kind, at) == job[o].kind = kind /\ job[o].at = at
Only(o, to) == Goes(o, to) /\ Leaves(o, to) /\ UNCHANGED <<watch, closing, failed, explicit>>

WatchGoes(v, to) ==
  /\ watch' = [watch EXCEPT ![v] = to] /\ Leaves(v, to)
  /\ UNCHANGED <<job, closing, failed, explicit>>

\* producer_cancel is cancelled by any terminal, and bound already cancelled after one.
Cancelled(o) == ~Pending(h, o)

\* NativeWebview::close, also run by its Drop; it fails once the event loop is gone,
\* and then the windows are gone as well.
CloseWindow(v) == win' = [win EXCEPT ![v] = IF @ = "open" THEN "closing" ELSE @]

\* The error path of submit's future: end the operation, then revoke the view.
Fail(o) ==
  /\ job[o].at = "fail"
  /\ Install(Terminate(h, o, "Ended"))
  /\ Only(o, IF job[o].kind = "capture" THEN "done" ELSE "revoke")
  /\ UNCHANGED <<closed, natVars, capVars, shut>>

RevokeHubOnly(o) ==
  /\ job[o].at = "revoke"
  /\ Install(Revoke(h, job[o].v)) /\ Only(o, "done")
  /\ UNCHANGED <<closed, natVars, capVars, shut>>

\* revoke_with_terminal: the hub first, then the native backing.
RevokeView(o) ==
  /\ job[o].at = "revoke"
  /\ Install(Revoke(h, job[o].v)) /\ Only(o, "take")
  /\ UNCHANGED <<closed, natVars, capVars, shut>>

TakeNative(v) ==
  /\ table' = table \ {v}
  /\ IF v \in table THEN nat' = [nat EXCEPT ![v] = "dropped"] /\ CloseWindow(v)
     ELSE UNCHANGED <<nat, win>>
  /\ UNCHANGED <<build, term, loadTaken>>

TakeView(o) ==
  /\ job[o].at = "take" /\ TakeNative(job[o].v) /\ Only(o, "done")
  /\ UNCHANGED <<hubVars, capVars, shut>>

\* Where a panic is tried, once: elsewhere it does what Fail does.
PanicAt == {"opening", "inserted", "closing"}

\* A panicking job: the guard ends the operation and revokes, what the job held is dropped.
Panic(o) ==
  /\ job[o].at \in PanicAt /\ ~failed /\ failed' = TRUE
  /\ Install(Terminate(h, o, "Ended"))
  /\ Goes(o, "revoke") /\ UNCHANGED listed
  /\ IF nat[job[o].v] \in {"sent", "job"}
     THEN nat' = [nat EXCEPT ![job[o].v] = "dropped"] /\ CloseWindow(job[o].v)
     ELSE UNCHANGED <<nat, win>>
  /\ UNCHANGED <<closed, watch, closing, explicit, table, build, term, loadTaken,
                 capVars, shut>>

-----------------------------------------------------------------------------
(* Open.                                                                   *)

Opens == {v \in Views : build[v] \in {"queued", "ui"}}

\* The job of a view's open: it receives what create_on_wry_thread sends.
Receiver(v) == {o \in Ops : job[o].v = v /\ At(o, "open", "opening")}

OpenStart(o) ==
  /\ At(o, "open", "start")
  /\ IF Cancelled(o) \/ closed \/ Cardinality(Opens) >= MaxOpens
     THEN Only(o, "fail") /\ UNCHANGED build
     ELSE Only(o, "opening") /\ build' = [build EXCEPT ![job[o].v] = "queued"]
  /\ UNCHANGED <<hubVars, table, nat, win, term, loadTaken, capVars, shut>>

\* The blocking lane: create the window and queue the closure that builds the view.
CreateWindow(v) ==
  /\ build[v] = "queued"
  /\ \/ loop /\ build' = [build EXCEPT ![v] = "ui"] /\ win' = [win EXCEPT ![v] = "open"]
     \/ build' = [build EXCEPT ![v] = "failed"] /\ UNCHANGED win
  /\ UNCHANGED <<hubVars, jobVars, table, nat, term, loadTaken, capVars, shut>>

\* The UI closure; a send to a receiver that is gone drops the NativeWebview.
BuildWebview(v) ==
  /\ loop /\ build[v] = "ui"
  /\ \/ /\ Receiver(v) # {} /\ win[v] = "open" /\ build' = [build EXCEPT ![v] = "done"]
        /\ nat' = [nat EXCEPT ![v] = "sent"] /\ UNCHANGED win
     \/ build' = [build EXCEPT ![v] = "failed"] /\ CloseWindow(v) /\ UNCHANGED nat
  /\ UNCHANGED <<hubVars, jobVars, table, term, loadTaken, capVars, shut>>

OpenCancelled(o) ==
  /\ At(o, "open", "opening") /\ Cancelled(o)
  /\ LET v == job[o].v IN
     IF nat[v] = "sent" THEN nat' = [nat EXCEPT ![v] = "dropped"] /\ CloseWindow(v)
     ELSE UNCHANGED <<nat, win>>
  /\ Only(o, "fail")
  /\ UNCHANGED <<hubVars, table, build, term, loadTaken, capVars, shut>>

OpenFails(o) ==
  /\ At(o, "open", "opening") /\ build[job[o].v] = "failed"
  /\ Only(o, "fail") /\ UNCHANGED <<hubVars, natVars, capVars, shut>>

OpenInserts(o) ==
  /\ At(o, "open", "opening") /\ nat[job[o].v] = "sent"
  /\ nat' = [nat EXCEPT ![job[o].v] = "table"] /\ table' = table \cup {job[o].v}
  /\ Only(o, "inserted")
  /\ UNCHANGED <<hubVars, win, build, term, loadTaken, capVars, shut>>

\* launch of the terminal watcher, with an admission of its own
OpenWatches(o) ==
  /\ At(o, "open", "inserted")
  /\ IF Admit
     THEN /\ Goes(o, "watched") /\ watch' = [watch EXCEPT ![job[o].v] = "waiting"]
          /\ listed' = listed \cup {job[o].v}
     ELSE Goes(o, "fail") /\ UNCHANGED <<watch, listed>>
  /\ UNCHANGED <<hubVars, closing, failed, explicit, natVars, capVars, shut>>

\* finish_external_open
OpenPublishes(o) ==
  /\ At(o, "open", "watched")
  /\ IF closed \/ view[job[o].v] # "reserved" \/ ~Pending(h, o)
     THEN Only(o, "fail") /\ UNCHANGED <<view, op>>
     ELSE Only(o, "done") /\ Install(Terminate(h, o, "Completed"))
  /\ UNCHANGED <<closed, natVars, capVars, shut>>

-----------------------------------------------------------------------------
(* The watcher of a view.                                                  *)

WatchStops(v) ==
  /\ watch[v] = "waiting" /\ closing
  /\ WatchGoes(v, "done")
  /\ UNCHANGED <<hubVars, natVars, capVars, shut>>

WatchFires(v) ==
  /\ watch[v] = "waiting" /\ v \in term
  /\ WatchGoes(v, IF v \in explicit THEN "done" ELSE "revoke")
  /\ UNCHANGED <<hubVars, natVars, capVars, shut>>

WatchRevokes(v) ==
  /\ watch[v] = "revoke" /\ Install(Revoke(h, v))
  /\ WatchGoes(v, "take")
  /\ UNCHANGED <<closed, natVars, capVars, shut>>

WatchTakes(v) ==
  /\ watch[v] = "take" /\ TakeNative(v)
  /\ WatchGoes(v, "done")
  /\ UNCHANGED <<hubVars, capVars, shut>>

-----------------------------------------------------------------------------
(* Load.                                                                   *)

LoadStart(o) ==
  /\ At(o, "load", "start")
  /\ IF Cancelled(o) \/ job[o].v \notin table \/ job[o].v \in loadTaken
     THEN Only(o, "fail") /\ UNCHANGED loadTaken
     ELSE Only(o, "loading") /\ loadTaken' = loadTaken \cup {job[o].v}
  /\ UNCHANGED <<hubVars, table, nat, win, build, term, capVars, shut>>

LoadFinishes(o) ==
  /\ At(o, "load", "loading")
  /\ \/ Install(Terminate(h, o, "Completed")) /\ Only(o, "done")
     \/ Only(o, "fail") /\ UNCHANGED <<view, op>>   \* cancelled, timed out, rejected, closed
  /\ UNCHANGED <<closed, natVars, capVars, shut>>

-----------------------------------------------------------------------------
(* Capture.                                                                *)

Captures == {o \in Ops : cap[o] # "none"}

\* capture_png
CaptureStart(o) ==
  /\ At(o, "capture", "start")
  /\ IF Cancelled(o) \/ job[o].v \notin table \/ closed \/ ~loop
        \/ Cardinality(Captures) >= MaxCaptures
     THEN Only(o, "fail") /\ UNCHANGED cap
     ELSE Only(o, "capturing") /\ cap' = [cap EXCEPT ![o] = "queued"]
  /\ UNCHANGED <<hubVars, natVars, entry, ui, loop, shut>>

\* The wait ends with any terminal or its timeout; then the request is dropped.
CaptureEnds(o) ==
  /\ At(o, "capture", "capturing")
  /\ Install(Terminate(h, o, "Ended")) /\ Only(o, "done")
  /\ ui' = IF loop THEN [ui EXCEPT !.drops = @ \cup {o}] ELSE ui
  /\ UNCHANGED <<closed, natVars, cap, entry, loop, shut>>

\* The UI closure: it enters the capture, then starts it unless the view is gone.
UiCapture(o) ==
  /\ loop /\ cap[o] = "queued"
  /\ \/ /\ win[job[o].v] \in {"open", "closing"}
        /\ cap' = [cap EXCEPT ![o] = "running"] /\ entry' = [entry EXCEPT ![o] = "bare"]
        /\ ui' = [ui EXCEPT !.returning = @ \cup {o}]
        /\ UNCHANGED <<view, op>>
     \/ /\ Install(Terminate(h, o, "Ended"))
        /\ cap' = [cap EXCEPT ![o] = "none"] /\ UNCHANGED <<entry, ui>>
  /\ UNCHANGED <<closed, jobVars, natVars, loop, shut>>

\* Still in that closure; the native callback may have run inside capture().
CaptureReturns(o) ==
  /\ loop /\ o \in ui.returning
  /\ ui' = [ui EXCEPT !.returning = @ \ {o}]
  /\ entry' = [entry EXCEPT ![o] = IF @ = "none" THEN @ ELSE "armed"]
  /\ UNCHANGED <<hubVars, jobVars, natVars, cap, loop, shut>>

DropEntry(o) ==
  /\ loop /\ o \in ui.drops /\ cap[o] # "queued" /\ o \notin ui.returning
  /\ ui' = [ui EXCEPT !.drops = @ \ {o}] /\ entry' = [entry EXCEPT ![o] = "none"]
  /\ UNCHANGED <<hubVars, jobVars, natVars, cap, loop, shut>>

\* validate_capture_operation
Capturable(o) == ~closed /\ Pending(h, o) /\ view[job[o].v] = "live"

\* NativeBlobEncoder::for_operation reserves a blob and binds it to the operation.
EncoderBinds(o) ==
  /\ cap[o] = "running" /\ Capturable(o)
  /\ cap' = [cap EXCEPT ![o] = "encoding"] /\ op' = [op EXCEPT ![o].blob = TRUE]
  /\ UNCHANGED <<closed, view, jobVars, natVars, entry, ui, loop, shut>>

\* The callback: it frees the lease and the entry, whatever the result.
CaptureCallback(o) ==
  /\ cap[o] \in {"running", "encoding"}
  /\ \/ cap[o] = "encoding" /\ Capturable(o) /\ Install(Terminate(h, o, "Completed"))
     \/ Install(Terminate(h, o, "Ended"))
  /\ cap' = [cap EXCEPT ![o] = "none"] /\ entry' = [entry EXCEPT ![o] = "none"]
  /\ UNCHANGED <<closed, jobVars, natVars, ui, loop, shut>>

-----------------------------------------------------------------------------
(* Close.                                                                  *)

CloseMarks(o) ==
  /\ At(o, "close", "start")
  /\ IF Cancelled(o) THEN Only(o, "fail")
     ELSE /\ Goes(o, "marked") /\ explicit' = explicit \cup {job[o].v}
          /\ UNCHANGED <<watch, listed, closing, failed>>
  /\ UNCHANGED <<hubVars, natVars, capVars, shut>>

CloseGivesUp(o) ==
  /\ Goes(o, "fail") /\ explicit' = explicit \ {job[o].v}
  /\ UNCHANGED <<watch, listed, closing, failed>>

CloseTakes(o) ==
  /\ At(o, "close", "marked")
  /\ LET v == job[o].v IN
     /\ table' = table \ {v}
     /\ IF v \in table /\ loop
        THEN Only(o, "closing") /\ nat' = [nat EXCEPT ![v] = "job"] /\ CloseWindow(v)
        ELSE /\ CloseGivesUp(o) /\ UNCHANGED win
             /\ nat' = IF v \in table THEN [nat EXCEPT ![v] = "dropped"] ELSE nat
  /\ UNCHANGED <<hubVars, build, term, loadTaken, capVars, shut>>

\* The close waiter resolves when the window is destroyed.
CloseWaits(o) ==
  /\ At(o, "close", "closing")
  /\ nat' = [nat EXCEPT ![job[o].v] = "dropped"]
  /\ \/ /\ win[job[o].v] = "destroyed"
        /\ Install(Terminate(h, o, "Completed")) /\ Only(o, "closed")
     \/ CloseGivesUp(o) /\ UNCHANGED <<view, op>>   \* cancelled or timed out
  /\ UNCHANGED <<closed, table, win, build, term, loadTaken, capVars, shut>>

CloseRevokes(o) ==
  /\ At(o, "close", "closed")
  /\ Install(Revoke(h, job[o].v)) /\ Only(o, "clear")
  /\ UNCHANGED <<closed, natVars, capVars, shut>>

CloseClears(o) ==
  /\ At(o, "close", "clear")
  /\ Goes(o, "done") /\ Leaves(o, "done") /\ explicit' = explicit \ {job[o].v}
  /\ UNCHANGED <<hubVars, watch, closing, failed, natVars, capVars, shut>>

-----------------------------------------------------------------------------
(* The window toolkit.                                                     *)

EntriesOf(S) == [o \in Ops |-> IF entry[o] # "none" /\ job[o].v \in S THEN "none" ELSE entry[o]]

\* The Destroyed event, after a close request or the user's own gesture
Destroyed(v) ==
  /\ loop /\ win[v] \in {"open", "closing"}
  /\ win' = [win EXCEPT ![v] = "destroyed"] /\ term' = term \cup {v}
  /\ entry' = EntriesOf({v})
  /\ UNCHANGED <<hubVars, jobVars, table, nat, build, loadTaken, cap, ui, loop, shut>>

\* The navigation and popup handlers report a rejected page; the window stays.
RejectNavigation(v) ==
  /\ loop /\ win[v] = "open" /\ build[v] = "done" /\ v \notin term
  /\ term' = term \cup {v}
  /\ UNCHANGED <<hubVars, jobVars, table, nat, win, build, loadTaken, capVars, shut>>

\* The loop ends with its windows, queued closures and native callbacks.
LoopStops ==
  /\ loop /\ loop' = FALSE
  /\ win' = [v \in Views |-> IF win[v] = "none" THEN "none" ELSE "destroyed"]
  /\ term' = {v \in Views : win[v] # "none"}
  /\ build' = [v \in Views |-> IF build[v] = "ui" THEN "failed" ELSE build[v]]
  /\ cap' = [o \in Ops |-> "none"] /\ entry' = [o \in Ops |-> "none"]
  /\ ui' = [returning |-> {}, drops |-> {}]
  /\ op' = [o \in Ops |-> [op[o] EXCEPT !.blob = FALSE]]
  /\ UNCHANGED <<closed, view, jobVars, table, nat, loadTaken, shut>>

-----------------------------------------------------------------------------
(* shutdown, after the hub was closed                                      *)

ShutBegins ==
  /\ shut.at = "no" /\ closed
  /\ closing' = TRUE /\ shut' = [shut EXCEPT !.at = "take"]
  /\ UNCHANGED <<hubVars, job, watch, listed, failed, explicit, natVars, capVars>>

ShutTakesJobs ==
  /\ shut.at = "take"
  /\ shut' = [shut EXCEPT !.at = "jobs", !.jobs = listed] /\ listed' = {}
  /\ UNCHANGED <<hubVars, job, watch, closing, failed, explicit, natVars, capVars>>

ShutTakesViews ==
  /\ shut.at = "jobs" /\ \A x \in shut.jobs : JobOver(x)
  /\ shut' = [shut EXCEPT !.at = "views", !.views = table]
  /\ table' = {} /\ nat' = [v \in Views |-> IF v \in table THEN "dropped" ELSE nat[v]]
  /\ UNCHANGED <<hubVars, jobVars, win, build, term, loadTaken, capVars>>

\* `view.close()?` leaves at the first failure; what remains is closed by its drop.
ShutCloses(v) ==
  /\ shut.at = "views" /\ v \in shut.views
  /\ IF loop
     THEN /\ CloseWindow(v)
          /\ shut' = [shut EXCEPT !.views = @ \ {v}, !.waits = @ \cup {v}]
     ELSE shut' = [shut EXCEPT !.at = "err"] /\ UNCHANGED win
  /\ UNCHANGED <<hubVars, jobVars, table, nat, build, term, loadTaken, capVars>>

ShutEnds ==
  /\ shut.at = "views" /\ shut.views = {}
  /\ \/ /\ \A v \in shut.waits : win[v] = "destroyed"
        /\ Captures = {} /\ Opens = {}
        /\ shut' = [shut EXCEPT !.at = IF failed THEN "err" ELSE "ok"]
     \/ shut' = [shut EXCEPT !.at = "err"]   \* timed out
  /\ UNCHANGED <<hubVars, jobVars, natVars, capVars>>

-----------------------------------------------------------------------------
GuestStep ==
  \/ CloseHub
  \/ \E o \in Ops : Poll(o) \/ CancelOperation(o)
  \/ \E o \in Ops, kind \in Kinds, v \in Views : Submit(o, kind, v)

JobStep(o) ==
  \/ Fail(o) \/ RevokeView(o) \/ TakeView(o) \/ Panic(o)
  \/ OpenStart(o) \/ OpenCancelled(o) \/ OpenFails(o) \/ OpenInserts(o)
  \/ OpenWatches(o) \/ OpenPublishes(o)
  \/ LoadStart(o) \/ LoadFinishes(o) \/ CaptureStart(o) \/ CaptureEnds(o)
  \/ CloseMarks(o) \/ CloseTakes(o) \/ CloseWaits(o) \/ CloseRevokes(o) \/ CloseClears(o)

UiStep ==
  \/ LoopStops
  \/ \E v \in Views : CreateWindow(v) \/ BuildWebview(v) \/ Destroyed(v) \/ RejectNavigation(v)
  \/ \E o \in Ops : \/ UiCapture(o) \/ CaptureReturns(o) \/ DropEntry(o)
                    \/ EncoderBinds(o) \/ CaptureCallback(o)

Next ==
  \/ GuestStep \/ UiStep
  \/ \E o \in Ops : JobStep(o)
  \/ \E v \in Views : WatchStops(v) \/ WatchFires(v) \/ WatchRevokes(v) \/ WatchTakes(v)
  \/ ShutBegins \/ ShutTakesJobs \/ ShutTakesViews \/ ShutEnds
  \/ \E v \in Views : ShutCloses(v)

Spec == Init /\ [][Next]_vars

-----------------------------------------------------------------------------
(***************************************************************************)
(* A shutdown that reports success has left nothing behind: every job and  *)
(* watcher is over, no native open or capture still holds its lease, the   *)
(* table is empty and every window is closed or told to close.             *)
(***************************************************************************)
NoWindowOutlivesShutdown ==
  shut.at = "ok" =>
    /\ \A o \in Ops : job[o].at \in {"none", "done"}
    /\ \A v \in Views : watch[v] \in {"none", "done"}
    /\ table = {} /\ Opens = {} /\ Captures = {}
    /\ \A v \in Views : win[v] # "open"

(***************************************************************************)
(* The physical table agrees with the hub.  A published view has a native  *)
(* backing, unless a close job holds it or a shutdown took it; and while   *)
(* the hub is open a backing whose view is gone has a job or a watcher     *)
(* that is still to take it.                                               *)
(***************************************************************************)
BackingsMatchViews ==
  \A v \in Views :
    /\ view[v] = "live" => \/ v \in table
                           \/ \E o \in Ops : job[o].kind = "close" /\ job[o].v = v
                                 /\ job[o].at \in {"closing", "closed", "fail", "revoke", "clear"}
    /\ (v \in table /\ view[v] = "gone" /\ ~closed) =>
          \/ watch[v] = "take"
          \/ \E o \in Ops : job[o].v = v /\ job[o].at \in {"inserted", "watched", "fail", "revoke", "take", "marked"}

(***************************************************************************)
(* A close that completed was answered by the window's destruction, and    *)
(* the view it named is on its way out.                                    *)
(***************************************************************************)
CompletedCloseDestroyed ==
  \A o \in Ops : job[o].kind = "close" /\ op[o].terminal = "Completed" =>
     /\ win[job[o].v] = "destroyed"
     /\ job[o].at \in {"closed", "revoke"} \/ view[job[o].v] = "gone"

(***************************************************************************)
(* Nothing of a capture outlives it: an entry of the UI thread's table     *)
(* belongs to a capture whose callback is still to come or is about to be  *)
(* dropped, and a blob that is not published belongs to a live encoder.    *)
(***************************************************************************)
CaptureLeavesNothing ==
  \A o \in Ops :
    /\ entry[o] # "none" => cap[o] # "none" \/ o \in ui.drops
    /\ op[o].blob => cap[o] = "encoding"
=============================================================================
