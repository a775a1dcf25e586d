--------------------------- MODULE WebviewHandles ---------------------------
(***************************************************************************)
(* The native facade over external webviews (tauri.rs, and window          *)
(* operations in tauri/window_control.rs): one host, one view from open to *)
(* close, the calls that borrow its handle, the watcher task, the native   *)
(* creation worker and the event-loop thread.  An action is one stretch    *)
(* between two awaits or two critical sections; every future can be        *)
(* dropped where it awaits.  Facet "handle" is that state machine, facet   *)
(* "value" holds the pure functions: URLs, origins, options, errors.       *)
(***************************************************************************)
EXTENDS Integers, Sequences, FiniteSets

CONSTANTS Callers,    \* tasks that borrow the handle
          MaxOps,     \* maximum_operations of the host's hub, 64 in the code
          MaxCalls,   \* calls on the handle, in all
          MaxPages,   \* navigations
          MaxEnds     \* events from outside that end something: a user's close, a
                      \* refused navigation, the loop's end, a cancel, a dropped call

VARIABLES facet, w, value

vars == <<facet, w, value>>

OpIds == 1 .. MaxOps
Gens == 1 .. (MaxPages + 1)
FreeOp == [t |-> "free", on |-> "none"]
NoCall == [at |-> "idle", kind |-> "none", op |-> 0, gen |-> 0, t |-> "none", fail |-> "none", reply |-> "none", spent |-> FALSE]
NoResult == [kind |-> "none", result |-> "none", spent |-> FALSE]
NoClose == [at |-> "idle", op |-> 0, result |-> "none"]

\* OperationHub of the host, NativeWebview and its completions, the event loop,
\* WebviewHandle, WebviewService.closing.  `why` is the terminal under which the
\* resource was revoked, `late` that the view had ended before close marked it; the
\* first n operations of the hub belong to other views of the host.
FreshHandle(n) ==
  [res |-> "none", grant |-> "none", ops |-> [o \in OpIds |-> IF o <= n THEN [t |-> "pending", on |-> "other"] ELSE FreeOp], why |-> "none",
   nat |-> "none", requested |-> FALSE, waiter |-> 1, sender |-> 1, page |-> 1,
   rx |-> [g \in Gens |-> "pending"], term |-> "pending", latch |-> "pending",
   loop |-> TRUE, win |-> "none", view |-> FALSE, loading |-> 0, queue |-> <<>>,
   open |-> "idle", openOp |-> 0, made |-> "none",
   handle |-> "none", termOp |-> 0, active |-> FALSE, marked |-> FALSE,
   watch |-> [at |-> "none", t |-> "none"], close |-> NoClose, late |-> FALSE,
   call |-> [c \in Callers |-> NoCall], calls |-> 0, gen |-> 1, last |-> NoResult, ends |-> 0]

Strike(s) == [s EXCEPT !.ends = @ + 1]
Do(s) == w' = s /\ UNCHANGED <<facet, value>>
On == facet = "handle"

(***************************************************************************)
(* The operation hub, on the one view.                                     *)
(***************************************************************************)
Held(s) == {o \in OpIds : s.ops[o].t # "free"}
HasRoom(s) == Cardinality(Held(s)) < MaxOps
NextOp(s) == CHOOSE o \in OpIds : s.ops[o].t = "free"
\* submit_locked: what it answers, in the order of its checks.
SubmitError(s) == CASE ~HasRoom(s) -> "HostFailure" [] s.res # "live" -> "WindowClosed" [] OTHER -> "none"
Submit(s) == [s EXCEPT !.ops[NextOp(s)] = [t |-> "pending", on |-> "view"]]
finish_external_operation(s, o, t) ==
    IF o = 0 \/ s.ops[o].t # "pending" THEN s
    ELSE [s EXCEPT !.ops[o].t = t,
                   !.res = IF s.ops[o].on # "grant" THEN @ ELSE IF t = "Completed" THEN "live" ELSE "none"]
observe_terminal(s, o) == IF o = 0 THEN s ELSE IF s.ops[o].t = "pending" THEN s ELSE [s EXCEPT !.ops[o] = FreeOp]
close_resource(s, t) ==
    IF s.res \notin {"reserved", "live"} THEN s
    ELSE [s EXCEPT !.res = "closed", !.why = t,
                   !.ops = [o \in OpIds |-> IF @[o].on = "view" /\ @[o].t = "pending" THEN [@[o] EXCEPT !.t = t] ELSE @[o]]]

(***************************************************************************)
(* NativeWebview and its one-shot completions.                             *)
(***************************************************************************)
LoadCompletion_finish(s, r) == IF s.sender = 0 THEN s ELSE [s EXCEPT !.rx[s.sender] = r, !.sender = 0]
TerminalCompletion_finish(s, r) == IF s.term = "pending" THEN [s EXCEPT !.term = r] ELSE s
CloseCompletion_finish(s) == IF s.latch = "pending" THEN [s EXCEPT !.latch = "sent"] ELSE s
\* The superseded sender is dropped with the old target.
LoadCompletion_rearm(s, p) ==
    [s EXCEPT !.gen = @ + 1, !.sender = s.gen + 1, !.waiter = s.gen + 1, !.page = p,
              !.rx = IF s.sender = 0 THEN @ ELSE [@ EXCEPT ![s.sender] = "dropped"]]
CloseWindow(s) == [s EXCEPT !.win = IF @ = "open" THEN "closing" ELSE @]
NativeWebview_close(s) ==
    IF s.requested THEN s
    ELSE IF ~s.loop THEN LoadCompletion_finish(s, "Trapped")
    ELSE LoadCompletion_finish([CloseWindow(s) EXCEPT !.requested = TRUE, !.queue = Append(@, <<"unload", 0, 0>>)], "Closed")
\* take_native and the drop of what it took.
take_and_close(s) == IF s.nat # "table" THEN s ELSE [NativeWebview_close(s) EXCEPT !.nat = "dropped"]
\* revoke_with_terminal: its two critical sections as one step; what runs between
\* them finds a resource that refuses it and a backing that is about to close.
revoke_with_terminal(s, t) == take_and_close(close_resource(s, t))

(***************************************************************************)
(* open_granted_with_request.                                              *)
(***************************************************************************)
\* PendingWebviewOpen::drop, then PendingUrlGrant::drop.
PendingWebviewOpen_drop(s) ==
    [revoke_with_terminal(observe_terminal(finish_external_operation(s, s.openOp, "Cancelled"), s.openOp), "Cancelled")
        EXCEPT !.grant = "closed"]
begin_granted_webview_open ==
    /\ On /\ w.open = "idle" /\ HasRoom(w)
    /\ LET o == NextOp(w) IN
       Do([w EXCEPT !.grant = "live", !.res = "reserved", !.ops[o] = [t |-> "pending", on |-> "grant"],
                    !.openOp = o, !.open = "creating", !.made = "todo"])
OpenRefused ==
    /\ On /\ w.open = "idle" /\ ~HasRoom(w)
    /\ Do([w EXCEPT !.grant = "closed", !.open = "failed"])
\* create_on_wry_thread up to the closure it sends to the event loop.
CreateWindow ==
    /\ On /\ w.made = "todo"
    /\ \/ w.loop /\ Do([w EXCEPT !.win = "open", !.queue = Append(@, <<"build", 0, 0>>), !.made = "queued"])
       \/ Do([w EXCEPT !.made = "failed"])
\* The rest of it, on the event-loop thread: build, exclusion from the taskbar, the
\* answer.  An answer nobody waits for leaves no view and no window.
drop_unheard(s) == [CloseWindow(s) EXCEPT !.made = "closed"]
BuildIsolated(s, built, excluded) ==
    CASE s.open # "creating" /\ built -> drop_unheard(s)
      [] ~built \/ ~excluded -> [CloseWindow(s) EXCEPT !.made = "failed"]
      [] OTHER -> [s EXCEPT !.view = TRUE, !.loading = 1, !.made = "ok", !.nat = "sent"]
UiBuild ==
    /\ On /\ w.queue # <<>> /\ Head(w.queue)[1] = "build"
    /\ \E built, excluded \in BOOLEAN :
         (built => w.win # "gone") /\ Do(BuildIsolated([w EXCEPT !.queue = Tail(@)], built, excluded))
\* The future is dropped at its one await; a NativeWebview in the channel drops too.
OpenDropped ==
    /\ On /\ w.open = "creating"
    /\ LET s == IF w.nat = "sent" THEN [NativeWebview_close(w) EXCEPT !.nat = "dropped"] ELSE w IN
       Do([PendingWebviewOpen_drop(s) EXCEPT !.open = "dropped"])
OpenFails ==
    /\ On /\ w.open = "creating" /\ w.made \in {"failed", "dropped"}
    /\ Do([PendingWebviewOpen_drop(revoke_with_terminal(finish_external_operation(w, w.openOp, "Trapped"), "Closed")) EXCEPT !.open = "failed"])
\* Insert the backing, finish_external_open, launch the watcher.
OpenInserts ==
    /\ On /\ w.open = "creating" /\ w.made = "ok"
    /\ Do([finish_external_operation(w, w.openOp, "Completed") EXCEPT !.nat = "table", !.watch.at = "waiting", !.open = "inserted"])
\* Consume the open's result and begin the handle's terminal operation.
OpenReturns ==
    /\ On /\ w.open = "inserted"
    /\ LET s == observe_terminal(w, w.openOp) IN
       IF SubmitError(s) = "none"
       THEN Do([Submit(s) EXCEPT !.termOp = NextOp(s), !.grant = "closed", !.handle = "held", !.open = "done"])
       ELSE Do([PendingWebviewOpen_drop([s EXCEPT !.openOp = 0]) EXCEPT !.open = "failed"])

(***************************************************************************)
(* The event loop and the page (external), and the handlers they call.     *)
(***************************************************************************)
UiUnloads ==
    /\ On /\ w.queue # <<>> /\ Head(w.queue)[1] = "unload"
    /\ Do([w EXCEPT !.queue = Tail(@), !.view = FALSE, !.loading = 0])
\* The closure of native_operation: a presentation change may fail on the host,
\* a navigation needs the view.
UiOperates ==
    /\ On /\ w.queue # <<>> /\ Head(w.queue)[1] \in {"window", "navigate"}
    /\ LET kind == Head(w.queue)[1]
           c == Head(w.queue)[2]
           s == [w EXCEPT !.queue = Tail(@)] IN
       \E ok \in BOOLEAN :
          /\ ok => IF kind = "window" THEN TRUE ELSE w.view
          /\ LET r == [s EXCEPT !.loading = IF ok /\ kind = "navigate" THEN Head(w.queue)[3] ELSE @] IN
             Do(IF c = 0 THEN r ELSE [r EXCEPT !.call[c].reply = IF ok THEN "ok" ELSE "error"])
UserCloses == On /\ w.ends < MaxEnds /\ w.win = "open" /\ Do(CloseWindow(Strike(w)))
\* on_window_event, WindowEvent::Destroyed.
WindowDestroyed ==
    /\ On /\ w.win = "closing" /\ w.loop
    /\ Do(CloseCompletion_finish(TerminalCompletion_finish(LoadCompletion_finish(
          [w EXCEPT !.win = "gone", !.view = FALSE, !.loading = 0], "Closed"), "Closed")))
\* with_on_page_load_handler: only the requested page finishes the load.
PageFinishes ==
    /\ On /\ w.view /\ w.loading # 0
    /\ Do(IF w.loading = w.page THEN LoadCompletion_finish(w, "ok") ELSE w)
\* with_navigation_handler and with_new_window_req_handler refuse.
NavigationRejected ==
    /\ On /\ w.ends < MaxEnds /\ w.view /\ w.term = "pending"
    /\ Do(TerminalCompletion_finish(LoadCompletion_finish(Strike(w), "Rejected"), "Rejected"))
\* The loop returns: what it had not run is dropped, and the handlers with it.
LoopStops ==
    /\ On /\ w.ends < MaxEnds /\ w.loop /\ w.made # "todo"
    /\ Do([Strike(w) EXCEPT !.loop = FALSE, !.queue = <<>>, !.view = FALSE, !.loading = 0,
                    !.win = IF @ = "none" THEN @ ELSE "gone",
                    !.made = IF @ = "queued" THEN "dropped" ELSE @,
                    !.term = IF @ = "pending" THEN "dropped" ELSE @,
                    !.latch = IF @ = "pending" THEN "dropped" ELSE @,
                    !.call = [c \in Callers |-> IF @[c].reply = "awaited" THEN [@[c] EXCEPT !.reply = "dropped"] ELSE @[c]]])

(***************************************************************************)
(* The watcher task of the view.                                           *)
(***************************************************************************)
AsTerminal(r) == IF r = "dropped" THEN "Closed" ELSE r
WatcherWakes ==
    /\ On /\ w.watch.at = "waiting" /\ w.term # "pending"
    /\ Do([w EXCEPT !.watch = [at |-> "woken", t |-> AsTerminal(w.term)]])
\* is_explicitly_closing: an explicit close owns its result.
WatcherChecks ==
    /\ On /\ w.watch.at = "woken"
    /\ Do([w EXCEPT !.watch.at = IF w.marked THEN "ended" ELSE "revoking"])
WatcherRevokes ==
    /\ On /\ w.watch.at = "revoking"
    /\ Do([revoke_with_terminal(w, w.watch.t) EXCEPT !.watch.at = "ended"])

(***************************************************************************)
(* Calls that borrow the handle.                                           *)
(***************************************************************************)
\* Callers are alike: the first idle one makes the next call.
Start(c) == On /\ w.handle = "held" /\ w.call[c].at = "idle" /\ (\A b \in 1 .. (c - 1) : w.call[b].at # "idle") /\ w.calls < MaxCalls
At(c, kind, at) == On /\ w.call[c].kind = kind /\ w.call[c].at = at
Called(s, c, kind) == [s EXCEPT !.call[c] = [NoCall EXCEPT !.kind = kind], !.calls = @ + 1]
Done(s, c, r) == [s EXCEPT !.call[c] = NoCall, !.last = [kind |-> s.call[c].kind, result |-> r, spent |-> s.call[c].spent]]
map_terminal(t) ==
    CASE t = "Cancelled" -> "Cancelled" [] t = "TimedOut" -> "TimedOut" [] t = "Closed" -> "WindowClosed"
      [] t = "Rejected" -> "RejectedNavigation" [] OTHER -> "HostFailure"
\* What a call returns for the terminal it took from the hub, when its own was t.
Outcome(s, o, t, fail) ==
    LET got == s.ops[o].t IN
    CASE got = "Completed" -> "Ok" [] got # t \/ fail = "none" -> map_terminal(got) [] OTHER -> fail

\* wait_until_loaded: begin, take the waiter, await it under the timeout.
LoadBegins(c) ==
    /\ Start(c)
    /\ LET s == Called(w, c, "load") IN
       IF SubmitError(w) # "none" THEN Do(Done(s, c, SubmitError(w)))
       ELSE Do([Submit(s) EXCEPT !.call[c].op = NextOp(w), !.call[c].at = "taking"])
\* Both errors leave the operation as it is.
LoadTakes(c) ==
    /\ At(c, "load", "taking")
    /\ Do(CASE w.nat # "table" -> Done(w, c, "WindowClosed")
            [] w.waiter = 0 -> Done(w, c, "HostFailure")
            [] OTHER -> [w EXCEPT !.waiter = 0, !.call[c].gen = w.waiter, !.call[c].at = "waiting"])
LoadWakes(c, t) ==
    /\ At(c, "load", "waiting")
    /\ IF t = "TimedOut" THEN TRUE ELSE w.rx[w.call[c].gen] # "pending" /\ t = (IF w.rx[w.call[c].gen] = "ok" THEN "Completed" ELSE AsTerminal(w.rx[w.call[c].gen]))
    /\ Do([finish_external_operation(w, w.call[c].op, t) EXCEPT !.call[c].t = t, !.call[c].gen = 0, !.call[c].at = "revoking"])
LoadRevokes(c) ==
    /\ At(c, "load", "revoking")
    /\ Do([IF w.call[c].t = "Completed" THEN w ELSE revoke_with_terminal(w, w.call[c].t) EXCEPT !.call[c].at = "observing"])
LoadReturns(c) ==
    /\ At(c, "load", "observing")
    /\ LET o == w.call[c].op IN Do(Done(observe_terminal(w, o), c, Outcome(w, o, w.call[c].t, "none")))

\* wait_terminal: admission, poll, suspend, wake, observe.
TermAdmits(c) ==
    /\ Start(c)
    /\ LET s == Called(w, c, "term") IN
       Do(IF w.active THEN Done(s, c, "TerminalWaitInProgress")
          ELSE [s EXCEPT !.active = TRUE, !.call[c].spent = (w.termOp = 0), !.call[c].at = "polling"])
TermLeaves(s, c, r) == [Done(s, c, r) EXCEPT !.active = FALSE]
\* observe_terminal of an operation already consumed is HubError::Invalid.
TermObserves(c) ==
    CASE w.termOp = 0 -> TermLeaves(w, c, "HostFailure")
      [] w.termOp # 0 /\ w.ops[w.termOp].t # "pending" ->
            TermLeaves([observe_terminal(w, w.termOp) EXCEPT !.termOp = 0], c, map_terminal(w.ops[w.termOp].t))
      [] OTHER -> [w EXCEPT !.call[c].at = "waiting"]
TermPolls(c) == At(c, "term", "polling") /\ Do(TermObserves(c))
\* The suspension's notification outlives the race with the poll above; a wake
\* without a terminal (HostFailure in the code) does not happen.
TermWakes(c) ==
    /\ At(c, "term", "waiting") /\ (w.termOp # 0 => w.ops[w.termOp].t # "pending")
    /\ Do([w EXCEPT !.call[c].at = "observing"])
\* wait_until_terminal; wait_for_terminal has no timer.
TermTimesOut(c) ==
    /\ At(c, "term", "waiting")
    /\ Do([revoke_with_terminal(w, "TimedOut") EXCEPT !.call[c].at = "observing"])
TermReturns(c) == At(c, "term", "observing") /\ Do(TermObserves(c))

\* navigate: rearm the load waiter, then the operation below.
NavigateRearms(c, p) ==
    /\ Start(c) /\ w.gen <= MaxPages
    /\ LET s == Called(w, c, "navigate") IN
       Do(IF w.nat # "table" THEN Done(s, c, "WindowClosed")
          ELSE [LoadCompletion_rearm(s, p) EXCEPT !.call[c].gen = p, !.call[c].at = "beginning"])
\* navigation_grant_target: a page off the bootstrap origin, before any effect.
NavigateRefused(c) ==
    /\ Start(c) /\ w.nat = "table"
    /\ Do(Done(Called(w, c, "navigate"), c, "RejectedNavigation"))
WindowBegins(c) == Start(c) /\ Do([Called(w, c, "window") EXCEPT !.call[c].at = "beginning"])
\* show first asks the backing whether the window skips the taskbar.
ShowBegins(c) ==
    /\ Start(c)
    /\ LET s == Called(w, c, "window") IN
       Do(IF w.nat # "table" THEN Done(s, c, "WindowClosed") ELSE [s EXCEPT !.call[c].at = "beginning"])
\* native_operation: begin, find the window, dispatch, await the answer.
OperationBegins(c) ==
    /\ On /\ w.call[c].at = "beginning"
    /\ Do(IF SubmitError(w) # "none" THEN Done(w, c, SubmitError(w))
          ELSE [Submit(w) EXCEPT !.call[c].op = NextOp(w), !.call[c].at = "dispatching"])
OperationDispatches(c) ==
    /\ On /\ w.call[c].at = "dispatching"
    /\ LET k == w.call[c] IN
       Do(CASE w.nat # "table" -> [w EXCEPT !.call[c].t = "Closed", !.call[c].fail = "WindowClosed", !.call[c].at = "finishing"]
            [] ~w.loop -> [w EXCEPT !.call[c].t = "Trapped", !.call[c].fail = "HostFailure", !.call[c].at = "finishing"]
            [] OTHER -> [w EXCEPT !.queue = Append(@, <<k.kind, c, k.gen>>), !.call[c].reply = "awaited", !.call[c].at = "answering"])
OperationAnswered(c) ==
    /\ On /\ w.call[c].at = "answering" /\ w.call[c].reply # "awaited"
    /\ LET r == w.call[c].reply IN
       Do([w EXCEPT !.call[c].t = CASE r = "ok" -> "Completed" [] r = "error" -> "Trapped" [] OTHER -> "Closed",
                    !.call[c].fail = IF r = "error" THEN "HostFailure" ELSE "none", !.call[c].at = "finishing"])
OperationReturns(c) ==
    /\ On /\ w.call[c].at = "finishing"
    /\ LET k == w.call[c]
           s == finish_external_operation(w, k.op, k.t) IN
       Do(Done(observe_terminal(s, k.op), c, Outcome(s, k.op, k.t, k.fail)))

\* A borrowed future is dropped where it awaits; its hub operation stays.
Disown(q, c) == [i \in 1 .. Len(q) |-> IF q[i][2] = c THEN <<q[i][1], 0, q[i][3]>> ELSE q[i]]
CallDropped(s, c) == [s EXCEPT !.call[c] = NoCall, !.queue = Disown(@, c), !.active = IF s.call[c].kind = "term" THEN FALSE ELSE @]
DropCall(c) == On /\ w.ends < MaxEnds /\ w.call[c].at \in {"waiting", "answering"} /\ Do(CallDropped(Strike(w), c))

(***************************************************************************)
(* cancel, close and the handle's own drop.                                *)
(***************************************************************************)
Unborrowed == \A c \in Callers : w.call[c].at = "idle"
Cancel == On /\ w.ends < MaxEnds /\ w.handle = "held" /\ w.res = "live" /\ Do(revoke_with_terminal(Strike(w), "Cancelled"))
WebviewHandle_drop(s) == [revoke_with_terminal(s, "Cancelled") EXCEPT !.handle = "gone"]
DropHandle == On /\ w.handle = "held" /\ Unborrowed /\ Do(WebviewHandle_drop(w))
CloseDone(s, r) == [WebviewHandle_drop([s EXCEPT !.marked = FALSE]) EXCEPT !.close = [at |-> "done", op |-> 0, result |-> r]]
CloseBegins ==
    /\ On /\ w.handle = "held" /\ Unborrowed
    /\ Do(IF SubmitError(w) # "none"
          THEN CloseDone(w, IF w.res # "live" THEN "HostFailure" ELSE SubmitError(w))
          ELSE [Submit(w) EXCEPT !.handle = "closing", !.close = [at |-> "marking", op |-> NextOp(w), result |-> "none"],
                                 !.late = (w.watch.at # "waiting" \/ ~w.loop)])
CloseMarks == On /\ w.close.at = "marking" /\ Do([w EXCEPT !.marked = TRUE, !.close.at = "taking", !.late = (@ \/ w.watch.at # "waiting")])
CloseTakes ==
    /\ On /\ w.close.at = "taking"
    /\ Do(IF w.nat # "table" THEN CloseDone(w, "WindowClosed")
          ELSE LET s == NativeWebview_close([w EXCEPT !.nat = "held"]) IN
               IF w.loop \/ w.requested THEN [s EXCEPT !.close.at = "waiting"]
               ELSE CloseDone([finish_external_operation(s, w.close.op, "Trapped") EXCEPT !.nat = "dropped"], "HostFailure"))
CloseEnds ==
    /\ On /\ w.close.at = "waiting" /\ w.latch # "pending"
    /\ LET o == w.close.op
           t == IF w.latch = "sent" THEN "Completed" ELSE "Closed"
           s == finish_external_operation(w, o, t) IN
       Do([CloseDone(close_resource(observe_terminal(s, o), "Closed"), Outcome(s, o, t, "none")) EXCEPT !.nat = "dropped"])
\* The future is dropped: the backing it took and the handle it owns drop with it.
CloseDropped ==
    /\ On /\ w.close.at = "waiting"
    /\ Do([WebviewHandle_drop(NativeWebview_close(w)) EXCEPT !.nat = "dropped", !.close.at = "dropped"])

(***************************************************************************)
(* Pure functions.                                                         *)
(***************************************************************************)
MaxUrl == 2      \* MAX_WEBVIEW_URL_BYTES
MaxAppId == 4    \* MAX_APP_ID_BYTES
SizeBound == 1 .. 2
PositionBound == (-1) .. 1
\* A URL as spelled: `slashes` counts those after the colon (2 in a well-formed one,
\* which Url::parse repairs a third into); host 0 is none; `long` its spelled length,
\* `canonical` that of its serialization.
Urls == [scheme : {"http", "https", "file"}, slashes : {0, 2, 3}, host : {0, 1, 2}, port : {1, 2}, user : BOOLEAN, long : 2 .. 3, canonical : 2 .. 3]
is_allowed_url(u) == u.scheme \in {"http", "https"} /\ u.host # 0 /\ ~u.user
NativeWebviewRequest_parse(u) == u.slashes = 2 /\ is_allowed_url(u)
WebviewUrlGrant_new(u) == u.long <= MaxUrl /\ NativeWebviewRequest_parse(u) /\ u.canonical <= MaxUrl
Origin(u) == <<u.scheme, u.host, u.port>>
navigation_allowed(u, origin) == is_allowed_url(u) /\ (IF origin = <<>> THEN TRUE ELSE origin = Origin(u))
navigation_grant_target(u, origin) == IF navigation_allowed(u, origin) THEN "Ok" ELSE "RejectedNavigation"
\* for_origin: where the wrapped script runs, and the scale it is told.
for_origin(target, frame) == frame.top /\ Origin(frame.url) = Origin(target)
scale_told(native) == IF native.finite /\ native.v > 0 THEN native.v ELSE 1

validate_size(x, y) == x \in SizeBound /\ y \in SizeBound
validate_position(x, y) == x \in PositionBound /\ y \in PositionBound
RECURSIVE Split(_)
Split(a) ==
    IF \A i \in 1 .. Len(a) : a[i] # "." THEN <<a>>
    ELSE LET i == CHOOSE j \in 1 .. Len(a) : a[j] = "." /\ \A k \in 1 .. (j - 1) : a[k] # "."
         IN <<SubSeq(a, 1, i - 1)>> \o Split(SubSeq(a, i + 1, Len(a)))
ElementValid(e) == Len(e) > 0 /\ e[1] # "1" /\ \A i \in 1 .. Len(e) : e[i] \in {"a", "1"}
validate_app_id(a) ==
    /\ Len(a) \in 1 .. MaxAppId /\ \E i \in 1 .. Len(a) : a[i] = "."
    /\ LET e == Split(a) IN \A i \in 1 .. Len(e) : ElementValid(e[i])
AppIds == UNION {[1 .. n -> {"a", "1", ".", "!"}] : n \in 0 .. (MaxAppId + 1)}

for_host(compositor) == IF compositor THEN "Unsupported" ELSE "Requested"
MaxTitle == 1    \* 1024 bytes in the code
WebviewWindowOptions_new(t, x, y) ==
    CASE t.len > MaxTitle \/ t.control -> "InvalidTitle" [] ~validate_size(x, y) -> "InvalidSize" [] OTHER -> "Ok"
initial_position(p) == IF validate_position(p[1], p[2]) THEN "Ok" ELSE "InvalidPosition"
\* native_window_builder and set_position: the position that reaches the window system.
native_window_builder(o, support) == IF support = "Requested" THEN o.position ELSE <<>>
set_position(p, support) == [answer |-> support, sent |-> IF support = "Requested" THEN p ELSE <<>>]

NativeErrors == {"InvalidUrl", "RejectedNavigation", "WindowClosed", "HostFailure"}
terminal_for_native(e) ==
    CASE e \in {"RejectedNavigation", "InvalidUrl"} -> "Rejected" [] e = "WindowClosed" -> "Closed" [] OTHER -> "Trapped"
map_native(e) == e

Values ==
    {[kind |-> "url", u |-> u] : u \in Urls}
    \cup {[kind |-> "navigate", u |-> u, v |-> v, top |-> b] : u \in {x \in Urls : x.long = 2 /\ x.canonical = 2 /\ x.port = 1 /\ x.slashes = 2}, v \in {x \in Urls : x.long = 2 /\ x.canonical = 2 /\ x.slashes = 2}, b \in BOOLEAN}
    \cup {[kind |-> "scale", n |-> n] : n \in [finite : BOOLEAN, v : (-1) .. 2]}
    \cup {[kind |-> "appid", a |-> a] : a \in AppIds}
    \cup {[kind |-> "options", t |-> t, x |-> x, y |-> y, p |-> p, wayland |-> b] : t \in [len : 0 .. 2, control : BOOLEAN], x \in 0 .. 3, y \in 0 .. 3, p \in {<<0, 1>>, <<-1, 2>>, <<>>}, b \in BOOLEAN}
    \cup {[kind |-> "error", e |-> e] : e \in NativeErrors}

Init ==
    /\ facet \in {"handle", "value"}
    /\ w \in {FreshHandle(n) : n \in IF facet = "handle" THEN {0, MaxOps - 1, MaxOps} ELSE {0}}
    /\ value \in IF facet = "value" THEN Values ELSE {[kind |-> "off"]}

OpenNext == begin_granted_webview_open \/ OpenRefused \/ CreateWindow \/ UiBuild \/ OpenDropped \/ OpenFails \/ OpenInserts \/ OpenReturns
LoopNext == UiUnloads \/ UiOperates \/ UserCloses \/ WindowDestroyed \/ PageFinishes \/ NavigationRejected \/ LoopStops
WatchNext == WatcherWakes \/ WatcherChecks \/ WatcherRevokes
CallNext ==
    \E c \in Callers :
        \/ LoadBegins(c) \/ LoadTakes(c) \/ (\E t \in {"Completed", "Closed", "Rejected", "Trapped", "TimedOut"} : LoadWakes(c, t)) \/ LoadRevokes(c) \/ LoadReturns(c)
        \/ TermAdmits(c) \/ TermPolls(c) \/ TermWakes(c) \/ TermTimesOut(c) \/ TermReturns(c)
        \/ NavigateRearms(c, w.gen + 1) \/ NavigateRefused(c) \/ WindowBegins(c) \/ ShowBegins(c)
        \/ OperationBegins(c) \/ OperationDispatches(c) \/ OperationAnswered(c) \/ OperationReturns(c) \/ DropCall(c)
CloseNext == Cancel \/ DropHandle \/ CloseBegins \/ CloseMarks \/ CloseTakes \/ CloseEnds \/ CloseDropped
Next == OpenNext \/ LoopNext \/ WatchNext \/ CallNext \/ CloseNext

Spec == Init /\ [][Next]_vars

(***************************************************************************)
(* Properties.                                                             *)
(***************************************************************************)
\* No native window outlives its owner: once the handle is gone, or the open failed
\* or was dropped, and the creation work has run, the window is closing or gone, the
\* backing was dropped, and no view is retained on the event-loop thread; an open that
\* failed or was dropped gives back its operation and its resource at once
\* (PendingWebviewOpen, create_on_wry_thread, WebviewHandle::drop and close).
WindowDiesWithItsHandle ==
    /\ On /\ w.open \in {"dropped", "failed"} =>
        /\ w.res \in {"none", "closed"} /\ w.grant = "closed"
        /\ \A o \in OpIds : w.ops[o].on \in {"none", "other"}
    /\ On /\ (w.handle = "gone" \/ w.open \in {"dropped", "failed"}) /\ w.made \notin {"todo", "queued"} =>
        /\ w.win # "open" /\ w.nat \in {"none", "dropped"}
        /\ w.queue = <<>> => ~w.view

\* A view that ends reaches everyone waiting on it, with its reason: a revoked view
\* has no backing in the table, every pending load wait has its answer and every
\* terminal wait its terminal; a terminal wait reports the reason of the revocation,
\* whatever raced it; a dropped wait gives its admission back; close succeeds only
\* when the window was destroyed and never reports its own close as a user's
\* (wait_until_loaded, wait_terminal, close, the watcher task).
EndsAreReported ==
    On =>
    /\ w.res = "closed" =>
        /\ w.nat # "table"
        /\ \A c \in Callers : w.call[c].at = "waiting" =>
              IF w.call[c].kind = "load" THEN w.rx[w.call[c].gen] # "pending"
              ELSE w.termOp # 0 => w.ops[w.termOp].t # "pending"
    /\ w.last.kind = "term" =>
        \/ w.last.result \in {"TerminalWaitInProgress", map_terminal(w.why)}
        \/ w.last.spent /\ w.last.result = "HostFailure"
    /\ w.active => \E c \in Callers : w.call[c].kind = "term"
    /\ w.close.result = "Ok" => w.win = "gone"
    /\ w.close.result = "WindowClosed" => w.late \/ ~w.loop

\* The facade's pure functions keep their promises: only host-bearing http(s) URLs
\* without credentials, spelled with an authority, within the bound, become grants;
\* a bootstrap script runs exactly on the pages its view may navigate to; an
\* application id is two or more well-formed elements; nothing invalid or left to the
\* compositor reaches the window system; an error keeps its kind through the hub.
WebviewValuesAgree ==
    CASE value.kind = "url" ->
            LET u == value.u IN
            WebviewUrlGrant_new(u) <=> /\ u.scheme # "file" /\ u.slashes = 2 /\ u.host # 0 /\ ~u.user
                                       /\ u.long <= MaxUrl /\ u.canonical <= MaxUrl
      [] value.kind = "navigate" ->
            is_allowed_url(value.u) /\ navigation_grant_target(value.v, Origin(value.u)) = "Ok" =>
                /\ is_allowed_url(value.v)
                /\ for_origin(value.u, [top |-> value.top, url |-> value.v]) = value.top
      [] value.kind = "scale" -> scale_told(value.n) > 0
      [] value.kind = "appid" ->
            LET a == value.a IN
            validate_app_id(a) <=>
                /\ Len(a) \in 3 .. MaxAppId
                /\ \A i \in 1 .. Len(a) : a[i] # "!"
                /\ \E i \in 1 .. Len(a) : a[i] = "."
                /\ \A i \in 1 .. Len(a) : (a[i] = "." => i < Len(a)) /\ (i = 1 \/ a[IF i = 1 THEN 1 ELSE i - 1] = "." => a[i] = "a")
      [] value.kind = "options" ->
            LET made == WebviewWindowOptions_new(value.t, value.x, value.y)
                placed == value.p = <<>> \/ initial_position(value.p) = "Ok"
                sent == native_window_builder([position |-> value.p], for_host(value.wayland)) IN
            /\ made = "Ok" => value.x \in 1 .. 2 /\ value.y \in 1 .. 2 /\ ~value.t.control
            /\ placed => sent = (IF value.wayland THEN <<>> ELSE value.p)
            /\ set_position(value.p, for_host(value.wayland)).sent = sent
      [] value.kind = "error" ->
            value.e # "InvalidUrl" => map_terminal(terminal_for_native(value.e)) = map_native(value.e)
      [] OTHER -> TRUE

=============================================================================
