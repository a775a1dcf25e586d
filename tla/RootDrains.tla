----------------------------- MODULE RootDrains -----------------------------
(***************************************************************************)
(* How a threaded root ends (src/wasm/mod.rs, src/wasm/operations.rs): the *)
(* timers its guests started, the drain that waits for them, and the one   *)
(* result made of everything that was drained.                             *)
(*                                                                         *)
(*   "clock"   the Stores of one root submit, poll and cancel sleeps while *)
(*             the root returns, revokes the hub, joins its children and   *)
(*             waits for the timers;                                       *)
(*   "value"   submit_wire's reading of the two scalar arguments, and the  *)
(*             precedence of the outcomes, as functions.                   *)
(***************************************************************************)
EXTENDS Naturals, Sequences, FiniteSets

CONSTANTS
    Stores,         \* the root's Store and its children's
    Clocks,         \* bound: sleeps submitted
    MaxOperations,  \* maximum_operations of the hub
    U8, U32         \* the largest u8 and u32, scaled

VARIABLES facet, sub, op, timer, hub, join, arg

vars == <<facet, sub, op, timer, hub, join, arg>>

NoSub == [at |-> "idle", clock |-> 0]
FreshHub == [count |-> 0, permit |-> FALSE, closed |-> FALSE, children |-> "run"]

-----------------------------------------------------------------------------
(* submit_clock_sleep: the count, the operation, the producer's token, the *)
(* timer task.  A failure on the way gives the lease back.                 *)

Running(s) == facet = "clock" /\ hub.children = "run"
Fresh(c) == op[c] = "none" /\ timer[c].at = "none" /\ \A s \in Stores : sub[s].clock # c
Next1(c) == \A b \in Clocks : b < c => ~Fresh(b)

Count(s, c) ==
    /\ Running(s) /\ sub[s].at = "idle" /\ Fresh(c) /\ Next1(c)
    /\ hub.count < MaxOperations
    /\ hub' = [hub EXCEPT !.count = @ + 1]
    /\ sub' = [sub EXCEPT ![s] = [at |-> "counted", clock |-> c]]
    /\ UNCHANGED <<facet, op, timer, join, arg>>
(* The hub holds at most MaxOperations unconsumed operations. *)
Unconsumed == {c \in Clocks : op[c] \in {"pending", "ended"}}
SubmitOperation(s) ==
    LET c == sub[s].clock
    IN  /\ facet = "clock" /\ sub[s].at = "counted"
        /\ IF hub.closed \/ Cardinality(Unconsumed) >= MaxOperations
           THEN sub' = [sub EXCEPT ![s].at = "dropping"] /\ UNCHANGED op
           ELSE sub' = [sub EXCEPT ![s].at = "bind"] /\ op' = [op EXCEPT ![c] = "pending"]
        /\ UNCHANGED <<facet, timer, hub, join, arg>>
(* The producer's token; an operation that ended meanwhile cancels it. *)
bind_producer_cancellation(s) ==
    LET c == sub[s].clock
    IN  /\ facet = "clock" /\ sub[s].at = "bind"
        /\ timer' = [timer EXCEPT ![c].bound = op[c] = "pending", ![c].cancelled = op[c] # "pending"]
        /\ sub' = [sub EXCEPT ![s].at = "launch"]
        /\ UNCHANGED <<facet, op, hub, join, arg>>
Launch(s) ==
    /\ facet = "clock" /\ sub[s].at = "launch"
    /\ timer' = [timer EXCEPT ![sub[s].clock].at = "sleep"]
    /\ sub' = [sub EXCEPT ![s] = NoSub]
    /\ UNCHANGED <<facet, op, hub, join, arg>>

(* The timer task: the sleep, or its cancellation, whichever comes first. *)
SleepElapses(c) ==
    /\ facet = "clock" /\ timer[c].at = "sleep" /\ ~timer[c].cancelled
    /\ op' = [op EXCEPT ![c] = IF @ = "pending" THEN "ended" ELSE @]
    /\ timer' = [timer EXCEPT ![c].at = "dropping"]
    /\ UNCHANGED <<facet, sub, hub, join, arg>>
SleepCancelled(c) ==
    /\ facet = "clock" /\ timer[c].at = "sleep" /\ timer[c].cancelled
    /\ timer' = [timer EXCEPT ![c].at = "dropping"]
    /\ UNCHANGED <<facet, sub, op, hub, join, arg>>

(* Drop of a ClockLease: the count, then the notification. *)
Notified(h, j) == IF j = "parked" THEN h ELSE [h EXCEPT !.permit = TRUE]
ReleaseCount ==
    /\ facet = "clock"
    /\ \/ \E c \in Clocks : /\ timer[c].at = "dropping"
                            /\ timer' = [timer EXCEPT ![c].at = "notify"] /\ UNCHANGED sub
       \/ \E s \in Stores : /\ sub[s].at = "dropping"
                            /\ sub' = [sub EXCEPT ![s].at = "notify"] /\ UNCHANGED timer
    /\ hub' = [hub EXCEPT !.count = @ - 1]
    /\ UNCHANGED <<facet, op, join, arg>>
ClockLease_drop ==
    /\ facet = "clock"
    /\ \/ \E c \in Clocks : timer[c].at = "notify" /\ timer' = [timer EXCEPT ![c].at = "gone"] /\ UNCHANGED sub
       \/ \E s \in Stores : sub[s].at = "notify" /\ sub' = [sub EXCEPT ![s] = NoSub] /\ UNCHANGED timer
    /\ hub' = Notified(hub, join) /\ join' = IF join = "parked" THEN "load" ELSE join
    /\ UNCHANGED <<facet, op, arg>>

-----------------------------------------------------------------------------
(* The guests, and the end of the root.                                    *)

TerminalFor(c) ==
    /\ op' = [op EXCEPT ![c] = "ended"]
    /\ timer' = [timer EXCEPT ![c].cancelled = @ \/ timer[c].bound]
GuestCancels(c) ==
    /\ facet = "clock" /\ hub.children = "run" /\ op[c] = "pending" /\ timer[c].at # "none"
    /\ TerminalFor(c)
    /\ UNCHANGED <<facet, sub, hub, join, arg>>
GuestPolls(c) ==
    /\ facet = "clock" /\ hub.children = "run" /\ op[c] = "ended" /\ timer[c].at # "none"
    /\ op' = [op EXCEPT ![c] = "taken"]
    /\ UNCHANGED <<facet, sub, timer, hub, join, arg>>
close_all ==
    /\ facet = "clock" /\ ~hub.closed
    /\ hub' = [hub EXCEPT !.closed = TRUE]
    /\ op' = [c \in Clocks |-> IF op[c] = "pending" THEN "ended" ELSE op[c]]
    /\ timer' = [c \in Clocks |-> [timer[c] EXCEPT !.cancelled = @ \/ (op[c] = "pending" /\ timer[c].bound)]]
    /\ UNCHANGED <<facet, sub, join, arg>>
(* Every child has returned; one in an import has finished it. *)
JoinChildren ==
    /\ facet = "clock" /\ hub.closed /\ hub.children = "run" /\ \A s \in Stores : sub[s].at = "idle"
    /\ hub' = [hub EXCEPT !.children = "joined"] /\ join' = "load"
    /\ UNCHANGED <<facet, sub, op, timer, arg>>
join_clock_jobs ==
    /\ facet = "clock"
    /\ \/ join = "load" /\ join' = (IF hub.count = 0 THEN "done" ELSE "wait") /\ UNCHANGED hub
       \/ join = "wait" /\ join' = (IF hub.permit THEN "load" ELSE "parked") /\ hub' = [hub EXCEPT !.permit = FALSE]
    /\ UNCHANGED <<facet, sub, op, timer, arg>>

-----------------------------------------------------------------------------
(* submit_wire: what a kind makes of its two u64 arguments, or its error.  *)

Invalid == [what |-> "Invalid"]
WrongRights == [what |-> "WrongRights"]
RightsOf(a) == [rights |-> a, fits |-> a <= U8]          \* u8::try_from
submit_wire(kind, arg0, arg1) ==
    CASE kind = "sleep" -> IF arg1 # 0 \/ arg0 > U32 THEN Invalid ELSE [what |-> "sleep", ms |-> arg0]
      [] kind = "commit" -> [what |-> "commit", blob |-> arg0, output |-> arg1]
      [] kind = "seal" -> IF arg1 # 0 THEN Invalid ELSE [what |-> "seal", blob |-> arg0]
      [] kind = "read" -> [what |-> "read", blob |-> arg0, bytes |-> arg1]
      [] kind = "create" /\ arg0 = 0 /\ arg1 = 0 -> [what |-> "create"]
      [] kind = "yield" -> [what |-> "yield"]
      [] kind = "resource" -> IF ~RightsOf(arg1).fits THEN WrongRights
                              ELSE IF arg0 \notin {0, 1} THEN Invalid
                              ELSE [what |-> "resource", rights |-> RightsOf(arg1).rights, shareable |-> arg0 = 1]
      [] kind = "use" -> IF ~RightsOf(arg1).fits THEN WrongRights ELSE [what |-> "use", token |-> arg0, rights |-> RightsOf(arg1).rights]
      [] kind = "close" -> [what |-> "close", token |-> arg0]
      [] OTHER -> Invalid
WireKinds == {"sleep", "commit", "seal", "read", "create", "yield", "resource", "use", "close", "other"}

(* Two different calls of one kind that mean something are two different   *)
(* requests, but for the argument a kind ignores.                          *)
Ignored(kind) == CASE kind = "close" -> {1} [] kind = "yield" -> {0, 1} [] OTHER -> {}
WireIsFaithful(a) ==
    \A b \in {a.pair, <<a.pair[1], 0>>, <<a.pair[1] % (U8 + 1), a.pair[2] % (U8 + 1)>>, <<a.pair[1] % (U32 + 1), a.pair[2]>>} :
        LET x == submit_wire(a.kind, a.pair[1], a.pair[2])
            y == submit_wire(a.kind, b[1], b[2])
        IN  x = y /\ x.what \notin {"Invalid", "WrongRights"} =>
                /\ 0 \notin Ignored(a.kind) => a.pair[1] = b[1]
                /\ 1 \notin Ignored(a.kind) => a.pair[2] = b[2]

-----------------------------------------------------------------------------
(* Outcomes.  `call` is how the guest ended, a winner what the epoch       *)
(* decided by the time it is read: it is read twice and never taken back.  *)

Winners == {"pending", "cancelled", "deadline"}
epoch_error(w) == IF w = "pending" THEN "none" ELSE w
map_root_error(call, w) ==
    CASE call = "fuel" -> "OutOfFuel"
      [] epoch_error(w) # "none" -> epoch_error(w)
      [] call = "exit0" -> "Exited"
      [] call = "exit1" -> "NonzeroExit"
      [] OTHER -> "Trapped"
map_child_error(call, w) ==
    CASE call = "ok" -> "Completed"
      [] call = "fuel" -> "OutOfFuel"
      [] w # "pending" -> w
      [] call = "exit0" -> "Exited"
      [] call = "exit1" -> "NonzeroExit"
      [] OTHER -> "Trapped"
ChildrenFailed(kids) == \E i \in DOMAIN kids : kids[i] \notin {"Completed", "Exited"}
RootOutcome(call, w1, w2) ==
    LET first == IF call = "ok" THEN "Started" ELSE map_root_error(call, w1)
    IN  IF first = "OutOfFuel" \/ epoch_error(w2) = "none" THEN first ELSE epoch_error(w2)
Succeeded(outcome) == outcome \in {"Started", "Exited"}
resolve_threaded_result(root, children, report, rejected) ==
    IF ~Succeeded(root) THEN root ELSE IF children # "ok" THEN children ELSE IF report # "ok" THEN report ELSE <<root, rejected>>
(* The end of execute_threaded_root_async, after every drain. *)
FinalResult(a) ==
    LET root == RootOutcome(a.call, a.w1, a.w2)
        kids == IF ChildrenFailed([i \in DOMAIN a.kids |-> map_child_error(a.kids[i], a.w2)]) THEN "ChildOutcomes" ELSE "ok"
        report == IF a.validation /\ Succeeded(root) /\ kids = "ok" /\ ~a.report THEN "ValidationReportInvalid" ELSE "ok"
        result == resolve_threaded_result(root, kids, report, a.rejected)
    IN  CASE result \notin {"Started", "Exited"} \X BOOLEAN -> result
          [] a.drains[1] = "failed" -> "OutputCleanupFailed"
          [] a.drains[2] = "failed" -> "BlockingTaskFailed"
          [] a.drains[3] = "failed" -> "WebviewCleanupFailed"
          [] OTHER -> result
Calls == {"ok", "fuel", "exit0", "exit1", "trap"}
(* What went wrong, in the order a reader of the result should learn it. *)
Failures(a) ==
    (IF a.call = "fuel" THEN <<"OutOfFuel">> ELSE <<>>) \o (IF a.w2 # "pending" THEN <<a.w2>> ELSE <<>>)
    \o (IF a.call = "exit1" THEN <<"NonzeroExit">> ELSE <<>>) \o (IF a.call = "trap" THEN <<"Trapped">> ELSE <<>>)
    \o (IF \E i \in DOMAIN a.kids : a.kids[i] \notin {"ok", "exit0"} THEN <<"ChildOutcomes">> ELSE <<>>)
    \o (IF a.validation /\ ~a.report THEN <<"ValidationReportInvalid">> ELSE <<>>)
    \o (IF a.drains[1] = "failed" THEN <<"OutputCleanupFailed">> ELSE <<>>) \o (IF a.drains[2] = "failed" THEN <<"BlockingTaskFailed">> ELSE <<>>)
    \o (IF a.drains[3] = "failed" THEN <<"WebviewCleanupFailed">> ELSE <<>>)
ResultIsFirstFailure(a) ==
    LET f == Failures(a)
    IN  FinalResult(a) = IF f = <<>> THEN <<IF a.call = "ok" THEN "Started" ELSE "Exited", a.rejected>> ELSE Head(f)

-----------------------------------------------------------------------------
NoArg == [kind |-> "none"]
Args ==
    [kind : WireKinds, pair : (0 .. U32 + 2) \X (0 .. U32 + 2)]
    \cup {[kind |-> "result", call |-> c, w1 |-> w[1], w2 |-> w[2], kids |-> k, validation |-> v[1], report |-> v[2], rejected |-> v[3], drains |-> d] :
             c \in Calls, w \in {x \in Winners \X Winners : x[1] \in {"pending", x[2]}},
             k \in {<<>>, <<"ok">>, <<"exit0", "ok">>, <<"ok", "trap">>, <<"exit1", "fuel">>}, v \in BOOLEAN \X BOOLEAN \X BOOLEAN,
             d \in [1 .. 3 -> {"ok", "failed"}]}

NoTimer == [at |-> "none", bound |-> FALSE, cancelled |-> FALSE]
Init ==
    /\ sub = [s \in Stores |-> NoSub] /\ op = [c \in Clocks |-> "none"] /\ timer = [c \in Clocks |-> NoTimer]
    /\ hub = FreshHub /\ join = "idle"
    /\ \/ facet = "clock" /\ arg = NoArg
       \/ facet = "value" /\ arg \in Args

Next ==
    \/ \E s \in Stores : SubmitOperation(s) \/ bind_producer_cancellation(s) \/ Launch(s) \/ (\E c \in Clocks : Count(s, c))
    \/ \E c \in Clocks : SleepElapses(c) \/ SleepCancelled(c) \/ GuestCancels(c) \/ GuestPolls(c)
    \/ ReleaseCount \/ ClockLease_drop \/ close_all \/ JoinChildren \/ join_clock_jobs

Spec == Init /\ [][Next]_vars

-----------------------------------------------------------------------------
(* Properties.                                                             *)

Leases == {<<"timer", c>> : c \in {x \in Clocks : timer[x].at \in {"sleep", "dropping"}}}
          \cup {<<"sub", s>> : s \in {x \in Stores : sub[x].at \in {"counted", "bind", "launch", "dropping"}}}

(* The drain ends and means it.  The physical timers, not the operations   *)
(* a guest can cancel and consume, are counted and bounded; the root's     *)
(* drain returns only when none is left; once it waits, a lease is still   *)
(* out, or a notification is on its way; and no timer it waits for sleeps  *)
(* on without having been told to stop, wherever the revocation fell       *)
(* between the steps of a submission (submit_clock_sleep, ClockLease::drop, *)
(* bind_producer_cancellation, join_clock_jobs).                           *)
TimersAreDrained ==
    facet = "clock" =>
        /\ hub.count = Cardinality(Leases) /\ hub.count <= MaxOperations
        /\ join = "done" => Leases = {}
        /\ join = "parked" => Leases # {} \/ \E c \in Clocks : timer[c].at = "notify"
        /\ hub.closed => \A c \in Clocks : timer[c].at = "sleep" => timer[c].cancelled

(* The result tells the first failure in the order of the code's comments: *)
(* the root, its children, the report, the drains; it succeeds only when   *)
(* nothing failed, and then it says whether spawns were refused.  Of a     *)
(* call's arguments none is cut to size: a request is admitted only if it  *)
(* says what the guest passed (resolve_threaded_result, submit_wire).      *)
ResultsAndArgumentsHold ==
    facet = "value" =>
        IF arg.kind = "result" THEN ResultIsFirstFailure(arg) ELSE WireIsFaithful(arg)
=============================================================================
