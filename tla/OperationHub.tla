---------------------------- MODULE OperationHub ----------------------------
(***************************************************************************)
(* Life of operations and resources in one logical root of the sketch      *)
(* runtime (src/src/wasm/operations.rs): the generated imports a guest     *)
(* Store makes (submit, poll, yield, cancel), the detached completion task *)
(* each dispatch launches, and the teardown of the root.                   *)
(*                                                                         *)
(* One action is one critical section of the hub mutex.  An import that    *)
(* takes the mutex several times is several actions, linked by pc; tasks   *)
(* and teardown interleave between them.  An import that fails without     *)
(* having changed anything is not a step.  Blob bytes are not moved here   *)
(* (see BlobTransfer), so the trailing drive_blob_writes has nothing to    *)
(* drive.                                                                  *)
(***************************************************************************)
EXTENDS HubState, TLC

CONSTANT CloseReasons  \* the terminals a teardown may deliver

ASSUME CloseReasonsAreTerminals == CloseReasons \subseteq Terminals

VARIABLES hub,    \* the table the mutex guards
          pc,     \* what the import in flight in each Store does next
          tasks,  \* the detached completion tasks, by operation token
          wakes   \* operations whose notify_one is due: mutex already released

vars == <<hub, pc, tasks, wakes>>

At(where, r, o) == [at |-> where, res |-> r, op |-> o]

Idle == At("idle", None, None)

Task == [stage: {"run", "finish"}, revoke: Option(Token)]

TypeOK ==
  /\ HubType(hub)
  /\ pc \in [Stores -> [at: {"idle", "created", "undo", "attaching", "closing",
                             "finishing", "parked", "trapped"},
                        res: Option(Token), op: Option(Token)]]
  /\ IsMap(tasks) /\ DOMAIN tasks \subseteq Token
  /\ \A o \in DOMAIN tasks : tasks[o] \in Task
  /\ wakes \subseteq Token

Init ==
  /\ hub = InitialHub
  /\ pc = [s \in Stores |-> Idle]
  /\ tasks = [o \in {} |-> o]
  /\ wakes = {}

Goto(s, where) == pc' = [pc EXCEPT ![s] = where]

Launch(o, revoke) == tasks' = With(tasks, o, [stage |-> "run", revoke |-> revoke])

\* A critical section that leaves the table as g and notifies afterwards.
Commit(g) == hub' = g /\ wakes' = wakes \cup Woken(hub, g)

\* Consuming an operation drops the hub's handle on its Notify: a notification
\* still due has nobody left to wake.
Consume(o, g) == hub' = RemoveOp(g, o) /\ wakes' = wakes \ {o}

-----------------------------------------------------------------------------
(* dispatch: SyntheticCreate takes the mutex three times.                  *)

BeginCreate(s, shareable) ==
  /\ pc[s] = Idle
  /\ CanCreate(hub, "synthetic")
  /\ hub' = Create(hub, s, "synthetic", {"use"}, shareable)
  /\ Goto(s, At("created", hub.last + 1, None))
  /\ UNCHANGED <<tasks, wakes>>

\* Mutant: a failed submit leaves the reservation behind.
SubmitCreateNoUndo(s) ==
  /\ pc[s].at = "created"
  /\ IF CanSubmit(hub, s, None, "synthetic", {})
     THEN hub' = Submit(hub, s, None) /\ Goto(s, At("attaching", pc[s].res, hub.last + 1))
     ELSE hub' = hub /\ Goto(s, Idle)
  /\ UNCHANGED <<tasks, wakes>>

SubmitCreate(s) ==
  /\ pc[s].at = "created"
  /\ IF CanSubmit(hub, s, None, "synthetic", {})
     THEN hub' = Submit(hub, s, None) /\ Goto(s, At("attaching", pc[s].res, hub.last + 1))
     ELSE hub' = hub /\ Goto(s, At("undo", pc[s].res, None))
  /\ UNCHANGED <<tasks, wakes>>

UndoCreate(s) ==
  /\ pc[s].at = "undo"
  /\ Commit(CloseResource(hub, pc[s].res, "Closed"))
  /\ Goto(s, Idle)
  /\ UNCHANGED tasks

\* attach_created_resource: teardown may have ended the operation already.
AttachCreated(s) ==
  LET r == pc[s].res
      o == pc[s].op
  IN /\ pc[s].at = "attaching"
     /\ IF o \in Pending(hub)
        THEN /\ hub' = [hub EXCEPT !.ops[o].created = r]
             /\ Launch(o, None)
             /\ UNCHANGED wakes
        ELSE /\ Consume(o, Reclaim(hub, {r} \cap Live(hub)))
             /\ UNCHANGED tasks
     /\ Goto(s, Idle)

(* dispatch: SyntheticYield (r = None) and SyntheticUse.                   *)
SubmitUse(s, r) ==
  /\ pc[s] = Idle
  /\ CanSubmit(hub, s, r, "synthetic", {"use"})
  /\ hub' = Submit(hub, s, r)
  /\ Launch(hub.last + 1, None)
  /\ UNCHANGED <<pc, wakes>>

(* dispatch: Close validates, then submits an operation that borrows       *)
(* nothing.                                                                *)
ValidateClose(s, r) ==
  /\ pc[s] = Idle
  /\ r \in Live(hub)
  /\ hub.res[r].owner = s \/ hub.res[r].shareable
  /\ Goto(s, At("closing", r, None))
  /\ UNCHANGED <<hub, tasks, wakes>>


SubmitClose(s) ==
  /\ pc[s].at = "closing"
  /\ IF CanSubmit(hub, s, None, "synthetic", {})
     THEN hub' = Submit(hub, s, None) /\ Launch(hub.last + 1, pc[s].res)
     ELSE UNCHANGED <<hub, tasks>>
  /\ Goto(s, Idle)
  /\ UNCHANGED wakes

-----------------------------------------------------------------------------
(* poll_wire, suspend_wire and cancel_wire.                                *)

Owned(s, o) == o \in DOMAIN hub.ops /\ hub.ops[o].owner = s

Poll(s, o) ==
  /\ pc[s] = Idle
  /\ Owned(s, o)
  /\ hub.ops[o].terminal # None
  /\ Consume(o, hub)
  /\ UNCHANGED <<pc, tasks>>

\* Mutant: no ready waiter for a result that is already there.
SuspendNotReady(s, o) ==
  /\ pc[s] = Idle
  /\ Owned(s, o)
  /\ hub' = [hub EXCEPT !.ops[o].suspended = TRUE, !.ops[o].deferred = None]
  /\ Goto(s, IF hub.ops[o].deferred = None
             THEN At("parked", None, o)
             ELSE At("finishing", hub.ops[o].deferred.revoke, o))
  /\ UNCHANGED <<tasks, wakes>>

\* A completion that won the race with yield leaves a ready waiter; a stored
\* completion is taken and finished below; otherwise the guest parks.
Suspend(s, o) ==
  /\ pc[s] = Idle
  /\ Owned(s, o)
  /\ IF hub.ops[o].terminal # None
     THEN hub' = [hub EXCEPT !.ops[o].permit = TRUE] /\ Goto(s, At("parked", None, o))
     ELSE /\ hub' = [hub EXCEPT !.ops[o].suspended = TRUE, !.ops[o].deferred = None]
          /\ Goto(s, IF hub.ops[o].deferred = None
                     THEN At("parked", None, o)
                     ELSE At("finishing", hub.ops[o].deferred.revoke, o))
  /\ UNCHANGED <<tasks, wakes>>

Cancel(s, o) ==
  /\ pc[s] = Idle
  /\ Owned(s, o)
  /\ Commit(Terminate(hub, {o}, "Cancelled"))
  /\ UNCHANGED <<pc, tasks>>

(* finish_deferred_completion: the revocation and the terminal result are  *)
(* one critical section; `?` leaves both undone when the token is unknown. *)
Finish(h, o, revoke) ==
  IF o \in Pending(h) THEN Terminate(CloseResource(h, revoke, "Closed"), {o}, "Completed")
                      ELSE h

FinishFails(h, o, revoke) ==
  \/ o \notin DOMAIN h.ops
  \/ o \in Pending(h) /\ revoke # None /\ CloseFails(h, revoke)

FinishTaken(s) ==
  LET o == pc[s].op
  IN /\ pc[s].at = "finishing"
     /\ IF FinishFails(hub, o, pc[s].res)
        THEN Goto(s, At("trapped", None, None)) /\ UNCHANGED <<hub, wakes>>
        ELSE Goto(s, At("parked", None, o)) /\ Commit(Finish(hub, o, pc[s].res))
     /\ UNCHANGED tasks

Resume(s) ==
  /\ pc[s].at = "parked"
  /\ hub.ops[pc[s].op].permit
  /\ hub' = [hub EXCEPT !.ops[pc[s].op].permit = FALSE]
  /\ Goto(s, Idle)
  /\ UNCHANGED <<tasks, wakes>>

-----------------------------------------------------------------------------
(* The detached task: complete_after_suspend.                              *)

EndTask(o) == tasks' = Without(tasks, {o})

TaskArrives(o) ==
  /\ o \in DOMAIN tasks /\ tasks[o].stage = "run"
  /\ IF o \in Pending(hub) /\ hub.ops[o].suspended
     THEN tasks' = [tasks EXCEPT ![o].stage = "finish"] /\ UNCHANGED hub
     ELSE /\ hub' = IF o \in Pending(hub)
                    THEN [hub EXCEPT !.ops[o].deferred = [revoke |-> tasks[o].revoke]]
                    ELSE hub
          /\ EndTask(o)
  /\ UNCHANGED <<pc, wakes>>

TaskFinishes(o) ==
  /\ o \in DOMAIN tasks /\ tasks[o].stage = "finish"
  /\ IF FinishFails(hub, o, tasks[o].revoke)
     THEN UNCHANGED <<hub, wakes>>
     ELSE Commit(Finish(hub, o, tasks[o].revoke))
  /\ EndTask(o)
  /\ UNCHANGED pc

\* Notify::notify_one, after the mutex is released.
Notify(o) ==
  /\ o \in wakes
  /\ wakes' = wakes \ {o}
  /\ hub' = [hub EXCEPT !.ops[o].permit = TRUE]
  /\ UNCHANGED <<pc, tasks>>

\* close_all by the root's finalisation, try_close_all by the epoch ticker; on
\* a closed hub it changes nothing.
CloseAll(t) ==
  /\ ~hub.closed
  /\ Commit(CloseLocked(hub, t))
  /\ UNCHANGED <<pc, tasks>>

-----------------------------------------------------------------------------
Next ==
  \/ \E s \in Stores :
       \/ \E shareable \in BOOLEAN : BeginCreate(s, shareable)
       \/ SubmitCreate(s) \/ UndoCreate(s) \/ AttachCreated(s)
       \/ \E r \in Published(hub) \cup {None} : SubmitUse(s, r)
       \/ \E r \in Published(hub) : ValidateClose(s, r)
       \/ SubmitClose(s)
       \/ \E o \in DOMAIN hub.ops : Poll(s, o) \/ Suspend(s, o) \/ Cancel(s, o)
       \/ FinishTaken(s) \/ Resume(s)
  \/ \E o \in DOMAIN tasks : TaskArrives(o) \/ TaskFinishes(o)
  \/ \E o \in wakes : Notify(o)
  \/ \E t \in CloseReasons : CloseAll(t)

Spec == Init /\ [][Next]_vars

\* Stores differ in nothing but their identity.
Symmetry == Permutations(Stores)

-----------------------------------------------------------------------------
(***************************************************************************)
(* The slot allocator never hands one slot to two resources: the slots of  *)
(* live resources differ, the free list repeats nothing and holds no live  *)
(* slot, although creations, closes, cancelled creations and the undo of a *)
(* failed submit all push to it (create_resource_value_locked,             *)
(* terminal_locked, attach_created_resource).                              *)
(***************************************************************************)
SlotsNeverShared == DistinctSlots(hub)

(***************************************************************************)
(* An operation that is still pending borrows a live, published resource:  *)
(* whatever removes a resource also ends its borrowers.  suspend_stream    *)
(* and the drive loops rely on it when they look the resource up.          *)
(***************************************************************************)
BorrowedResourceIsLive ==
  \A o \in Pending(hub) : hub.ops[o].res # None =>
     hub.ops[o].res \in Live(hub) /\ ~hub.res[hub.ops[o].res].reserved

(***************************************************************************)
(* No reservation leaks: a resource that is reserved (invisible to the     *)
(* guest, yet charged to its quota) is held by the import that is creating *)
(* it or by exactly one pending operation that will publish or reclaim it. *)
(***************************************************************************)
ReservationsAreHeld ==
  \A r \in Live(hub) : hub.res[r].reserved =>
     \/ \E s \in Stores : pc[s].at \in {"created", "undo", "attaching"} /\ pc[s].res = r
     \/ Cardinality({o \in Pending(hub) : hub.ops[o].created = r}) = 1

(***************************************************************************)
(* Once close_locked has run, nothing is live and nothing is pending, and  *)
(* no import that was half way through a creation or a submit brings       *)
(* either back.                                                            *)
(***************************************************************************)
ClosedHubStaysDrained ==
  hub.closed => Live(hub) = {} /\ Pending(hub) = {}

(***************************************************************************)
(* No lost wake-up: a guest parked on an operation that already has its    *)
(* result has a stored permit or a notify_one on its way.                  *)
(***************************************************************************)
NoLostWakeup ==
  \A s \in Stores : pc[s].at = "parked" =>
     LET o == pc[s].op
     IN o \in DOMAIN hub.ops /\ (o \notin Pending(hub) => hub.ops[o].permit \/ o \in wakes)

(***************************************************************************)
(* The hub keeps what OperationPromise says a root promises its guests:    *)
(* the first of completion, cancellation, revocation and teardown decides  *)
(* an operation's result and nothing replaces it; a token is never issued  *)
(* twice; a resource is granted only by the completion of the operation    *)
(* that created it, and revoked only by the root's end or in the very step *)
(* that completes a Close (finish_deferred_completion), never in one that  *)
(* cancels it.                                                             *)
(***************************************************************************)
Promise == INSTANCE OperationPromise WITH
  Results  <- CloseReasons,
  Waiting  <- None,
  results  <- [o \in DOMAIN hub.ops |-> hub.ops[o].terminal],
  reserved <- Live(hub) \ Published(hub),
  granted  <- Published(hub),
  issued   <- hub.last,
  over     <- hub.closed

=============================================================================
