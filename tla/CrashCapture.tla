---------------------------- MODULE CrashCapture ----------------------------
(***************************************************************************)
(* Crash capture (crash/mod.rs).  Threads install and drop guards on one   *)
(* process-wide Runtime; its sampler thread and the dropped guards publish *)
(* a prepared record into the spare of two buffers; the fatal callback     *)
(* takes no lock, stamps the active buffer and writes it to the spool.     *)
(*                                                                         *)
(* A record is its metadata, its thread sample and its fault.  Copying one *)
(* is not atomic: the header (metadata and fault) is copied before the     *)
(* sample.  The death of the process is the end of a behaviour.            *)
(***************************************************************************)
EXTENDS Naturals, Sequences, FiniteSets

CONSTANTS Threads,      \* the threads that install and drop guards
          Keepers,      \* those that keep their guard to the end
          Installed,    \* those that hold a guard at first, in the order they installed
          Crashers,     \* the threads that fault
          None,
          MaxRuntimes,  \* bound: Runtimes created
          MaxInstalls,  \* bound: registrations of one Runtime
          MaxSamples    \* bound: samples of one Runtime

ASSUME CrashConstants ==
  /\ Keepers \subseteq Threads
  /\ Installed \in Seq(Threads) /\ Len(Installed) <= MaxInstalls
  /\ \A i, j \in 1 .. Len(Installed) : Installed[i] = Installed[j] => i = j
  /\ None \notin Threads \cup Crashers /\ "sampler" \notin Threads
  /\ {MaxRuntimes, MaxInstalls, MaxSamples} \subseteq Nat

VARIABLES rt,          \* every Runtime created so far, with its Shared state
          weak,        \* the Runtime the global weak pointer names, 0 at first
          transition,  \* the holder of HANDLER_TRANSITION
          attached,    \* the Runtime whose callback the process runs on a fault
          sinks,       \* the Runtimes whose spool file exists
          me,          \* where each thread is
          crash        \* where each faulting thread is

vars == <<rt, weak, transition, attached, sinks, me, crash>>

Runtimes == 1 .. Len(rt)

\* A registration is named by its id, and so is the metadata it carries.
Ids == 1 .. MaxInstalls

Template == [meta: Ids, sample: 0 .. MaxSamples]

Record == [meta: Ids, sample: 0 .. MaxSamples, fault: Crashers \cup {None}]

Runtime ==
  [strong: SUBSET Threads, armed: BOOLEAN, regs: SUBSET Ids, nextId: Nat, gen: Nat,
   template: Template, buffers: [{0, 1} -> Record], active: {0, 1}, metaGen: Nat,
   publish: Threads \cup {"sampler", None}, reading: BOOLEAN, inHandler: BOOLEAN,
   stop: BOOLEAN, sampling: BOOLEAN, done: BOOLEAN, sink: BOOLEAN,
   sampler: {"unborn", "top", "ready", "capturing", "captured", "lock", "head",
             "tail", "exit", "remove", "gone"}]

NewRuntime(t) ==
  [strong |-> {t}, armed |-> TRUE, regs |-> {1}, nextId |-> 2, gen |-> 1,
   template |-> [meta |-> 1, sample |-> 0],
   buffers |-> [i \in {0, 1} |-> [meta |-> 1, sample |-> 0, fault |-> None]],
   active |-> 0, metaGen |-> 1, publish |-> None, reading |-> FALSE,
   inHandler |-> FALSE, stop |-> FALSE, sampling |-> FALSE, done |-> FALSE,
   sink |-> FALSE, sampler |-> "unborn"]

TypeOK ==
  /\ rt \in Seq(Runtime) /\ Len(rt) <= MaxRuntimes
  /\ weak \in 0 .. Len(rt) /\ attached \in 0 .. Len(rt)
  /\ transition \in Threads \cup {None}
  /\ sinks \subseteq Runtimes
  /\ me \in [Threads -> [at: {"idle", "resume", "create", "start", "register", "held",
                              "publish", "head", "tail", "release", "teardown",
                              "handoff", "join", "suspended"},
                         r: 0 .. Len(rt), id: Nat, gen: Nat, meta: Nat]]
  /\ crash \in [Crashers -> [at: {"idle", "index", "stamp", "write", "leave", "done"},
                             r: 0 .. Len(rt), index: {0, 1},
                             saw: Record \cup {None}, wrote: Record \cup {None}]]

Nowhere == [at |-> "idle", r |-> 0, id |-> 0, gen |-> 0, meta |-> 0]

Holding(i) == [Nowhere EXCEPT !.at = "held", !.r = 1, !.id = i]

\* Before any install, or after the installs of the threads in Installed.
Init ==
  /\ rt = IF Installed = <<>> THEN <<>>
          ELSE <<[NewRuntime(Installed[1]) EXCEPT
                    !.strong = {Installed[i] : i \in 1 .. Len(Installed)},
                    !.regs = 1 .. Len(Installed), !.nextId = Len(Installed) + 1,
                    !.sampler = "top"]>>
  /\ weak = Len(rt) /\ attached = Len(rt) /\ sinks = 1 .. Len(rt)
  /\ transition = None
  /\ me = [t \in Threads |->
             IF \E i \in 1 .. Len(Installed) : Installed[i] = t
             THEN Holding(CHOOSE i \in 1 .. Len(Installed) : Installed[i] = t)
             ELSE Nowhere]
  /\ crash = [c \in Crashers |-> [at |-> "idle", r |-> 0, index |-> 0,
                                  saw |-> None, wrote |-> None]]

-----------------------------------------------------------------------------
(* install: under HANDLER_TRANSITION, join the live Runtime or create one. *)

Upgrades == weak # 0 /\ rt[weak].strong # {}

At(t, at) == me' = [me EXCEPT ![t].at = at]

InstallBegin(t) ==
  /\ me[t].at = "idle" /\ transition = None
  /\ transition' = t
  /\ IF Upgrades
     THEN /\ rt[weak].nextId <= MaxInstalls
          /\ rt' = [rt EXCEPT ![weak].strong = @ \cup {t}]
          /\ me' = [me EXCEPT ![t] = [Nowhere EXCEPT !.at = "resume", !.r = weak]]
     ELSE /\ Len(rt) < MaxRuntimes
          /\ me' = [me EXCEPT ![t] = [Nowhere EXCEPT !.at = "create"]]
          /\ UNCHANGED rt
  /\ UNCHANGED <<weak, attached, sinks, crash>>

\* attach_handler: the process has one slot, and the system may refuse.
Attach(r) == attached = 0 /\ attached' = r /\ rt' = [rt EXCEPT ![r].armed = TRUE]

InstallResume(t) ==
  /\ me[t].at = "resume"
  /\ \/ attached = me[t].r /\ At(t, "register") /\ UNCHANGED <<rt, attached, transition>>
     \/ Attach(me[t].r) /\ At(t, "register") /\ UNCHANGED transition
     \/ /\ attached # me[t].r
        /\ At(t, "release") /\ transition' = None /\ UNCHANGED <<rt, attached>>
  /\ UNCHANGED <<weak, sinks, crash>>

\* add_registration
InstallRegister(t) ==
  /\ me[t].at = "register"
  /\ LET r == me[t].r IN
       /\ rt' = [rt EXCEPT ![r].regs = @ \cup {rt[r].nextId}, ![r].nextId = @ + 1]
       /\ me' = [me EXCEPT ![t].at = "held", ![t].id = rt[r].nextId]
  /\ transition' = None
  /\ UNCHANGED <<weak, attached, sinks, crash>>

\* Runtime::new up to the attachment; a failure leaves no spool file.
InstallCreate(t) ==
  /\ me[t].at = "create"
  /\ \/ /\ attached = 0
        /\ rt' = Append(rt, NewRuntime(t))
        /\ attached' = Len(rt) + 1 /\ sinks' = sinks \cup {Len(rt) + 1}
        /\ me' = [me EXCEPT ![t].at = "start", ![t].r = Len(rt) + 1, ![t].id = 1]
        /\ UNCHANGED transition
     \/ At(t, "idle") /\ transition' = None /\ UNCHANGED <<rt, attached, sinks>>
  /\ UNCHANGED <<weak, crash>>

\* The rest of Runtime::new: the sampler thread starts, or all is undone.
InstallStart(t) ==
  /\ me[t].at = "start"
  /\ LET r == me[t].r IN
       \/ /\ rt' = [rt EXCEPT ![r].sampler = "top"]
          /\ weak' = r /\ At(t, "held") /\ UNCHANGED <<attached, sinks>>
       \/ /\ rt' = [rt EXCEPT ![r].strong = {}, ![r].armed = FALSE, ![r].sampler = "gone"]
          /\ attached' = 0 /\ sinks' = sinks \ {r}
          /\ me' = [me EXCEPT ![t] = Nowhere] /\ UNCHANGED weak
  /\ transition' = None
  /\ UNCHANGED crash

-----------------------------------------------------------------------------
(* Dropping a guard: remove_registration, then its reference, which may be *)
(* the last one.                                                           *)

Oldest(ids) == CHOOSE i \in ids : \A j \in ids : i <= j

RemoveRegistration(t) ==
  /\ me[t].at = "held" /\ t \notin Keepers
  /\ LET r == me[t].r
         id == me[t].id
         left == rt[r].regs \ {id}
         selected == Oldest(rt[r].regs) = id IN
       /\ rt' = [rt EXCEPT ![r].regs = left, ![r].gen = IF selected THEN @ + 1 ELSE @]
       /\ me' = [me EXCEPT ![t] =
                   IF selected /\ left # {}
                   THEN [@ EXCEPT !.at = "publish", !.gen = rt[r].gen + 1, !.meta = Oldest(left)]
                   ELSE [@ EXCEPT !.at = "release"]]
  /\ UNCHANGED <<weak, transition, attached, sinks, crash>>

\* set_metadata takes `publish`; a selection older than the published one is dropped.
SetMetadata(t) ==
  /\ me[t].at = "publish" /\ rt[me[t].r].publish = None
  /\ IF me[t].gen <= rt[me[t].r].metaGen
     THEN At(t, "release") /\ UNCHANGED rt
     ELSE /\ rt' = [rt EXCEPT ![me[t].r].publish = t,
                              ![me[t].r].template.meta = me[t].meta]
          /\ At(t, "head")
  /\ UNCHANGED <<weak, transition, attached, sinks, crash>>

\* The copy of the template into the inactive buffer, the header first ...
CopyHead(x) ==
  [x EXCEPT !.buffers[1 - x.active].meta = x.template.meta,
            !.buffers[1 - x.active].fault = None]

\* ... then the rest; the buffer becomes the active one and `publish` is released.
CopyTail(x) ==
  [x EXCEPT !.buffers[1 - x.active].sample = x.template.sample,
            !.active = 1 - x.active, !.publish = None]

SetMetadataHead(t) ==
  /\ me[t].at = "head"
  /\ rt' = [rt EXCEPT ![me[t].r] = CopyHead(@)]
  /\ At(t, "tail")
  /\ UNCHANGED <<weak, transition, attached, sinks, crash>>

SetMetadataTail(t) ==
  /\ me[t].at = "tail"
  /\ rt' = [rt EXCEPT ![me[t].r] = [CopyTail(@) EXCEPT !.metaGen = me[t].gen]]
  /\ At(t, "release")
  /\ UNCHANGED <<weak, transition, attached, sinks, crash>>

\* The thread drops its reference to the Runtime, outside every lock.
Release(t) ==
  /\ me[t].at = "release"
  /\ rt' = [rt EXCEPT ![me[t].r].strong = @ \ {t}]
  /\ IF rt[me[t].r].strong = {t}
     THEN At(t, "teardown")
     ELSE me' = [me EXCEPT ![t] = Nowhere]
  /\ UNCHANGED <<weak, transition, attached, sinks, crash>>

-----------------------------------------------------------------------------
(* Runtime::drop, under HANDLER_TRANSITION.                                *)

Detached(r) == IF attached = r THEN 0 ELSE attached

\* Mutant: the sampler is joined without having been asked to stop.
TeardownWithoutStop(t) ==
  /\ me[t].at = "teardown" /\ transition = None
  /\ transition' = t
  /\ attached' = Detached(me[t].r)
  /\ rt' = [rt EXCEPT ![me[t].r].armed = FALSE]
  /\ At(t, "handoff")
  /\ UNCHANGED <<weak, sinks, crash>>

TeardownBegin(t) ==
  /\ me[t].at = "teardown" /\ transition = None
  /\ transition' = t
  /\ attached' = Detached(me[t].r)
  /\ rt' = [rt EXCEPT ![me[t].r].armed = FALSE, ![me[t].r].stop = TRUE]
  /\ At(t, "handoff")
  /\ UNCHANGED <<weak, sinks, crash>>

\* Mutant: the sink is handed over whatever the sampler is doing.
TeardownAlwaysHandsOver(t) ==
  /\ me[t].at = "handoff"
  /\ rt' = [rt EXCEPT ![me[t].r].sink = TRUE]
  /\ me' = [me EXCEPT ![t] = Nowhere] /\ transition' = None
  /\ UNCHANGED <<weak, attached, sinks, crash>>

TeardownHandoff(t) ==
  /\ me[t].at = "handoff"
  /\ IF ~rt[me[t].r].done /\ rt[me[t].r].sampling
     THEN /\ rt' = [rt EXCEPT ![me[t].r].sink = TRUE]
          /\ me' = [me EXCEPT ![t] = Nowhere] /\ transition' = None
     ELSE At(t, "join") /\ UNCHANGED <<rt, transition>>
  /\ UNCHANGED <<weak, attached, sinks, crash>>

TeardownJoin(t) ==
  /\ me[t].at = "join" /\ rt[me[t].r].sampler = "gone"
  /\ sinks' = sinks \ {me[t].r}
  /\ me' = [me EXCEPT ![t] = Nowhere] /\ transition' = None
  /\ UNCHANGED <<rt, weak, attached, crash>>

-----------------------------------------------------------------------------
(* with_handler_suspended.  Its callback runs with the slot empty.         *)

SuspendBegin(t) ==
  /\ me[t].at = "idle" /\ transition = None /\ Upgrades
  /\ \/ /\ attached \in {0, weak}
        /\ attached' = 0 /\ transition' = t
        /\ rt' = [rt EXCEPT ![weak].strong = @ \cup {t}, ![weak].armed = FALSE]
        /\ me' = [me EXCEPT ![t] = [Nowhere EXCEPT !.at = "suspended", !.r = weak]]
     \/ /\ attached # weak    \* resume_handler fails
        /\ rt' = [rt EXCEPT ![weak].strong = @ \cup {t}]
        /\ me' = [me EXCEPT ![t] = [Nowhere EXCEPT !.at = "release", !.r = weak]]
        /\ UNCHANGED <<attached, transition>>
  /\ UNCHANGED <<weak, sinks, crash>>

\* Mutant: a refused re-attachment still reports itself armed.
SuspendEndClaims(t) ==
  /\ me[t].at = "suspended"
  /\ \/ Attach(me[t].r)
     \/ rt' = [rt EXCEPT ![me[t].r].armed = TRUE] /\ UNCHANGED attached
  /\ At(t, "release") /\ transition' = None
  /\ UNCHANGED <<weak, sinks, crash>>

\* ResumeHandler::finish, or its drop: the callback is attached again, or refused.
SuspendEnd(t) ==
  /\ me[t].at = "suspended"
  /\ Attach(me[t].r) \/ UNCHANGED <<rt, attached>>
  /\ At(t, "release") /\ transition' = None
  /\ UNCHANGED <<weak, sinks, crash>>

-----------------------------------------------------------------------------
(* sampler_loop, the thread of Runtime r.                                  *)

Sampler(r, from, x) ==
  /\ rt[r].sampler = from
  /\ rt' = [rt EXCEPT ![r] = x]
  /\ UNCHANGED <<weak, transition, attached, sinks, me, crash>>

\* wait_for_stop returns, on the cadence or on the stop request, and `reading` is read.
SamplerWakes(r) ==
  Sampler(r, "top", [rt[r] EXCEPT !.sampler = IF rt[r].stop THEN "exit"
                                              ELSE IF rt[r].reading THEN "top" ELSE "ready"])

SamplerCaptures(r) ==
  Sampler(r, "ready", [rt[r] EXCEPT !.sampling = TRUE, !.sampler = "capturing"])

\* capture_sample, which may find nothing.
SamplerCaptured(r) ==
  \E next \in {"captured", "top"} :
    /\ next = "captured" => rt[r].template.sample < MaxSamples
    /\ Sampler(r, "capturing", [rt[r] EXCEPT !.sampling = FALSE, !.sampler = next])

SamplerRechecks(r) ==
  Sampler(r, "captured", [rt[r] EXCEPT !.sampler = IF rt[r].reading THEN "top" ELSE "lock"])

SamplerLocks(r) ==
  /\ rt[r].publish = None
  /\ Sampler(r, "lock", [rt[r] EXCEPT !.publish = "sampler", !.template.sample = @ + 1,
                                      !.sampler = "head"])

SamplerHead(r) == Sampler(r, "head", [CopyHead(rt[r]) EXCEPT !.sampler = "tail"])

SamplerTail(r) == Sampler(r, "tail", [CopyTail(rt[r]) EXCEPT !.sampler = "top"])

\* The hand-off is closed, and a sink handed over in time is removed.
SamplerExits(r) ==
  Sampler(r, "exit", [rt[r] EXCEPT !.done = TRUE,
                                   !.sampler = IF rt[r].sink THEN "remove" ELSE "gone"])

SamplerRemoves(r) ==
  /\ rt[r].sampler = "remove"
  /\ rt' = [rt EXCEPT ![r].sampler = "gone"]
  /\ sinks' = sinks \ {r}
  /\ UNCHANGED <<weak, transition, attached, me, crash>>

SamplerStep(r) ==
  \/ SamplerWakes(r) \/ SamplerCaptures(r) \/ SamplerCaptured(r) \/ SamplerRechecks(r)
  \/ SamplerLocks(r) \/ SamplerHead(r) \/ SamplerTail(r)
  \/ SamplerExits(r) \/ SamplerRemoves(r)

-----------------------------------------------------------------------------
(* handle_crash, on the thread that faults.                                *)

\* The process calls the attached callback; a nested or concurrent one returns at once.
CrashBegins(c) ==
  /\ crash[c].at = "idle" /\ attached # 0
  /\ IF rt[attached].inHandler
     THEN crash' = [crash EXCEPT ![c].at = "done"] /\ UNCHANGED rt
     ELSE /\ rt' = [rt EXCEPT ![attached].inHandler = TRUE, ![attached].reading = TRUE]
          /\ crash' = [crash EXCEPT ![c].at = "index", ![c].r = attached]
  /\ UNCHANGED <<weak, transition, attached, sinks, me>>

CrashIndexes(c) ==
  /\ crash[c].at = "index"
  /\ LET x == rt[crash[c].r] IN
       crash' = [crash EXCEPT ![c].at = "stamp", ![c].index = x.active,
                              ![c].saw = x.buffers[x.active]]
  /\ UNCHANGED <<rt, weak, transition, attached, sinks, me>>

\* put_crash
CrashStamps(c) ==
  /\ crash[c].at = "stamp"
  /\ rt' = [rt EXCEPT ![crash[c].r].buffers[crash[c].index].fault = c]
  /\ crash' = [crash EXCEPT ![c].at = "write"]
  /\ UNCHANGED <<weak, transition, attached, sinks, me>>

\* write_once
CrashWrites(c) ==
  /\ crash[c].at = "write"
  /\ crash' = [crash EXCEPT ![c].at = "leave",
                            ![c].wrote = rt[crash[c].r].buffers[crash[c].index]]
  /\ UNCHANGED <<rt, weak, transition, attached, sinks, me>>

CrashLeaves(c) ==
  /\ crash[c].at = "leave"
  /\ rt' = [rt EXCEPT ![crash[c].r].reading = FALSE, ![crash[c].r].inHandler = FALSE]
  /\ crash' = [crash EXCEPT ![c].at = "done"]
  /\ UNCHANGED <<weak, transition, attached, sinks, me>>

CrashStep(c) ==
  \/ CrashBegins(c) \/ CrashIndexes(c) \/ CrashStamps(c) \/ CrashWrites(c) \/ CrashLeaves(c)

-----------------------------------------------------------------------------
\* What a thread does to finish a call it is in.
ThreadStep(t) ==
  \/ InstallResume(t) \/ InstallRegister(t) \/ InstallCreate(t) \/ InstallStart(t)
  \/ SetMetadata(t) \/ SetMetadataHead(t) \/ SetMetadataTail(t) \/ Release(t)
  \/ TeardownBegin(t) \/ TeardownHandoff(t) \/ TeardownJoin(t) \/ SuspendEnd(t)

Next ==
  \/ \E t \in Threads :
       InstallBegin(t) \/ RemoveRegistration(t) \/ SuspendBegin(t) \/ ThreadStep(t)
  \/ \E r \in Runtimes : SamplerStep(r)
  \/ \E c \in Crashers : CrashStep(c)

Spec == Init /\ [][Next]_vars

\* Threads inside a call and the sampler are scheduled, a capture finishes and so does
\* the callback of with_handler_suspended.  Nothing is assumed of who gets a lock.
Fairness ==
  /\ \A t \in Threads : WF_vars(ThreadStep(t))
  /\ \A r \in 1 .. MaxRuntimes : WF_vars(r \in Runtimes /\ SamplerStep(r))

FairSpec == Spec /\ Fairness

\* Instances that start before the first installation.
Nobody == <<>>

-----------------------------------------------------------------------------
(* Properties.                                                             *)

\* Outside the critical section that attaches and detaches it, a Runtime says it is
\* armed exactly when the process would call it: is_armed never promises a capture
\* that a failed re-attachment has lost (suspend_handler, resume_handler).
ArmedIffAttached ==
  transition = None => \A r \in Runtimes : rt[r].armed <=> attached = r

\* The callback in the process's slot belongs to a Runtime that somebody still holds
\* or that a thread is about to take down, whatever failed on the way in.
CallbackHasARuntime ==
  attached # 0 =>
    \/ rt[attached].strong # {}
    \/ \E t \in Threads : me[t].at = "teardown" /\ me[t].r = attached

\* The process's callback and the Runtimes agree: a Runtime says it is armed exactly
\* when the process would call it, and the callback's Runtime is held by somebody
\* (suspend_handler, resume_handler, the teardown).
HandlerMatchesRuntimes == TypeOK /\ ArmedIffAttached /\ CallbackHasARuntime

\* A Runtime that is taken down leaves no pending spool file behind, whether its
\* thread joined the sampler or handed the file over to it (SamplerHandoff).
SinkIsReclaimed ==
  \A r \in Runtimes :
    /\ rt[r].strong = {} /\ rt[r].sampler = "gone"
    /\ \A t \in Threads : me[t].r # r
    => r \notin sinks

\* When no selection is on its way, the records carry the metadata of the oldest
\* registration still held (remove_registration, set_metadata): selections that
\* overtake each other settle on the newest.
OldestMetadataIsSelected ==
  \A r \in Runtimes :
    /\ rt[r].regs # {}
    /\ \A t \in Threads : me[t].r = r => me[t].at \notin {"publish", "head", "tail"}
    => rt[r].template.meta = Oldest(rt[r].regs)

\* The record a fault leaves is the one that was active when the callback looked,
\* stamped with this fault: never half of another, never without its stamp.
EmittedRecordIsWhole ==
  \A c \in Crashers :
    crash[c].wrote # None => crash[c].wrote = [crash[c].saw EXCEPT !.fault = c]

\* HANDLER_TRANSITION is never held for good: a teardown that joins the sampler under
\* it has asked that sampler to stop (request_stop), and a failed install lets it go.
GateIsReleased ==
  \A t \in Threads : transition = t ~> transition # t

=============================================================================
