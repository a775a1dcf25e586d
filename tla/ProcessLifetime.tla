-------------------------- MODULE ProcessLifetime --------------------------
(***************************************************************************)
(* How a process's end reaches those it matters to, in two facets.         *)
(*                                                                         *)
(* "bind": a child process and the binding that ends it with its owner:    *)
(* spawn and spawn_session with their owner watch, admission and           *)
(* scheduling-band retry, the watcher task, the terminal operations of     *)
(* PlatformChild and ProcessSession, and the session's output lane behind  *)
(* its mutex.                                                              *)
(*                                                                         *)
(* "observe": the callers of one shared ProcessExitWatch::exited on the    *)
(* three hosts, the Windows owner-death job that two threads install at    *)
(* once, and the stop handle of a descendant monitor.                      *)
(***************************************************************************)
EXTENDS Naturals, FiniteSets

CONSTANT Callers   \* of exited() and of install_owner_death_cleanup

VARIABLES
    facet,
    spec,      \* the request: [owner, best (best-effort band), session]
    owner,     \* the nominated owner process: "run" or "exited"
    pc,        \* spawn: "idle", "watched", "admitted", "refused", "spawned", "bound", "failed"
    retried,   \* the second attempt, without the band, is under way
    watch,     \* the owner's exit subscription is open
    child,     \* "none", "run", "exited", "reaped"
    watcher,   \* the watcher task: "none", "waiting", "killing", "ended", "cancelled"
    why,       \* why the watcher ended: "none", "host error", "killed", "kill failed"
    handle,    \* "none", "held", "dropped"
    pid,       \* the handle still shows the child's PID
    answered,  \* a terminal operation returned Ok
    consumer,  \* next_output: "none", "locked" (holds the mutex, receiving)
    shutdown,  \* shutdown_output: "none", "waiting" (for the mutex), "done"
    woken,     \* the output lane was asked to shut down
    host,      \* the host of the observers
    target,    \* the watched process: "run" or "exited"
    call,      \* caller -> where its exited() stands
    ready,     \* caller -> its own registration has an edge it has not consumed
    queued,    \* the one NOTE_EXIT is in the queue (macOS)
    latch,     \* the observation is stored for later callers (macOS)
    cancel,    \* caller -> its cancel event is set (Windows)
    worker,    \* caller -> its blocking worker: "none", "waiting", "released"
    job,       \* install_owner_death_cleanup: [call, own (the JOB cell), open, in]
    stop,      \* DescendantMonitorStop: the flag
    monitor    \* the monitor in wait_timeout: "check", "lock", "recheck", "asleep", ...

bindVars == <<spec, owner, pc, retried, watch, child, watcher, why, handle, pid,
              answered, consumer, shutdown, woken>>
observeVars == <<host, target, call, ready, queued, latch, cancel, worker, job, stop,
                 monitor>>
vars == <<facet, spec, owner, pc, retried, watch, child, watcher, why, handle, pid,
          answered, consumer, shutdown, woken, host, target, call, ready, queued,
          latch, cancel, worker, job, stop, monitor>>

spawning == <<spec, pc, retried, watch>>
lane == <<consumer, shutdown, woken>>
watchVars == <<target, call, ready, queued, latch, cancel, worker>>

BindInit == /\ spec \in [owner : {"none", "spawner", "process"}, best : BOOLEAN, session : BOOLEAN]
            /\ owner = "run" /\ pc = "idle" /\ retried = FALSE /\ watch = FALSE
            /\ child = "none" /\ watcher = "none" /\ why = "none"
            /\ handle = "none" /\ pid = FALSE /\ answered = FALSE
            /\ consumer = "none" /\ shutdown = "none" /\ woken = FALSE

ObserveInit == /\ host \in {"linux", "macos", "windows"}
               /\ target = "run"
               /\ call = [c \in Callers |-> "start"]
               /\ ready = [c \in Callers |-> FALSE]
               /\ queued = FALSE /\ latch = FALSE
               /\ cancel = [c \in Callers |-> FALSE]
               /\ worker = [c \in Callers |-> "none"]
               /\ job = [call |-> [c \in Callers |-> "start"], own |-> {}, open |-> {}, in |-> {}]
               /\ stop = FALSE
               /\ monitor = "check"

(***************************************************************************)
(* The host.                                                               *)
(***************************************************************************)
OwnerExits == /\ owner = "run" /\ spec.owner = "process"
              /\ owner' = "exited"
              /\ UNCHANGED <<spawning, child, watcher, why, handle, pid, answered, lane>>

ChildExits == /\ child = "run"
              /\ child' = "exited"
              /\ UNCHANGED <<spawning, owner, watcher, why, handle, pid, answered, lane>>

(***************************************************************************)
(* spawn and spawn_session.                                                *)
(***************************************************************************)
\* open_owner_watch, before anything is spawned: an owner that is gone fails
\* the spawn.
OpenOwnerWatch ==
    /\ pc = "idle"
    /\ \/ spec.owner # "process" /\ watch' = FALSE /\ pc' = "watched"
       \/ spec.owner = "process" /\ owner = "run" /\ watch' = TRUE /\ pc' = "watched"
       \/ spec.owner = "process" /\ watch' = FALSE /\ pc' = "failed"
    /\ UNCHANGED <<spec, retried, owner, child, watcher, why, handle, pid, answered, lane>>

\* process.start(): the substrate takes the caller's permit right before the
\* native attempt; a refusal of the permit fails the attempt.
Admit == /\ pc = "watched"
         /\ pc' \in {"admitted", "failed", "refused"}
         /\ watch' = (watch /\ pc' # "failed")
         /\ UNCHANGED <<spec, retried, owner, child, watcher, why, handle, pid, answered, lane>>

\* ... and gives it back with the attempt's result.
NativeSpawn == /\ pc = "admitted"
               /\ \/ pc' = "spawned" /\ child' = "run" /\ UNCHANGED watch
                  \/ pc' = "refused" /\ UNCHANGED <<watch, child>>
                  \/ pc' = "failed" /\ watch' = FALSE /\ UNCHANGED child
               /\ UNCHANGED <<spec, retried, owner, watcher, why, handle, pid, answered, lane>>

\* priority_fallback, priority_refused: one more attempt with the band
\* dropped, only for a best-effort request.
Fallback == /\ pc = "refused"
            /\ IF spec.best /\ ~retried
               THEN pc' = "watched" /\ retried' = TRUE /\ UNCHANGED watch
               ELSE pc' = "failed" /\ watch' = FALSE /\ UNCHANGED retried
            /\ UNCHANGED <<spec, owner, child, watcher, why, handle, pid, answered, lane>>

\* bind_lifetime: the watch moves into the watcher task.
BindLifetime == /\ pc = "spawned"
                /\ pc' = "bound"
                /\ watch' = FALSE
                /\ watcher' = IF watch THEN "waiting" ELSE "none"
                /\ handle' = "held" /\ pid' = TRUE
                /\ UNCHANGED <<spec, retried, owner, child, why, answered, lane>>

(***************************************************************************)
(* watch_owner.                                                            *)
(***************************************************************************)
\* "The host stopped answering": the task ends and leaves the child alone.
WatchFails ==
    /\ watcher = "waiting"
    /\ watcher' = "ended" /\ why' = "host error"
    /\ UNCHANGED <<spawning, owner, child, handle, pid, answered, lane>>

WatchFires ==
    /\ watcher = "waiting" /\ owner = "exited"
    /\ watcher' = "killing"
    /\ UNCHANGED <<spawning, owner, child, why, handle, pid, answered, lane>>

\* OwnedChild::kill through the weak handle: terminates and reaps.
WatcherKills ==
    /\ watcher = "killing"
    /\ watcher' = "ended"
    /\ \/ handle = "held" /\ child' = "reaped" /\ why' = "killed"
       \/ handle = "held" /\ why' = "kill failed" /\ UNCHANGED child
       \/ handle = "dropped" /\ why' = "killed" /\ UNCHANGED child
    /\ UNCHANGED <<spawning, owner, handle, pid, answered, lane>>

(***************************************************************************)
(* Terminal operations. release() takes the watcher and cancels it.        *)
(***************************************************************************)
Released == IF watcher \in {"waiting", "killing"} THEN "cancelled" ELSE watcher

\* The Ok answer of wait or kill. A session keeps showing its PID.
Terminal == /\ answered' = TRUE /\ pid' = spec.session
            /\ child' = "reaped" /\ watcher' = Released

Wait == /\ handle = "held" /\ child \in {"exited", "reaped"}
        /\ Terminal
        /\ UNCHANGED <<spawning, owner, why, handle, lane>>

Kill == /\ handle = "held"
        /\ Terminal
        /\ UNCHANGED <<spawning, owner, why, handle, lane>>

\* ProcessSession::poll observes the reaping and releases nothing.
Poll == /\ handle = "held" /\ spec.session /\ child = "exited"
        /\ child' = "reaped"
        /\ UNCHANGED <<spawning, owner, watcher, why, handle, pid, answered, lane>>

\* The handle goes away: by drop, or consumed by wait_with_output_bounded.
\* The substrate terminates a child that still runs; a session does so only
\* where kill_on_drop asks for it.
DropHandle == /\ handle = "held" /\ consumer = "none" /\ shutdown \in {"none", "done"}
              /\ handle' = "dropped"
              /\ watcher' = Released
              /\ \/ child' = "reaped"
                 \/ spec.session /\ UNCHANGED child
              /\ UNCHANGED <<spawning, owner, why, pid, answered, lane>>

(***************************************************************************)
(* The session's output lane.                                              *)
(***************************************************************************)
Session == handle = "held" /\ spec.session

\* next_output: the mutex is held across the whole receive.
NextOutput == /\ Session /\ consumer = "none"
              /\ consumer' = "locked"
              /\ UNCHANGED <<spawning, owner, child, watcher, why, handle, pid, answered,
                             shutdown, woken>>

\* An event, or the end of the lane; a parked receive ends once it is woken.
Receives == /\ consumer = "locked"
            /\ consumer' = "none"
            /\ UNCHANGED <<spawning, owner, child, watcher, why, handle, pid, answered,
                           shutdown, woken>>

\* shutdown_output: the producer is woken first, then the mutex is awaited.
RequestShutdown == /\ Session /\ shutdown = "none"
                   /\ woken' = TRUE
                   /\ shutdown' = "waiting"
                   /\ UNCHANGED <<spawning, owner, child, watcher, why, handle, pid, answered,
                                  consumer>>

FinishShutdown == /\ shutdown = "waiting" /\ consumer = "none"
                  /\ shutdown' = "done"
                  /\ UNCHANGED <<spawning, owner, child, watcher, why, handle, pid, answered,
                                 consumer, woken>>

(***************************************************************************)
(* ProcessExitWatch::exited.                                               *)
(***************************************************************************)
\* The exit makes a pidfd readable for good, and a kqueue readable once.
TargetExits == /\ target = "run"
               /\ target' = "exited"
               /\ queued' = (host = "macos")
               /\ ready' = [c \in Callers |-> ready[c] \/ call[c] = "parked"]
               /\ UNCHANGED <<host, call, latch, cancel, worker, job, stop, monitor>>

\* A caller registers its own interest in the shared descriptor.
LinuxRegister(c) == /\ host = "linux" /\ call[c] = "start"
                    /\ call' = [call EXCEPT ![c] = "parked"]
                    /\ ready' = [ready EXCEPT ![c] = target = "exited"]
                    /\ UNCHANGED <<host, target, queued, latch, cancel, worker, job, stop, monitor>>

\* Readiness is never cleared; the status is peeked without reaping.
LinuxPeek(c) == /\ host = "linux" /\ call[c] = "parked" /\ ready[c]
                /\ call' = [call EXCEPT ![c] = "done"]
                /\ UNCHANGED <<host, target, ready, queued, latch, cancel, worker, job, stop, monitor>>

MacosRegister(c) == /\ host = "macos" /\ call[c] = "start"
                    /\ call' = [call EXCEPT ![c] = IF latch THEN "done" ELSE "parked"]
                    /\ ready' = [ready EXCEPT ![c] = ~latch /\ queued]
                    /\ UNCHANGED <<host, target, queued, latch, cancel, worker, job, stop, monitor>>

\* collect_exit takes the one event, or finds the queue drained.
MacosCollect(c) == /\ host = "macos" /\ call[c] = "parked" /\ ready[c]
                   /\ call' = [call EXCEPT ![c] = IF queued THEN "collected" ELSE "missed"]
                   /\ queued' = FALSE
                   /\ UNCHANGED <<host, target, ready, latch, cancel, worker, job, stop, monitor>>

MacosLatch(c) == /\ call[c] = "collected"
                 /\ latch' = TRUE
                 /\ call' = [call EXCEPT ![c] = "done"]
                 /\ UNCHANGED <<host, target, ready, queued, cancel, worker, job, stop, monitor>>

MacosMissed(c) == /\ call[c] = "missed"
                  /\ call' = [call EXCEPT ![c] = IF latch THEN "done" ELSE "parked"]
                  /\ ready' = [ready EXCEPT ![c] = latch]
                  /\ UNCHANGED <<host, target, queued, latch, cancel, worker, job, stop, monitor>>

\* Windows waits on a blocking worker, for the process or the cancel event.
WindowsWait(c) == /\ host = "windows" /\ call[c] = "start"
                  /\ call' = [call EXCEPT ![c] = "parked"]
                  /\ worker' = [worker EXCEPT ![c] = "waiting"]
                  /\ UNCHANGED <<host, target, ready, queued, latch, cancel, job, stop, monitor>>

WaitForExit(c) == /\ worker[c] = "waiting"
                  /\ target = "exited" \/ cancel[c]
                  /\ worker' = [worker EXCEPT ![c] = "released"]
                  /\ UNCHANGED <<host, target, call, ready, queued, latch, cancel, job, stop, monitor>>

WindowsDone(c) == /\ host = "windows" /\ call[c] = "parked" /\ worker[c] = "released"
                  /\ call' = [call EXCEPT ![c] = "done"]
                  /\ cancel' = [cancel EXCEPT ![c] = TRUE]
                  /\ UNCHANGED <<host, target, ready, queued, latch, worker, job, stop, monitor>>

\* The caller gives up; CancelOnDrop sets the event.
DropWait(c) == /\ call[c] = "parked"
               /\ call' = [call EXCEPT ![c] = "dropped"]
               /\ cancel' = [cancel EXCEPT ![c] = host = "windows"]
               /\ UNCHANGED <<host, target, ready, queued, latch, worker, job, stop, monitor>>

(***************************************************************************)
(* install_owner_death_cleanup on Windows, called by several threads.      *)
(* job.in: the jobs this process is a member of; job.open: the jobs it     *)
(* holds a handle to.                                                      *)
(***************************************************************************)
JobCreate(c) == /\ host = "windows" /\ job.call[c] = "start"
                /\ job' = IF job.own # {} THEN [job EXCEPT !.call[c] = "done"]
                          ELSE [job EXCEPT !.call[c] = "created", !.open = @ \cup {c}]
                /\ UNCHANGED <<host, watchVars, stop, monitor>>

\* Access denied, or another failure, drops a job that contains nobody.
JobAssign(c) == /\ job.call[c] = "created"
                /\ \/ job' = [job EXCEPT !.call[c] = "assigned", !.in = @ \cup {c}]
                   \/ job' = [job EXCEPT !.call[c] = "done", !.open = @ \ {c}]
                /\ UNCHANGED <<host, watchVars, stop, monitor>>

\* JOB.set: the loser of the race forgets its duplicate.
JobSet(c) == /\ job.call[c] = "assigned"
             /\ job' = IF job.own = {} THEN [job EXCEPT !.call[c] = "done", !.own = {c}]
                       ELSE [job EXCEPT !.call[c] = "done"]
             /\ UNCHANGED <<host, watchVars, stop, monitor>>

(***************************************************************************)
(* DescendantMonitorStop.                                                  *)
(***************************************************************************)
\* stop: under the mutex the monitor rechecks under, so never between its
\* recheck and its sleep.
Stop == /\ ~stop /\ monitor # "recheck"
        /\ stop' = TRUE
        /\ monitor' = IF monitor = "asleep" THEN "awake" ELSE monitor
        /\ UNCHANGED <<host, watchVars, job>>

\* wait_timeout: the flag is read before and again under the mutex. The
\* monitor holds the mutex at "recheck" and gives it up by sleeping.
MonitorChecks == /\ monitor = "check"
                 /\ monitor' = IF stop THEN "stopped" ELSE "lock"
                 /\ UNCHANGED <<host, watchVars, job, stop>>

MonitorLocks == /\ monitor = "lock"
                /\ monitor' = IF stop THEN "stopped" ELSE "recheck"
                /\ UNCHANGED <<host, watchVars, job, stop>>

MonitorSleeps == /\ monitor = "recheck"
                 /\ monitor' = "asleep"
                 /\ UNCHANGED <<host, watchVars, job, stop>>

\* Woken, or timed out and called again for the next round.
MonitorWakes == /\ monitor \in {"asleep", "awake"}
                /\ monitor' = IF stop THEN "stopped" ELSE "check"
                /\ UNCHANGED <<host, watchVars, job, stop>>

Bind == \/ OwnerExits \/ ChildExits
        \/ OpenOwnerWatch \/ Admit \/ NativeSpawn \/ Fallback \/ BindLifetime
        \/ WatchFails \/ WatchFires \/ WatcherKills
        \/ Wait \/ Kill \/ Poll \/ DropHandle
        \/ NextOutput \/ Receives \/ RequestShutdown \/ FinishShutdown

Observe == \/ TargetExits
        \/ \E c \in Callers :
              \/ LinuxRegister(c) \/ LinuxPeek(c)
              \/ MacosRegister(c) \/ MacosCollect(c) \/ MacosLatch(c) \/ MacosMissed(c)
              \/ WindowsWait(c) \/ WaitForExit(c) \/ WindowsDone(c) \/ DropWait(c)
              \/ JobCreate(c) \/ JobAssign(c) \/ JobSet(c)
        \/ Stop \/ MonitorChecks \/ MonitorLocks \/ MonitorSleeps \/ MonitorWakes

Init ==
    /\ facet \in {"bind", "observe"}
    /\ BindInit /\ ObserveInit
    /\ facet = "bind" => host = "linux"
    /\ facet = "observe" => spec = [owner |-> "none", best |-> FALSE, session |-> FALSE]

Next == \/ facet = "bind" /\ Bind /\ UNCHANGED <<facet, observeVars>>
        \/ facet = "observe" /\ Observe /\ UNCHANGED <<facet, bindVars>>

Spec == Init /\ [][Next]_vars

(***************************************************************************)
(* Properties.                                                             *)
(***************************************************************************)
\* The watcher touches the child only for an owner that really exited; once it
\* has acted, no child under a held handle still runs; and no watch is kept
\* past the answer that left nothing to protect.
WatcherActsForItsOwner ==
    /\ watcher = "killing" \/ why \in {"killed", "kill failed"} => owner = "exited"
    /\ why = "killed" /\ handle = "held" => child # "run"
    /\ answered => watcher \notin {"waiting", "killing"}

\* A child bound to another process is never without a watch on that process
\* from before it exists until its handle has a terminal answer, unless the
\* host stopped answering or refused the kill.
BoundChildIsWatched ==
    spec.owner = "process" /\ child = "run" /\ handle # "dropped" =>
        watch \/ watcher \in {"waiting", "killing"} \/ why \in {"host error", "kill failed"}

\* shutdown_output that waits for the lane's mutex has already woken whoever
\* holds it.
ShutdownWakesTheReader == shutdown = "waiting" /\ consumer = "locked" => woken

\* A job that holds this process is never closed by it, whichever thread won
\* the installation.
ContainmentStaysOpen == job.in \subseteq job.open

\* Nobody is left asleep on something that already happened: a worker whose
\* caller gave up can return, a caller parked on a pidfd or a handle of an
\* exited process can proceed, and a stopped monitor is not asleep unnoticed.
NoSleepThroughAnEnd ==
    /\ \A c \in Callers : worker[c] = "waiting" /\ call[c] = "dropped" => cancel[c]
    /\ \A c \in Callers :
          host = "linux" /\ call[c] = "parked" /\ target = "exited" => ready[c]
    /\ stop => monitor # "asleep"

=============================================================================
