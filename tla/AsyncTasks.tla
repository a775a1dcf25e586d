----------------------------- MODULE AsyncTasks -----------------------------
(***************************************************************************)
(* Owned tasks of the async engine (async_engine.rs: Task, TaskGroup,      *)
(* launch, launch_blocking, the blocking lane of RuntimeBuilder) and the   *)
(* bounded entropy pool that runs on that lane (random.rs).  A task is     *)
(* aborted when its handle goes away unless it was detached; the backend   *)
(* acts on an abort at the task's next yield, and never interrupts a       *)
(* blocking closure that has started.                                      *)
(***************************************************************************)
EXTENDS Naturals, FiniteSets

CONSTANTS Tasks,
          MaxBlockingThreads,  \* RuntimeBuilder::max_blocking_threads
          MaxOperations        \* SecureRandom::new's admission limit

VARIABLES
  kind,      \* task -> none, async, blocking, entropy
  work,      \* task -> none, queued, running, called, done, aborted
  handle,    \* task -> who owns it: none, handle, group, gone
  detached,  \* Task.detached
  abort,     \* an abort was requested of the backend
  asked,     \* the owner called cancel() itself
  stopped,   \* entropy: the StopOnDrop flag
  result,    \* entropy: what the worker returned: none, bytes, Cancelled, Unavailable
  caller,    \* entropy: what the caller has: waiting, TimedOut, bytes, failed, gone
  strays     \* tasks that began although their owner had abandoned them

vars == <<kind, work, handle, detached, abort, asked, stopped, result, caller, strays>>

TypeOK ==
  /\ kind \in [Tasks -> {"none", "async", "blocking", "entropy"}]
  /\ work \in [Tasks -> {"none", "queued", "running", "called", "done", "aborted"}]
  /\ handle \in [Tasks -> {"none", "handle", "group", "gone"}]
  /\ caller \in [Tasks -> {"none", "waiting", "TimedOut", "bytes", "failed", "gone"}]
  /\ result \in [Tasks -> {"none", "bytes", "Cancelled", "Unavailable"}]
  /\ \A f \in {detached, abort, asked, stopped} : f \in [Tasks -> BOOLEAN]
  /\ strays \subseteq Tasks

Init ==
  /\ kind = [t \in Tasks |-> "none"] /\ work = [t \in Tasks |-> "none"]
  /\ handle = [t \in Tasks |-> "none"] /\ caller = [t \in Tasks |-> "none"]
  /\ result = [t \in Tasks |-> "none"] /\ strays = {}
  /\ detached = [t \in Tasks |-> FALSE] /\ abort = [t \in Tasks |-> FALSE]
  /\ asked = [t \in Tasks |-> FALSE] /\ stopped = [t \in Tasks |-> FALSE]

Live(t) == work[t] \in {"queued", "running", "called"}
OnLane(t) == kind[t] \in {"blocking", "entropy"} /\ work[t] \in {"running", "called"}
Set(f, t, v) == [f EXCEPT ![t] = v]

(* --------------------------- tasks and groups --------------------------- *)
\* launch, launch_blocking, TaskGroup::spawn, TaskGroup::spawn_blocking.
Launch(t) ==
  /\ kind[t] = "none"
  /\ \E k \in {"async", "blocking"}, owner \in {"handle", "group"} :
        kind' = Set(kind, t, k) /\ handle' = Set(handle, t, owner)
  /\ work' = Set(work, t, "queued")
  /\ UNCHANGED <<detached, abort, asked, stopped, result, caller, strays>>

\* The backend starts a task; the blocking lane has a bounded number of
\* threads and drops an aborted closure that has not begun.
Start(t) ==
  /\ work[t] = "queued"
  /\ kind[t] # "async" => Cardinality({u \in Tasks : OnLane(u)}) < MaxBlockingThreads
  /\ IF abort[t]
     THEN work' = Set(work, t, "aborted") /\ UNCHANGED strays
     ELSE /\ work' = Set(work, t, "running")
          /\ strays' = IF handle[t] = "gone" /\ ~detached[t] /\ kind[t] # "entropy"
                       THEN strays \cup {t} ELSE strays
  /\ UNCHANGED <<kind, handle, detached, abort, asked, stopped, result, caller>>

\* An async task reaches a yield point with an abort pending.
Yield(t) ==
  /\ kind[t] = "async" /\ work[t] = "running" /\ abort[t]
  /\ work' = Set(work, t, "aborted")
  /\ UNCHANGED <<kind, handle, detached, abort, asked, stopped, result, caller, strays>>

Finish(t) ==
  /\ kind[t] \in {"async", "blocking"} /\ work[t] = "running"
  /\ work' = Set(work, t, "done")
  /\ UNCHANGED <<kind, handle, detached, abort, asked, stopped, result, caller, strays>>

\* Task::cancel.
CancelTask(t) ==
  /\ handle[t] = "handle" /\ Live(t) /\ ~abort[t]
  /\ abort' = Set(abort, t, TRUE) /\ asked' = Set(asked, t, TRUE)
  /\ UNCHANGED <<kind, work, handle, detached, stopped, result, caller, strays>>

\* Task::detach_on_drop keeps the handle; Task::detach is the same and a drop.
DetachOnDrop(t) ==
  /\ handle[t] = "handle" /\ ~detached[t]
  /\ detached' = Set(detached, t, TRUE)
  /\ UNCHANGED <<kind, work, handle, abort, asked, stopped, result, caller, strays>>

\* Drop for Task.
DropHandle(t) ==
  /\ handle[t] = "handle" /\ handle' = Set(handle, t, "gone")
  /\ abort' = Set(abort, t, abort[t] \/ (~detached[t] /\ Live(t)))
  /\ UNCHANGED <<kind, work, detached, asked, stopped, result, caller, strays>>

\* Future for Task and TaskGroup::join_next: a finished or aborted task is
\* collected; its handle is used up.
Join(t) ==
  /\ handle[t] \in {"handle", "group"} /\ work[t] \in {"done", "aborted"}
  /\ handle' = Set(handle, t, "gone")
  /\ UNCHANGED <<kind, work, detached, abort, asked, stopped, result, caller, strays>>

\* Dropping the group aborts everything still in it.
DropGroup ==
  /\ \E t \in Tasks : handle[t] = "group"
  /\ handle' = [t \in Tasks |-> IF handle[t] = "group" THEN "gone" ELSE handle[t]]
  /\ abort' = [t \in Tasks |-> abort[t] \/ (handle[t] = "group" /\ Live(t))]
  /\ UNCHANGED <<kind, work, detached, asked, stopped, result, caller, strays>>

(* ------------------------------- entropy -------------------------------- *)
\* Workers that hold a permit: it was moved into the blocking closure.
Admitted == {t \in Tasks : kind[t] = "entropy" /\ Live(t)}

\* SecureRandom::generate_with: refuse at capacity, else move the permit into
\* a closure on the blocking lane and wait for it with a timeout.
Generate(t) ==
  /\ kind[t] = "none" /\ Cardinality(Admitted) < MaxOperations
  /\ kind' = Set(kind, t, "entropy") /\ work' = Set(work, t, "queued")
  /\ caller' = Set(caller, t, "waiting")
  /\ UNCHANGED <<handle, detached, abort, asked, stopped, result, strays>>

\* The worker's first look at the flag, then the call into the system.
CallSystem(t) ==
  /\ kind[t] = "entropy" /\ work[t] = "running"
  /\ IF stopped[t]
     THEN work' = Set(work, t, "done") /\ result' = Set(result, t, "Cancelled")
     ELSE work' = Set(work, t, "called") /\ UNCHANGED result
  /\ UNCHANGED <<kind, handle, detached, abort, asked, stopped, caller, strays>>

\* The system call returns; a second look at the flag discards the bytes of
\* a caller that gave up.
SystemReturns(t) ==
  /\ work[t] = "called" /\ work' = Set(work, t, "done")
  /\ \E ok \in BOOLEAN :
        result' = Set(result, t, IF ~ok THEN "Unavailable"
                                 ELSE IF stopped[t] THEN "Cancelled" ELSE "bytes")
  /\ UNCHANGED <<kind, handle, detached, abort, asked, stopped, caller, strays>>

\* The caller times out or is dropped: StopOnDrop raises the flag, the worker
\* keeps its permit.
GiveUp(t) ==
  /\ caller[t] = "waiting" /\ stopped' = Set(stopped, t, TRUE)
  /\ \E why \in {"TimedOut", "gone"} : caller' = Set(caller, t, why)
  /\ UNCHANGED <<kind, work, handle, detached, abort, asked, result, strays>>

Receive(t) ==
  /\ caller[t] = "waiting" /\ result[t] # "none"
  /\ caller' = Set(caller, t, IF result[t] = "bytes" THEN "bytes" ELSE "failed")
  /\ stopped' = Set(stopped, t, TRUE)
  /\ UNCHANGED <<kind, work, handle, detached, abort, asked, result, strays>>

Next ==
  \/ DropGroup
  \/ \E t \in Tasks :
       \/ Launch(t) \/ Start(t) \/ Yield(t) \/ Finish(t) \/ CancelTask(t)
       \/ DetachOnDrop(t) \/ DropHandle(t) \/ Join(t)
       \/ Generate(t) \/ CallSystem(t) \/ SystemReturns(t) \/ GiveUp(t) \/ Receive(t)

Spec == Init /\ [][Next]_vars

(* ------------------------------ properties ------------------------------ *)
\* The doc of Task: dropping a live task cancels it, detaching keeps it.  Work
\* whose owner let go of it never begins and has an abort pending unless it
\* was detached; and nothing is aborted that was detached and not cancelled.
AbandonedWorkStops ==
  /\ strays = {}
  /\ \A t \in Tasks :
       /\ handle[t] = "gone" /\ Live(t) => (detached[t] \/ abort[t])
       /\ work[t] = "aborted" /\ detached[t] => asked[t]

\* The doc of SecureRandom::bytes: the worker retains admission until it really
\* ends, so timeouts and dropped futures never raise the number of system
\* calls in flight above the limit, and only a caller that still waits is
\* given bytes.
EntropyIsBounded ==
  /\ Cardinality({t \in Tasks : work[t] = "called"}) <= MaxOperations
  /\ \A t \in Tasks : caller[t] = "bytes" => result[t] = "bytes"
=============================================================================
