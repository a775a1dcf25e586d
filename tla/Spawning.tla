----------------------------- MODULE Spawning -----------------------------
(***************************************************************************)
(* Launching children and owning them.  Independent parts, one per facet:  *)
(*   group    a Unix child in its own group: kill, wait, drop, watcher;    *)
(*   win      the Windows launch through a job, strict or not, or daemon;  *)
(*   capture  a blocked output reader and its cancellation;                *)
(*   owner    owner-death containment installed between fork and exec;     *)
(*   descend  the monitors that report a launched tree's descendants;      *)
(*   adapter  the asynchronous spawn: owner watch, admission, priority;    *)
(*   value    pure functions: environments, command lines, flags, parsing. *)
(***************************************************************************)
EXTENDS Integers, Sequences, FiniteSets, SequencesExt

CONSTANTS MaxCalls,      \* calls of the handle's owner
          MaxPolls,      \* snapshots of a descendant monitor
          MaxProcesses   \* processes a monitored tree ever has

VARIABLES facet, host, grp, win, cap, own, mon, adp, value

vars == <<facet, host, grp, win, cap, own, mon, adp, value>>

Off == [phase |-> "off"]
Others(f) ==
    /\ UNCHANGED <<facet, host, value>>
    /\ IF f = "group" THEN TRUE ELSE UNCHANGED grp
    /\ IF f = "win" THEN TRUE ELSE UNCHANGED win
    /\ IF f = "capture" THEN TRUE ELSE UNCHANGED cap
    /\ IF f = "owner" THEN TRUE ELSE UNCHANGED own
    /\ IF f = "descend" THEN TRUE ELSE UNCHANGED mon
    /\ IF f = "adapter" THEN TRUE ELSE UNCHANGED adp

(***************************************************************************)
(* Unix: the child leads its own group.  Its handle sits in a mutex shared *)
(* with the drain watcher; `status` is what std caches once it reaped.     *)
(***************************************************************************)
FreshChildren == {[phase |-> "on", kind |-> "spawned", at |-> "idle", ret |-> "idle", root |-> "run", kid |-> "none", doomed |-> {},
                 child |-> "shared", status |-> FALSE, reaps |-> 0, watcher |-> w, contained |-> FALSE, signaled |-> FALSE,
                 stdin |-> "open", forced |-> FALSE, calls |-> 0] :
                   w \in {"off", "poll"}}
\* The same child behind a worker's control, which also records its end.
spawn_contained_worker == {[g EXCEPT !.kind = "worker"] : g \in FreshChildren}
FreshGroups == FreshChildren \cup spawn_contained_worker
Grp(r) == grp' = r /\ Others("group")

RootForks ==
    /\ facet = "group" /\ grp.root = "run" /\ "root" \notin grp.doomed /\ grp.kid = "none"
    /\ Grp([grp EXCEPT !.kid = "run"])
RootExits ==
    /\ facet = "group" /\ grp.root = "run"
    /\ Grp([grp EXCEPT !.root = "zombie"])
KidExits ==
    /\ facet = "group" /\ grp.kid = "run"
    /\ Grp([grp EXCEPT !.kid = "gone"])

\* The group exists while a member does; macOS does not count zombies.
GroupMembers(g) == {m \in {"root", "kid"} : g[m] = "run" \/ (g[m] = "zombie" /\ host # "macos")}
unix_signal_process_group(g) ==
    [g EXCEPT !.doomed = @ \cup {m \in GroupMembers(g) : g[m] = "run"}, !.signaled = GroupMembers(g) # {}]
ChildKill(g) == IF g.status \/ g.root # "run" THEN g ELSE [g EXCEPT !.doomed = @ \cup {"root"}]
\* waitpid reaps a zombie once; later calls answer from the cached status.
TryWaitChild(g) == IF g.status \/ g.root # "zombie" THEN g ELSE [g EXCEPT !.status = TRUE, !.root = "gone", !.reaps = @ + 1]

Calls(g) == g.calls < MaxCalls
\* The child first, under the mutex; then the group, without it.
kill(back) ==
    /\ facet = "group" /\ Calls(grp) /\ grp.at = "idle"
    /\ back = "force" => grp.kind = "worker"
    /\ Grp([(IF grp.child = "shared" THEN ChildKill(grp) ELSE grp) EXCEPT !.at = "killpg", !.ret = back, !.calls = @ + 1,
                                                                         !.stdin = IF back = "force" THEN "closed" ELSE @])
KillGroup ==
    /\ facet = "group" /\ grp.at = "killpg"
    /\ Grp([unix_signal_process_group(grp) EXCEPT !.at = grp.ret])
\* The blocking wait keeps the mutex until the child has ended.
wait ==
    /\ facet = "group" /\ Calls(grp) /\ grp.at = "idle" /\ grp.kind = "spawned"
    /\ Grp([grp EXCEPT !.at = "wait", !.calls = @ + 1])
WaitReturns ==
    /\ facet = "group" /\ grp.at = "wait" /\ (grp.status \/ grp.root = "zombie")
    /\ Grp([TryWaitChild(grp) EXCEPT !.at = "idle"])
Observe(g) == [TryWaitChild(g) EXCEPT !.contained = @ \/ TryWaitChild(g).status]
try_wait ==
    /\ facet = "group" /\ Calls(grp) /\ grp.at = "idle"
    /\ Grp([(IF grp.kind = "worker" THEN Observe(grp) ELSE TryWaitChild(grp)) EXCEPT !.calls = @ + 1])
\* reap_clean and the polling half of force_and_reap: until seen or timed out.
reap_clean ==
    /\ facet = "group" /\ Calls(grp) /\ grp.at = "idle" /\ grp.kind = "worker"
    /\ Grp([grp EXCEPT !.at = "reap", !.calls = @ + 1])
ReapPolls ==
    /\ facet = "group" /\ grp.at \in {"reap", "force"}
    /\ LET g == TryWaitChild(grp)
       IN  Grp(IF g.status THEN [g EXCEPT !.at = "idle", !.contained = TRUE, !.forced = @ \/ grp.at = "force"]
               ELSE [g EXCEPT !.at = "idle"])

\* Dropping the handle.  A contained worker is not shut down again.
DropHandle ==
    /\ facet = "group" /\ grp.at = "idle"
    /\ Grp([grp EXCEPT !.stdin = "closed", !.at = IF grp.kind = "worker" /\ grp.contained THEN "end" ELSE "shutdown"])
shutdown ==
    /\ facet = "group" /\ grp.at = "shutdown"
    /\ Grp([unix_signal_process_group(grp) EXCEPT !.at = "take"])
TakeChild ==
    /\ facet = "group" /\ grp.at = "take"
    /\ Grp([(IF grp.signaled THEN grp ELSE ChildKill(grp)) EXCEPT !.at = "drain", !.child = "taken"])
\* poll_until: the child was reaped, or the deadline passed and a thread waits.
shutdown_with_deadline ==
    /\ facet = "group" /\ grp.at = "drain"
    /\ LET g == TryWaitChild(grp)
       IN  Grp([g EXCEPT !.at = "end", !.child = IF g.status THEN "freed" ELSE "reaper"])
spawn_background_reaper ==
    /\ facet = "group" /\ grp.child = "reaper" /\ grp.root = "zombie"
    /\ Grp([TryWaitChild(grp) EXCEPT !.child = "freed"])

\* The drain watcher polls under the mutex, which a blocked wait holds.
WatcherPolls ==
    /\ facet = "group" /\ grp.watcher = "poll" /\ grp.at # "wait"
    /\ IF grp.child # "shared" THEN Grp([grp EXCEPT !.watcher = "off"])
       ELSE /\ grp.root = "zombie" \/ grp.status
            /\ Grp([TryWaitChild(grp) EXCEPT !.watcher = "drain"])
WatcherEnds ==
    /\ facet = "group" /\ grp.watcher = "drain"
    /\ Grp([grp EXCEPT !.watcher = "off"])

GroupNext == RootForks \/ RootExits \/ KidExits \/ kill("idle") \/ kill("force") \/ KillGroup \/ wait \/ WaitReturns \/ try_wait
             \/ reap_clean \/ ReapPolls \/ DropHandle \/ shutdown \/ TakeChild \/ shutdown_with_deadline \/ spawn_background_reaper
             \/ WatcherPolls \/ WatcherEnds

(***************************************************************************)
(* Windows: slots, job, suspended process, assignment, resumption.  Each   *)
(* step may fail; returning an error closes every handle held locally.     *)
(***************************************************************************)
Slot(n) == <<"c1", "c2", "c3">>[n]
ParentEnd(n) == <<"p1", "p2", "p3">>[n]
open_nul(n) == {Slot(n)}
create_pipe_pair(n) == {Slot(n), ParentEnd(n)}
FreshLaunches == {[phase |-> "on", kind |-> k, at |-> "slots", slot |-> 1, pipes |-> p, handles |-> {}, child |-> "none", kid |-> "none",
                   out |-> FALSE, inJob |-> FALSE, job |-> {}, breakaway |-> b, outer |-> o, flag |-> b, escaped |-> FALSE, drains |-> d,
                   watcher |-> "off", result |-> "none", cleanup |-> FALSE, contained |-> FALSE, calls |-> 0] :
                     k \in {"sync", "strict", "daemon"}, p \in {{}, {1, 2}}, b \in BOOLEAN, o \in {"none", "permits", "denies"}, d \in BOOLEAN}
ConsistentLaunches == {w \in FreshLaunches : /\ w.kind # "daemon" => ~w.breakaway /\ w.outer = "none"
                                             /\ w.kind # "sync" => ~w.drains
                                             /\ w.kind = "daemon" => w.pipes = {}}
Win(r) == win' = r /\ Others("win")

Alive(s) == s \in {"run", "suspended"}
Terminate(w) == IF Alive(w.child) THEN [w EXCEPT !.child = "dying"] ELSE w
\* Closing the last handle of a kill-on-close job ends whoever is still in it.
CloseHandles(w, hs) ==
    LET killed == "job" \in hs \cap w.handles /\ "KILL_ON_JOB_CLOSE" \in w.job
    IN  [w EXCEPT !.handles = @ \ hs, !.child = IF killed /\ w.inJob /\ Alive(@) THEN "dying" ELSE @,
                  !.kid = IF killed /\ ~w.out /\ Alive(@) THEN "dying" ELSE @]
Fails(w) == [CloseHandles(w, w.handles) EXCEPT !.at = "end", !.result = "Err"]

\* A pipe slot opens the parent's end first and closes it when the child's fails.
resolve_slot(ok) ==
    /\ facet = "win" /\ win.at = "slots"
    /\ LET n == win.slot
           held == IF n \in win.pipes THEN create_pipe_pair(n) ELSE open_nul(n)
       IN  Win(IF ~ok THEN Fails(win)
               ELSE [win EXCEPT !.handles = @ \cup held, !.slot = n + 1,
                                !.at = IF n < 3 THEN "slots" ELSE IF win.kind = "daemon" THEN "attr" ELSE "job"])
\* Only the ordinary job lets a descendant break away.
create_job_object == {"KILL_ON_JOB_CLOSE", "BREAKAWAY_OK"}
create_strict_worker_job == {"KILL_ON_JOB_CLOSE"}
CreateJob(ok) ==
    /\ facet = "win" /\ win.at = "job"
    /\ Win(IF ~ok THEN Fails(win)
           ELSE [win EXCEPT !.handles = @ \cup {"job"}, !.at = "attr",
                            !.job = IF win.kind = "strict" THEN create_strict_worker_job ELSE create_job_object])
AttributeList(ok) ==
    /\ facet = "win" /\ win.at = "attr"
    /\ Win(IF ok THEN [win EXCEPT !.handles = @ \cup {"attr"}, !.at = "update"] ELSE Fails(win))
HandleList(ok) ==
    /\ facet = "win" /\ win.at = "update"
    /\ Win(IF ok THEN [win EXCEPT !.at = "create"] ELSE Fails(CloseHandles(win, {"attr"})))
\* A daemon is not suspended and joins no job of ours.
spawn_sync_daemon(w) == [w EXCEPT !.handles = (@ \cup {"process"}) \ {"c1", "c2", "c3"}, !.child = "run", !.at = "owned", !.result = "Ok",
                                  !.escaped = win.flag /\ win.outer # "none"]
\* Refused breakaway is retried once without the flag.
create_process_inner(ok) ==
    /\ facet = "win" /\ win.at = "create"
    /\ LET w == CloseHandles(win, {"attr"})
       IN  Win(IF win.flag /\ win.outer = "denies" THEN [win EXCEPT !.flag = FALSE]
               ELSE IF ~ok THEN Fails(w)
               ELSE IF win.kind = "daemon" THEN spawn_sync_daemon(w)
               ELSE [w EXCEPT !.handles = @ \cup {"process", "thread"}, !.child = "suspended", !.at = "assign"])
\* Not in the job yet, so the child must be terminated explicitly.
AssignProcess(ok) ==
    /\ facet = "win" /\ win.at = "assign"
    /\ Win(IF ok THEN [win EXCEPT !.inJob = TRUE, !.at = "resume"]
           ELSE IF win.kind = "strict" THEN [Terminate(win) EXCEPT !.at = "cleanup"] ELSE Fails(Terminate(win)))
\* The strict worker also refuses a previous suspend count other than one.
ResumeThread(previous) ==
    /\ facet = "win" /\ win.at = "resume"
    /\ Win(IF previous = 1
           THEN [CloseHandles(win, {"thread"}) EXCEPT !.child = "run", !.at = IF win.drains THEN "dup" ELSE "done"]
           ELSE IF win.kind = "strict" THEN [CloseHandles(win, {"job"}) EXCEPT !.at = "cleanup"]
           ELSE IF previous = -1 THEN Fails(win)
           ELSE [CloseHandles(win, {"thread"}) EXCEPT !.at = IF win.drains THEN "dup" ELSE "done"])
\* reap_only: a bounded wait for the process that is being ended.
StrictCleanup ==
    /\ facet = "win" /\ win.at = "cleanup"
    /\ Win([Fails(win) EXCEPT !.cleanup = win.child # "dead"])
DuplicateForWatcher(ok) ==
    /\ facet = "win" /\ win.at = "dup"
    /\ Win(IF ok THEN [win EXCEPT !.handles = @ \cup {"dup"}, !.at = "thread"] ELSE Fails(win))
SpawnWatcher(ok) ==
    /\ facet = "win" /\ win.at = "thread"
    /\ Win(IF ok THEN [win EXCEPT !.watcher = "wait", !.at = "done"] ELSE Fails(win))
Launched ==
    /\ facet = "win" /\ win.at = "done"
    /\ Win([CloseHandles(win, {"c1", "c2", "c3"}) EXCEPT !.at = "owned", !.result = "Ok"])

\* The kernel: the child runs, starts a descendant, ends.
ChildForks(out) ==
    /\ facet = "win" /\ win.child = "run" /\ win.kid = "none" /\ win.kind # "daemon"
    /\ out => "BREAKAWAY_OK" \in win.job
    /\ Win([win EXCEPT !.kid = "run", !.out = out])
ChildDies ==
    /\ facet = "win" /\ win.child \in {"run", "dying"}
    /\ Win([win EXCEPT !.child = "dead"])

WinCalls == facet = "win" /\ win.at = "owned" /\ win.calls < MaxCalls
TerminateProcess ==
    /\ WinCalls /\ win.kind # "strict"
    /\ Win([Terminate(win) EXCEPT !.calls = @ + 1])
try_wait_inner ==
    /\ WinCalls /\ win.kind = "strict" /\ "process" \in win.handles /\ win.child = "dead"
    /\ Win([win EXCEPT !.contained = TRUE, !.calls = @ + 1])
\* Close the job, or terminate again when an earlier attempt already closed it.
force_and_reap ==
    /\ WinCalls /\ win.kind = "strict" /\ "process" \in win.handles
    /\ LET w == CloseHandles(win, {"job", "p1"})
       IN  Win([(IF "job" \in win.handles THEN w ELSE Terminate(w)) EXCEPT !.at = "reap", !.calls = @ + 1])
\* A failed reap keeps the process handle so that a later call can retry.
reap_only ==
    /\ facet = "win" /\ win.at = "reap"
    /\ Win(IF win.child = "dead" THEN [CloseHandles(win, {"process"}) EXCEPT !.at = "owned", !.contained = TRUE]
           ELSE [win EXCEPT !.at = "owned"])
\* The job first, so that the tree dies; a daemon's handle only lets go.
DropLaunched ==
    /\ facet = "win" /\ win.at = "owned"
    /\ Win([CloseHandles(CloseHandles(IF win.kind = "strict" /\ "job" \notin win.handles /\ ~win.contained THEN Terminate(win) ELSE win, {"job"}),
                         {"process", "p1", "p2", "p3"}) EXCEPT !.at = "dropped"])
\* One-second slices; once the owner is gone nobody is left to drain for.
drain_watcher ==
    /\ facet = "win" /\ win.watcher = "wait" /\ win.at \in {"owned", "dropped"}
    /\ \/ win.child = "dead" /\ Win([win EXCEPT !.watcher = "drain"])
       \/ win.child # "dead" /\ win.at = "dropped" /\ Win([CloseHandles(win, {"dup"}) EXCEPT !.watcher = "off"])
DrainEnds ==
    /\ facet = "win" /\ win.watcher = "drain"
    /\ Win([CloseHandles(win, {"dup"}) EXCEPT !.watcher = "off"])

WinNext == (\E ok \in BOOLEAN : resolve_slot(ok) \/ CreateJob(ok) \/ AttributeList(ok) \/ HandleList(ok) \/ create_process_inner(ok)
                                \/ AssignProcess(ok) \/ DuplicateForWatcher(ok) \/ SpawnWatcher(ok) \/ ChildForks(ok))
           \/ (\E n \in {-1, 1, 2} : ResumeThread(n)) \/ StrictCleanup \/ Launched \/ ChildDies \/ TerminateProcess \/ try_wait_inner
           \/ force_and_reap \/ reap_only \/ DropLaunched \/ drain_watcher \/ DrainEnds

(***************************************************************************)
(* A blocked capture reader and the other thread that cancels it.  `hit`:  *)
(* a cancellation ran while the reader's waker or handle was stored.       *)
(***************************************************************************)
FreshCaptures == {[phase |-> "on", at |-> "new", stored |-> FALSE, woken |-> FALSE, aborted |-> FALSE, hit |-> FALSE, cancels |-> 0,
                   data |-> d, closed |-> FALSE, got |-> 0, late |-> 0] : d \in 0 .. 2}
Cap(r) == cap' = r /\ Others("capture")

\* The slot is filled under the mutex before the reader is handed out.
prepare_capture_reader ==
    /\ facet = "capture" /\ cap.at = "new"
    /\ Cap([cap EXCEPT !.at = "ready", !.stored = TRUE])
BeginRead ==
    /\ facet = "capture" /\ cap.at = "ready"
    /\ Cap([cap EXCEPT !.at = "reading"])
WriterWrites ==
    /\ facet = "capture" /\ cap.data < 2 /\ cap.got + cap.data < 3 /\ ~cap.closed
    /\ Cap([cap EXCEPT !.data = @ + 1])
WriterCloses ==
    /\ facet = "capture" /\ ~cap.closed
    /\ Cap([cap EXCEPT !.closed = TRUE])
ReadData(c) == IF c.data > 0 THEN [c EXCEPT !.data = @ - 1, !.got = @ + 1, !.at = "ready", !.late = IF c.hit THEN @ + 1 ELSE @]
               ELSE [c EXCEPT !.at = "over"]
\* Unix polls both descriptors and looks at the wake socket first.
CancelableCaptureReader_read ==
    /\ facet = "capture" /\ cap.at = "reading" /\ (cap.data > 0 \/ cap.closed \/ cap.woken \/ cap.aborted)
    /\ Cap(IF cap.woken \/ cap.aborted THEN [cap EXCEPT !.at = "over"] ELSE ReadData(cap))
\* Windows cancels the read in flight and leaves nothing behind for a later one.
cancel_capture_reader ==
    /\ facet = "capture" /\ cap.cancels < 1
    /\ Cap(IF host = "windows"
           THEN [cap EXCEPT !.cancels = @ + 1, !.aborted = cap.stored /\ cap.at = "reading", !.hit = cap.stored /\ cap.at = "reading"]
           ELSE [cap EXCEPT !.cancels = @ + 1, !.woken = cap.stored, !.hit = cap.stored /\ cap.at # "over"])
capture_reader_done ==
    /\ facet = "capture" /\ cap.at = "over"
    /\ Cap([cap EXCEPT !.stored = FALSE, !.at = "done"])
CaptureNext == prepare_capture_reader \/ BeginRead \/ WriterWrites \/ WriterCloses \/ CancelableCaptureReader_read
               \/ cancel_capture_reader \/ capture_reader_done

(***************************************************************************)
(* Between fork and exec.  Linux asks for a parent-death signal and then   *)
(* looks whether the owner is already gone.  macOS forks a supervisor that *)
(* watches the owner and answers over a pipe before the worker may exec.   *)
(***************************************************************************)
FreshOwners == {[phase |-> "on", owner |-> "alive", worker |-> "forked", leader |-> FALSE, armed |-> FALSE, sup |-> "none", target |-> "none",
                 watching |-> {}, events |-> {}, pipe |-> "empty", killed |-> {}]}
Own(r) == own' = r /\ Others("owner")

WorkerAlive(o) == o.worker \in {"forked", "led", "armed", "asking", "run"}
OwnerDies ==
    /\ facet = "owner" /\ own.owner = "alive"
    /\ Own([own EXCEPT !.owner = "dead", !.worker = IF own.armed /\ WorkerAlive(own) THEN "dead" ELSE @,
                       !.events = IF "owner" \in own.watching THEN @ \cup {"owner"} ELSE @])
WorkerDies ==
    /\ facet = "owner" /\ own.worker \in {"led", "asking", "run"}
    /\ Own([own EXCEPT !.worker = "dead", !.events = IF "target" \in own.watching THEN @ \cup {"target"} ELSE @])
setpgid(ok) ==
    /\ facet = "owner" /\ own.worker = "forked"
    /\ Own([own EXCEPT !.worker = IF ok THEN "led" ELSE "failed", !.leader = ok])
set_pdeathsig(ok) ==
    /\ facet = "owner" /\ host = "linux" /\ own.worker = "led"
    /\ Own([own EXCEPT !.worker = IF ok THEN "armed" ELSE "failed", !.armed = ok])
\* getppid() = 1: the owner died before the signal was armed.
configure_sync_contained_command ==
    /\ facet = "owner" /\ own.worker = "armed"
    /\ Own([own EXCEPT !.worker = IF own.owner = "dead" THEN "failed" ELSE "run"])

install_owner_death_supervisor(ok) ==
    /\ facet = "owner" /\ host = "macos" /\ own.worker = "led"
    /\ Own([own EXCEPT !.worker = IF ok THEN "asking" ELSE "failed", !.sup = IF ok THEN "start" ELSE "none"])
\* getppid() names the worker, or process 1 once the worker has died.
SupervisorStarts ==
    /\ facet = "owner" /\ own.sup = "start"
    /\ Own([own EXCEPT !.sup = "register", !.target = IF own.worker = "dead" THEN "init" ELSE "worker"])
\* Nobody is left to read the answer: the write ends the supervisor (SIGPIPE).
report_supervisor_status(o, status) ==
    IF o.worker # "asking" THEN [o EXCEPT !.sup = "gone", !.watching = {}, !.events = {}]
    ELSE [o EXCEPT !.pipe = status, !.sup = IF status = "ok" THEN "wait" ELSE "gone"]
SupervisorRegisters(ok) ==
    /\ facet = "owner" /\ own.sup = "register"
    /\ Own(IF ok /\ own.owner = "alive" /\ (own.worker # "dead" \/ own.target = "init")
           THEN [own EXCEPT !.sup = "recheck", !.watching = {"owner", "target"}]
           ELSE report_supervisor_status(own, "err"))
SupervisorRechecks ==
    /\ facet = "owner" /\ own.sup = "recheck"
    /\ Own(IF own.owner = "dead" THEN report_supervisor_status(own, "err") ELSE [own EXCEPT !.sup = "report"])
SupervisorReports ==
    /\ facet = "owner" /\ own.sup = "report"
    /\ Own(report_supervisor_status(own, "ok"))
\* A closed pipe without an answer is an error as well.
read_supervisor_status ==
    /\ facet = "owner" /\ own.worker = "asking" /\ (own.pipe # "empty" \/ own.sup = "gone")
    /\ Own([own EXCEPT !.worker = IF own.pipe = "ok" THEN "run" ELSE "failed",
                       !.events = IF own.pipe # "ok" /\ "target" \in own.watching THEN @ \cup {"target"} ELSE @])
supervisor_kill_target(o) == [o EXCEPT !.killed = @ \cup {o.target}, !.worker = IF o.target = "worker" /\ WorkerAlive(o) THEN "dead" ELSE @]
owner_death_supervisor(event) ==
    /\ facet = "owner" /\ own.sup = "wait" /\ event \in own.events
    /\ Own([(IF event = "owner" THEN supervisor_kill_target(own) ELSE own) EXCEPT !.sup = "gone", !.watching = {}])
QueueFails ==
    /\ facet = "owner" /\ own.sup = "wait"
    /\ Own([supervisor_kill_target(own) EXCEPT !.sup = "gone", !.watching = {}])
OwnerNext == OwnerDies \/ WorkerDies \/ configure_sync_contained_command \/ SupervisorStarts \/ SupervisorRechecks \/ SupervisorReports
             \/ read_supervisor_status \/ QueueFails \/ (\E e \in {"owner", "target"} : owner_death_supervisor(e))
             \/ (\E ok \in BOOLEAN : setpgid(ok) \/ set_pdeathsig(ok) \/ install_owner_death_supervisor(ok) \/ SupervisorRegisters(ok))

(***************************************************************************)
(* Descendant monitors.  Linux keys what it knows by number and macOS by   *)
(* identity; both look at the tree between two looks at the root.  Windows *)
(* reads the notifications of a job attached to a port before assignment.  *)
(***************************************************************************)
FreshMonitors == {[phase |-> "on", at |-> IF host = "windows" THEN "job" ELSE "loop", root |-> TRUE, live |-> {}, born |-> 0, known |-> {},
                   taken |-> {}, before |-> FALSE, events |-> <<>>, stopped |-> FALSE, polls |-> 0, handles |-> {}, queue |-> <<>>,
                   pump |-> FALSE, result |-> "none"]}
Mon(r) == mon' = r /\ Others("descend")
Event(t, p) == [t |-> t, pid |-> p]
Notes(m, ms) == IF host = "windows" /\ "assigned" \in m.handles /\ "port" \in m.handles THEN [m EXCEPT !.queue = @ \o ms] ELSE m
Empty(m) == ~m.root /\ m.live = {}

TreeForks(up, pid) ==
    /\ facet = "descend" /\ mon.born < MaxProcesses /\ pid \notin {p.pid : p \in mon.live}
    /\ IF up = 0 THEN mon.root ELSE up \in {p.i : p \in mon.live}
    /\ host = "windows" => "assigned" \in mon.handles
    /\ Mon(Notes([mon EXCEPT !.live = @ \cup {[i |-> mon.born + 1, pid |-> pid, up |-> up]}, !.born = @ + 1], <<Event("new", pid)>>))
\* An orphan is adopted outside the root's tree.
Orphaned(live, i) == {[p EXCEPT !.up = IF p.up = i THEN -1 ELSE @] : p \in live}
ZeroNote(m) == IF Empty(m) THEN <<Event("zero", 0)>> ELSE <<>>
TreeExits(p) ==
    /\ facet = "descend"
    /\ LET m == [mon EXCEPT !.live = Orphaned(@ \ {p}, p.i)] IN Mon(Notes(m, <<Event("exit", p.pid)>> \o ZeroNote(m)))
RootEnds ==
    /\ facet = "descend" /\ mon.root
    /\ LET m == [mon EXCEPT !.root = FALSE, !.live = Orphaned(@, 0)] IN Mon(Notes(m, <<Event("exit", 0)>> \o ZeroNote(m)))
DescendantMonitorStop_stop ==
    /\ facet = "descend" /\ host # "windows" /\ ~mon.stopped
    /\ Mon([mon EXCEPT !.stopped = TRUE])

Completed(m) == [m EXCEPT !.events = Append(@, Event("completed", 0)), !.at = "done"]
pump_loop ==
    /\ facet = "descend" /\ mon.at = "loop"
    /\ Mon(IF mon.stopped THEN Completed(mon)
           ELSE [mon EXCEPT !.at = "walk", !.before = mon.root])
\* A poll interval or a kernel hint ends the wait, or the stop does.
wait_for_hint ==
    /\ facet = "descend" /\ mon.at = "wait" /\ mon.polls < MaxPolls
    /\ Mon(IF mon.stopped THEN Completed(mon) ELSE [mon EXCEPT !.at = "loop", !.polls = @ + 1])
Reached(m) == LET one == {p \in m.live : p.up = 0} IN one \cup {p \in m.live : p.up \in {q.i : q \in one}}
descendants_of ==
    /\ facet = "descend" /\ mon.at = "walk"
    /\ Mon([mon EXCEPT !.taken = Reached(mon), !.at = "verify"])
Key(p) == IF host = "linux" THEN p.pid ELSE p.i
Missing(from, in) == {p \in from : Key(p) \notin {Key(q) : q \in in}}
EventsOf(t, ps) == LET s == SetToSeq(ps) IN [k \in 1 .. Len(s) |-> Event(t, s[k].pid)]
emit_diff(m) == [m EXCEPT !.events = @ \o EventsOf("started", Missing(m.taken, m.known)) \o EventsOf("exited", Missing(m.known, m.taken)),
                          !.known = m.taken, !.taken = {}, !.at = "wait"]
RootVanished(m) == Completed([m EXCEPT !.events = @ \o EventsOf("exited", m.known), !.known = {}, !.stopped = @ \/ host = "macos"])
verified_snapshot ==
    /\ facet = "descend" /\ mon.at = "verify"
    /\ Mon(IF mon.before /\ mon.root THEN emit_diff(mon) ELSE RootVanished(mon))

JobFails(m) == [m EXCEPT !.handles = {}, !.result = "Err", !.at = "done"]
\* The port is attached before the assignment: no first notification is lost.
assign_child_to_windows_job(ok) ==
    /\ facet = "descend" /\ mon.at \in {"job", "limits", "port", "assign"}
    /\ Mon(IF ~ok THEN JobFails(mon)
           ELSE CASE mon.at = "job" -> [mon EXCEPT !.handles = {"job"}, !.at = "limits"]
                  [] mon.at = "limits" -> [mon EXCEPT !.at = "port"]
                  [] mon.at = "port" -> [mon EXCEPT !.handles = @ \cup {"port"}, !.pump = TRUE, !.at = "assign"]
                  [] OTHER -> LET m == [mon EXCEPT !.handles = @ \cup {"assigned"}, !.result = "Ok", !.at = "done"]
                              IN  IF mon.root THEN Notes(m, <<Event("new", 0)>>) ELSE m)
Hear(m) == LET e == Head(m.queue)
           IN  CASE e.t = "zero" -> [m EXCEPT !.events = Append(@, Event("completed", 0)), !.pump = FALSE, !.queue = Tail(@)]
                 [] e.pid = 0 -> [m EXCEPT !.queue = Tail(@)]
                 [] e.t = "new" -> [m EXCEPT !.events = Append(@, Event("started", e.pid)), !.queue = Tail(@)]
                 [] OTHER -> [m EXCEPT !.events = Append(@, Event("exited", e.pid)), !.queue = Tail(@)]
iocp_pump_loop ==
    /\ facet = "descend" /\ mon.pump
    /\ IF "port" \in mon.handles THEN mon.queue # <<>> /\ Mon(Hear(mon))
       ELSE Mon([mon EXCEPT !.events = Append(@, Event("completed", 0)), !.pump = FALSE])
\* Dropping the handle closes the job, which ends the tree, then the port.
WindowsJobHandle_drop ==
    /\ facet = "descend" /\ mon.result = "Ok" /\ "job" \in mon.handles
    /\ Mon([mon EXCEPT !.handles = {}, !.live = {}, !.root = FALSE, !.queue = <<>>, !.stopped = TRUE])
DescendNext == (\E up \in 0 .. MaxProcesses, pid \in 1 .. 2 : TreeForks(up, pid)) \/ (facet = "descend" /\ \E p \in mon.live : TreeExits(p))
               \/ RootEnds \/ DescendantMonitorStop_stop \/ pump_loop \/ wait_for_hint \/ descendants_of \/ verified_snapshot
               \/ (\E ok \in BOOLEAN : assign_child_to_windows_job(ok)) \/ iocp_pump_loop \/ WindowsJobHandle_drop

(***************************************************************************)
(* The asynchronous spawn.  The substrate that runs the child is external: *)
(* a start fails or leaves a child, a bounded run owns its child.          *)
(***************************************************************************)
FreshSpecs == {[phase |-> "on", kind |-> k, owner |-> o, gone |-> g, admission |-> a, band |-> b, policy |-> p, refuse |-> r, at |-> "begin",
                attempts |-> 0, watch |-> "none", child |-> "none", pid |-> FALSE, result |-> "none", calls |-> 0] :
                  k \in {"child", "session", "bounded"}, o \in {"none", "spawner", "process"}, g \in BOOLEAN, a \in BOOLEAN, b \in BOOLEAN,
                  p \in {"Required", "BestEffort"}, r \in {"band", "program", "none"}}
Adp(r) == adp' = r /\ Others("adapter")
AdapterFails(a) == [a EXCEPT !.at = "end", !.result = "Err", !.watch = "none"]

\* A bounded run has no place for a watcher and no hook for an admission.
run_bounded(a) == IF a.owner = "process" \/ a.admission THEN AdapterFails(a) ELSE [a EXCEPT !.at = "start"]
\* The owner's exit is subscribed to before there is a child.
open_owner_watch(a) ==
    IF a.owner # "process" THEN [a EXCEPT !.at = "start"]
    ELSE IF a.gone THEN AdapterFails(a) ELSE [a EXCEPT !.at = "start", !.watch = "open"]
AdapterBegins ==
    /\ facet = "adapter" /\ adp.at = "begin"
    /\ Adp(IF adp.kind = "bounded" THEN run_bounded(adp) ELSE open_owner_watch(adp))
priority_fallback(a) == a.policy = "BestEffort" /\ a.band
priority_refused(error) == error = "denied"
Retries(a, error) == priority_fallback(a) /\ priority_refused(error)
StartErrors(a) == IF a.refuse = "program" \/ (a.refuse = "band" /\ a.band) THEN {"denied"} ELSE {"none", "other"}
AdapterStarts(error) ==
    /\ facet = "adapter" /\ adp.at = "start" /\ error \in StartErrors(adp)
    /\ LET a == [adp EXCEPT !.attempts = @ + 1]
       IN  Adp(IF error = "none" THEN [a EXCEPT !.child = "run", !.at = "bind"]
               ELSE IF Retries(a, error) THEN [a EXCEPT !.band = FALSE, !.policy = "Required"]
               ELSE AdapterFails(a))
bind_lifetime ==
    /\ facet = "adapter" /\ adp.at = "bind"
    /\ Adp(IF adp.kind = "bounded" THEN [adp EXCEPT !.child = "reaped", !.at = "end", !.result = "Ok"]
           ELSE [adp EXCEPT !.at = "held", !.pid = TRUE, !.result = "Ok", !.watch = IF @ = "open" THEN "task" ELSE @])
\* wait, kill and a capture that ran to its end or its limit leave no child.
AdapterEndsChild(ok) ==
    /\ facet = "adapter" /\ adp.at = "held" /\ adp.kind = "child" /\ adp.calls < MaxCalls
    /\ Adp(IF ok THEN [adp EXCEPT !.child = "reaped", !.pid = FALSE, !.watch = "none", !.calls = @ + 1] ELSE [adp EXCEPT !.calls = @ + 1])
\* A session keeps its number: it is held on while the output drains.
SessionEndsChild(ok) ==
    /\ facet = "adapter" /\ adp.at = "held" /\ adp.kind = "session" /\ adp.calls < MaxCalls
    /\ Adp(IF ok THEN [adp EXCEPT !.child = "reaped", !.watch = "none", !.calls = @ + 1] ELSE [adp EXCEPT !.calls = @ + 1])
AdapterNext == AdapterBegins \/ bind_lifetime \/ (\E e \in {"none", "other", "denied"} : AdapterStarts(e))
               \/ (\E ok \in BOOLEAN : AdapterEndsChild(ok) \/ SessionEndsChild(ok))

(***************************************************************************)
(* Pure functions.                                                         *)
(***************************************************************************)
\* Environments: a name is a letter and its case; Windows folds the case.
Names == {[letter |-> "p", upper |-> u] : u \in BOOLEAN}
upper_key(n) == IF host = "windows" THEN [n EXCEPT !.upper = TRUE] ELSE n
Put(env, n, v) == {e \in env : upper_key(e.name) # upper_key(n)} \cup (IF v = "none" THEN {} ELSE {[name |-> n, v |-> v]})
AllOf(env, edits) == FoldLeft(LAMBDA e, edit : Put(e, edit.name, edit.v), env, edits)
apply_environment(base, edits) == AllOf(AllOf({}, base), edits)
\* What the child should see for a name: its last edit, else its last base entry.
Expected(base, edits, n) ==
    LET last == SelectSeq(base \o edits, LAMBDA e : upper_key(e.name) = upper_key(n))
    IN  IF last = <<>> THEN "none" ELSE Last(last).v

\* quote: characters "a", "s" (space), "q" (quote), "b" (backslash).
Repeat(c, n) == [k \in 1 .. n |-> c]
quote(arg) ==
    IF arg # <<>> /\ \A k \in DOMAIN arg : arg[k] \notin {"s", "q"} THEN arg
    ELSE LET step(acc, c) == IF c = "b" THEN [acc EXCEPT !.n = @ + 1]
                             ELSE [out |-> acc.out \o Repeat("b", IF c = "q" THEN 2 * acc.n + 1 ELSE acc.n) \o <<c>>, n |-> 0]
             end == FoldLeft(step, [out |-> <<"q">>, n |-> 0], arg)
         IN  end.out \o Repeat("b", 2 * end.n) \o <<"q">>
JoinWords(ws) == FoldLeft(LAMBDA acc, w : IF acc = <<"none">> THEN w ELSE acc \o <<"s">> \o w, <<"none">>, ws)
\* cmd.exe: everything after /C or /K is one script inside one pair of quotes.
is_cmd_script_switch(w) == w = <<"c">>
build_command_line(isCmd, args) ==
    LET k == IF isCmd /\ (\E j \in DOMAIN args : is_cmd_script_switch(args[j]))
             THEN CHOOSE j \in DOMAIN args : is_cmd_script_switch(args[j]) /\ \A m \in 1 .. j - 1 : ~is_cmd_script_switch(args[m]) ELSE 0
        head == [j \in 1 .. (IF k = 0 THEN Len(args) ELSE k - 1) |-> quote(args[j])]
        script == IF k = 0 \/ k = Len(args) THEN <<>> ELSE JoinWords(SubSeq(args, k + 1, Len(args)))
    IN  head \o (IF k = 0 THEN <<>> ELSE <<args[k]>>) \o (IF script = <<>> THEN <<>> ELSE << <<"q">> \o script \o <<"q">> >>)
\* The C runtime's rule for splitting a command line back into arguments.
CrtSplit(line) ==
    LET flush(acc) == [acc EXCEPT !.words = IF acc.open THEN Append(@, acc.word) ELSE @, !.word = <<>>, !.open = FALSE]
        settle(acc, c) == IF c = "q" THEN [acc EXCEPT !.word = @ \o Repeat("b", acc.n \div 2), !.n = 0]
                          ELSE [acc EXCEPT !.word = @ \o Repeat("b", acc.n), !.n = 0]
        step(acc, c) ==
            IF c = "b" THEN [acc EXCEPT !.n = @ + 1, !.open = TRUE]
            ELSE LET a == settle(acc, c)
                 IN  IF c = "q" THEN (IF acc.n % 2 = 1 THEN [a EXCEPT !.word = Append(@, "q")] ELSE [a EXCEPT !.quoted = ~@, !.open = TRUE])
                     ELSE IF c = "s" /\ ~a.quoted THEN flush(a) ELSE [a EXCEPT !.word = Append(@, c), !.open = TRUE]
        all == FoldLeft(step, [words |-> <<>>, word |-> <<>>, n |-> 0, quoted |-> FALSE, open |-> FALSE], line)
    IN  flush(settle(all, "a")).words

\* Scheduling bands and what the Windows launch makes of them.
substrate_nice(p) ==
    LET scale == IF host = "windows" THEN <<-15, 1, 15>> ELSE <<-5, 10, 19>>
    IN  CASE p = "High" -> scale[1] [] p = "Low" -> scale[2] [] p = "Idle" -> scale[3] [] OTHER -> 0
PriorityClass(nice) == CASE nice >= 15 -> "IDLE" [] nice >= 1 -> "BELOW_NORMAL" [] nice <= -15 -> "HIGH" [] nice <= -1 -> "ABOVE_NORMAL"
                         [] OTHER -> "none"
ConsoleOpinions == {"NO_WINDOW", "NEW_CONSOLE", "DETACHED"}
configure_process_command(caller, group, console, nice) ==
    caller \cup (IF group THEN {"NEW_GROUP"} ELSE {}) \cup (IF caller \cap ConsoleOpinions # {} \/ console THEN {} ELSE {"NO_WINDOW"})
    \cup ({PriorityClass(nice)} \ {"none"})
daemon_creation_flags(base, breakaway) == base \cup {"DETACHED", "NEW_GROUP"} \cup IF breakaway THEN {"BREAKAWAY"} ELSE {}
\* Exit statuses: a code, or a signal.
exit_code(s) == IF s.signal = 0 THEN s.code ELSE -s.signal
\* Stands for 2^32, which TLC's own integers do not reach.
Radix == 2 ^ 16
Unset == -1
trampoline_exit_code(s) == IF s.signal = 0 THEN s.code ELSE 128 + s.signal

\* A session keeps the host's status word: Unix code * 256 + signal, Windows the DWORD.
native_exit(s) == [signal |-> s.signal, word |-> IF host = "windows" THEN s.code % Radix ELSE s.code * 256 + s.signal]
process_exit_status_from_native(word) ==
    IF host = "windows" THEN [code |-> IF word >= Radix \div 2 THEN word - Radix ELSE word, signal |-> 0]
    ELSE [code |-> word \div 256, signal |-> word % 128]

\* A number names one process only when its signed reading is positive.
I32Max == Radix \div 2 - 1
ProcessId_new(n) == n # 0 /\ n <= I32Max
native_signed(n) == IF n > I32Max THEN n - Radix ELSE n
\* Limits of the strict job: none, zero or a value; SIZE_T ends at `Radix`.
job_configuration(l) ==
    IF l.active = 0 THEN "ZeroActiveProcesses" ELSE IF l.process = 0 THEN "ZeroProcessMemory"
    ELSE IF l.process >= Radix THEN "ProcessMemoryTooLarge" ELSE IF l.job = 0 THEN "ZeroJobMemory" ELSE IF l.job >= Radix THEN "JobMemoryTooLarge" ELSE "ok"
JobLimitFlags(l) == create_strict_worker_job \cup (IF l.active = Unset THEN {} ELSE {"ACTIVE_PROCESS"})
                    \cup (IF l.process = Unset THEN {} ELSE {"PROCESS_MEMORY"}) \cup (IF l.job = Unset THEN {} ELSE {"JOB_MEMORY"})

\* The substrate's errors as the three facades report them.
ProcessErrors == {"Spawn", "Io", "AlreadyStarted", "NotRunning", "RuntimeContext", "StdinUnavailable", "Timeout", "OutputLimitExceeded"}
process_error_to_io(e) == CASE e \in {"Spawn", "Io"} -> "host" [] e = "AlreadyStarted" -> "AlreadyExists" [] e \in {"NotRunning", "StdinUnavailable"} -> "BrokenPipe"
                            [] e = "RuntimeContext" -> "Other" [] e = "Timeout" -> "TimedOut" [] OTHER -> "FileTooLarge"
process_capture_error(e) == IF e = "OutputLimitExceeded" THEN e ELSE process_error_to_io(e)
bounded_process_error(e) == CASE e = "Timeout" -> "TimedOut" [] e \in {"OutputLimitExceeded", "Spawn"} -> e [] OTHER -> process_error_to_io(e)

\* /proc/<pid>/stat: the name may hold parentheses; fields follow the last one.
LastParen(stat) == IF ")" \in ToSet(stat) THEN Len(stat) + 1 - SelectInSeq(Reverse(stat), LAMBDA t : t = ")") ELSE 0
parse_proc_stat(stat) ==
    LET suffix == SubSeq(stat, LastParen(stat) + 1, Len(stat))
    IN  IF LastParen(stat) = 0 \/ Len(suffix) < 3 THEN "none" ELSE suffix[2] \o suffix[3]

\* Resident memory of a tree: each process once, at most `most` of them.
TreeRss(edges, rss, root, most) ==
    LET step(acc, e) == IF e[1] \notin acc.seen \/ Cardinality(acc.seen) >= most \/ e[2] \in acc.seen THEN acc
                        ELSE [seen |-> acc.seen \cup {e[2]}, total |-> acc.total + rss[e[2]]]
    IN  FoldLeft(step, [seen |-> {root}, total |-> rss[root]], edges)

Words == {<<>>, <<"a">>, <<"b">>, <<"q">>, <<"s">>, <<"a", "b">>, <<"b", "q">>, <<"s", "b">>, <<"b", "b", "q">>, <<"q", "b", "s">>}
Edits == {<<>>} \cup {<<[name |-> n, v |-> v]>> : n \in Names, v \in {"x", "y", "none"}}
Bases == {<<>>} \cup {<<[name |-> n, v |-> v]>> : n \in Names, v \in {"x", "y"}}
FreshValues ==
    [phase : {"env"}, base : {s \o t : s \in Bases, t \in Bases}, edits : {s \o t : s \in Edits, t \in Edits}]
    \cup [phase : {"line"}, args : {<<u, v>> : u \in Words, v \in Words}]
    \cup [phase : {"cmd"}, args : {<<u, <<"c">>, v, w>> : u \in {<<"a">>, <<"s">>}, v \in Words, w \in Words} \cup {<< <<"c">> >>}]
    \cup [phase : {"flags"}, caller : SUBSET {"NEW_CONSOLE", "DETACHED"}, group : BOOLEAN, console : BOOLEAN, band : {"High", "Normal", "Low", "Idle"}]
    \cup [phase : {"native"}, code : {0, 1, 255}, signal : {0, 9, 15}]
    \cup [phase : {"dword"}, code : {0, 1, 255, 256, -1, -(Radix \div 2)}]
    \cup [phase : {"pid"}, n : {0, 1, I32Max, I32Max + 1, Radix - 1}]
    \cup [phase : {"limits"}, active : {Unset, 0, 1}, process : {Unset, 0, 1, Radix}, job : {Unset, 0, 1, Radix}]
    \cup [phase : {"error"}, e : ProcessErrors]
    \cup [phase : {"exit"}, code : {0, 1, 3}, signal : {0, 9, 15}]
    \cup [phase : {"stat"}, comm : {<<"n">>, <<"n", ")">>, <<")", "n", ")", "s">>}, tail : {<<>>, <<"S", "7">>, <<"S", "7", "9">>}]
    \cup [phase : {"rss"}, edges : {<< <<1, 2>>, <<1, 3>>, <<2, 3>> >>, << <<1, 2>>, <<2, 4>> >>, <<>>}, cap : {1, 2, 4}]

Init ==
    /\ facet \in {"group", "win", "capture", "owner", "descend", "adapter", "value"}
    /\ host \in CASE facet = "win" -> {"windows"} [] facet \in {"group", "owner"} -> {"linux", "macos"} [] facet = "adapter" -> {"linux"}
                  [] OTHER -> {"linux", "macos", "windows"}
    /\ grp \in IF facet = "group" THEN FreshGroups ELSE {Off}
    /\ win \in IF facet = "win" THEN ConsistentLaunches ELSE {Off}
    /\ cap \in IF facet = "capture" THEN FreshCaptures ELSE {Off}
    /\ own \in IF facet = "owner" THEN FreshOwners ELSE {Off}
    /\ mon \in IF facet = "descend" THEN FreshMonitors ELSE {Off}
    /\ adp \in IF facet = "adapter" THEN FreshSpecs ELSE {Off}
    /\ value \in IF facet = "value" THEN FreshValues ELSE {Off}
Next == GroupNext \/ WinNext \/ CaptureNext \/ OwnerNext \/ DescendNext \/ AdapterNext
Spec == Init /\ [][Next]_vars

\* Whoever looks first - the handle, the drain watcher, the shutdown, the background
\* reaper - the child is reaped exactly once, and a dropped handle never leaves a child
\* that nobody will reap or, unless a worker's end was only observed, a running group
\* member that nobody has signalled (SpawnedInner, WorkerChild, UnixWorkerControl).
ChildIsReapedOnce ==
    facet = "group" =>
        /\ grp.reaps <= 1 /\ (grp.reaps = 1 <=> grp.root = "gone")
        /\ grp.at = "end" => grp.root = "gone" \/ (grp.child = "reaper" /\ (grp.root = "zombie" \/ "root" \in grp.doomed))
        /\ (grp.at = "end" /\ (grp.kind = "spawned" \/ grp.forced)) => grp.kid \in {"none", "gone"} \/ "kid" \in grp.doomed
        /\ grp.watcher = "drain" => grp.root = "gone"

\* A Windows child only ever runs inside its kill-on-close job; a launch that fails at
\* any step keeps no handle and leaves no running child; a dropped handle leaves no
\* member of the job running; a strict worker reported as reaped is dead, its tree cannot
\* leave the job, and a failed reap keeps the handle it needs for the next attempt.
WindowsLaunchIsContained ==
    facet = "win" =>
        /\ win.kind # "daemon" /\ win.child = "run" => win.inJob
        /\ win.result = "Err" => win.handles = {} /\ win.child \in {"none", "dying", "dead"}
        /\ win.at = "dropped" => /\ win.handles \subseteq {"dup"}
                                 /\ win.kind # "daemon" => ~Alive(win.child) /\ (Alive(win.kid) => win.out)
        /\ win.contained => win.child = "dead"
        /\ win.out => win.kind = "sync"
        /\ win.at = "owned" /\ win.kind = "strict" /\ ~win.contained => "process" \in win.handles
        /\ win.at \notin {"update", "create"} => "attr" \notin win.handles
        /\ win.at = "owned" /\ win.kind = "daemon" => (win.escaped <=> win.breakaway /\ win.outer = "permits")

\* Once a cancellation ran against a prepared reader, the reader delivers no more bytes
\* and never blocks again; a worker whose owner died before it was contained never runs
\* the program, one that runs dies with its owner, and the macOS supervisor signals no
\* group but its worker's.
CancelAndOwnerDeathReach ==
    /\ facet = "capture" => /\ cap.late = 0
                            /\ cap.hit /\ cap.at = "reading" => cap.woken \/ cap.aborted
    /\ facet = "owner" => /\ own.killed \subseteq {"worker"}
                          /\ own.worker = "run" => own.leader
                          /\ own.worker = "run" /\ own.owner = "dead" => own.sup = "wait" /\ "owner" \in own.events

Count(m, t, pid, n) == Cardinality({k \in 1 .. n : m.events[k].t = t /\ m.events[k].pid = pid})
\* A descendant monitor says Completed once and last, reports an exit only after the
\* start it belongs to, and, unless it was stopped, closes every start with an exit
\* before it completes; a failed Windows assignment keeps no handle.
MonitorTellsWholeLives ==
    facet = "descend" =>
        LET n == Len(mon.events)
            over == n > 0 /\ mon.events[n].t = "completed"
        IN  /\ \A k \in 1 .. n : mon.events[k].t = "completed" => k = n
            /\ \A pid \in 1 .. 2, k \in 0 .. n : Count(mon, "exited", pid, k) <= Count(mon, "started", pid, k)
            /\ over /\ (mon.known = {} /\ (host = "windows" => ~mon.stopped)) =>
                  \A pid \in 1 .. 2 : Count(mon, "exited", pid, n) = Count(mon, "started", pid, n)
            /\ mon.at = "done" /\ host # "windows" => over
            /\ mon.result = "Err" => mon.handles = {}

\* The asynchronous spawn tries at most twice, a second time only without a band the
\* host may have refused; an error leaves neither child nor watch; the owner watch and
\* the child's number are held only while the child may still run; a bounded run is
\* never started for another owner or with an admission.
SpawnKeepsItsPromises ==
    facet = "adapter" =>
        /\ adp.attempts <= 2 /\ (adp.attempts = 2 => ~adp.band)
        /\ adp.result = "Err" => adp.child = "none" /\ adp.watch = "none"
        /\ adp.watch = "task" => adp.child = "run"
        /\ adp.pid /\ adp.kind = "child" => adp.child = "run"
        /\ adp.child # "none" /\ adp.owner = "process" => adp.kind # "bounded" /\ (adp.child = "run" /\ adp.at = "held" => adp.watch = "task")
        /\ adp.child # "none" /\ adp.kind = "bounded" => ~adp.admission

\* The child sees the last edit of every variable (Windows: whatever its case); the C
\* runtime splits a built command line back into the arguments, and cmd.exe gets its
\* script untouched inside one pair of quotes; the four priority bands stay distinct and
\* ordered; a signal never looks like a code; a parenthesis in a process name does not
\* shift the fields after it; a process is counted once in its tree's memory; an
\* accepted number signals one process; the three error facades keep timeouts, limits
\* and failed spawns apart.
SpawnValuesAgree ==
    facet = "value" =>
        CASE value.phase = "env" ->
               LET env == apply_environment(value.base, value.edits)
               IN  \A n \in Names : {e.v : e \in {f \in env : upper_key(f.name) = upper_key(n)}} = {Expected(value.base, value.edits, n)} \ {"none"}
          [] value.phase = "line" -> CrtSplit(JoinWords(build_command_line(FALSE, value.args))) = value.args
          [] value.phase = "cmd" ->
               LET line == build_command_line(TRUE, value.args)
                   script == IF Len(value.args) = 1 THEN <<>> ELSE value.args[3] \o <<"s">> \o value.args[4]
               IN  IF script = <<>> THEN line = <<value.args[1]>>
                   ELSE line = <<quote(value.args[1]), <<"c">>, <<"q">> \o script \o <<"q">> >>
          [] value.phase = "flags" ->
               LET nice == substrate_nice(value.band)
                   flags == configure_process_command(value.caller, value.group, value.console, nice)
               IN  /\ host = "windows" => PriorityClass(nice) = [High |-> "HIGH", Normal |-> "none", Low |-> "BELOW_NORMAL", Idle |-> "IDLE"][value.band]
                   /\ substrate_nice("High") < 0 /\ 0 < substrate_nice("Low") /\ substrate_nice("Low") < substrate_nice("Idle")
                   /\ "NO_WINDOW" \in flags => value.caller = {} /\ ~value.console
                   /\ value.caller \subseteq flags
                   /\ "BREAKAWAY" \notin daemon_creation_flags(value.caller, FALSE)
          [] value.phase = "exit" ->
               LET s == [code |-> value.code, signal |-> value.signal]
               IN  (exit_code(s) < 0 <=> s.signal > 0) /\ (trampoline_exit_code(s) > 128 <=> s.signal > 0)
          [] value.phase = "native" ->
               LET s == IF value.signal = 0 THEN [code |-> value.code, signal |-> 0] ELSE [code |-> 0, signal |-> value.signal]
               IN  host # "windows" => process_exit_status_from_native(native_exit(s).word) = s
          [] value.phase = "dword" ->
               host = "windows" => process_exit_status_from_native(native_exit([code |-> value.code, signal |-> 0]).word).code = value.code
          [] value.phase = "pid" -> ProcessId_new(value.n) => native_signed(value.n) > 0 /\ native_signed(value.n) = value.n
          [] value.phase = "limits" ->
               /\ job_configuration(value) = "ok" <=> \A b \in {value.active, value.process, value.job} : b = Unset \/ b \in 1 .. Radix - 1
               /\ "BREAKAWAY_OK" \notin JobLimitFlags(value) /\ "KILL_ON_JOB_CLOSE" \in JobLimitFlags(value)
          [] value.phase = "error" ->
               \A f \in ProcessErrors : /\ f # value.e /\ value.e \in {"Timeout", "OutputLimitExceeded", "Spawn"} =>
                                             bounded_process_error(f) # bounded_process_error(value.e)
                                        /\ (process_capture_error(f) = "OutputLimitExceeded") <=> (f = "OutputLimitExceeded")
          [] value.phase = "stat" ->
               parse_proc_stat(<<"1", "(">> \o value.comm \o <<")">> \o value.tail) = IF Len(value.tail) < 3 THEN "none" ELSE value.tail[2] \o value.tail[3]
          [] OTHER ->
               LET rss == <<1, 2, 4, 8>>
                   t == TreeRss(value.edges, rss, 1, value.cap)
               IN  /\ Cardinality(t.seen) <= (IF value.cap < 1 THEN 1 ELSE value.cap)
                   /\ t.total = FoldLeft(LAMBDA a, p : a + (IF p \in t.seen THEN rss[p] ELSE 0), 0, <<1, 2, 3, 4>>)
                   /\ value.cap = 4 => t.seen = {1} \cup {e[2] : e \in ToSet(value.edges)}
=============================================================================
