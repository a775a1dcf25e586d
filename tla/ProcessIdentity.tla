-------------------------- MODULE ProcessIdentity --------------------------
(***************************************************************************)
(* Process identities and the operations addressed by them:                *)
(* capture_identity, force_kill, signal_terminate, kill_tree,              *)
(* set_priority, force_terminate_process_group, ProcessLiveness and        *)
(* executable_path, on the three hosts.                                    *)
(*                                                                         *)
(* The host owns a table of process instances; a PID names whichever       *)
(* instance holds it now, and is reissued once that instance is reaped.    *)
(* An identity is a PID with a creation key, so it names one instance.     *)
(* Every native call of an operation is one step, and the host moves       *)
(* between any two of them.                                                *)
(***************************************************************************)
EXTENDS Naturals, FiniteSets

CONSTANTS
    Pids,        \* the process numbers the host issues
    Instances,   \* the processes that ever exist: 1 .. some bound
    MaxDepth     \* bound on the depth of a process tree

VARIABLES
    host,      \* which implementation is compiled in
    at,        \* PID -> the instance that holds it, 0 for none
    st,        \* instance -> "unborn", "run", "zombie" (exited, not reaped), "gone";
               \* "odd" is a Windows zombie whose exit code is STILL_ACTIVE
    killed,    \* instances a fatal signal is pending for
    pidOf,     \* instance -> its PID
    parent,    \* instance -> its parent: 0 for this process, itself for an orphan
    handles,   \* instances a handle of this process keeps in the table (Windows)
    call,      \* the operation under way
    live,      \* the ProcessLiveness handle: [inst, pinned, wait, key], inst 0 for none
    strays     \* history: <<what, identity it was meant for, other instance it reached>>

vars == <<host, at, st, killed, pidOf, parent, handles, call, live, strays>>

Hosts == {"linux", "macos", "windows"}

Idle == [op |-> "idle", pc |-> "start", id |-> 0, fd |-> 0, snap |-> {}, seen |-> {},
         targets |-> {}, todo |-> {}, end |-> "none"]

NoHandle == [inst |-> 0, pinned |-> FALSE, wait |-> FALSE, key |-> 0]

Init == /\ host \in Hosts
        /\ at = [p \in Pids |-> 0]
        /\ st = [i \in Instances |-> "unborn"]
        /\ killed = {}
        /\ pidOf = [i \in Instances |-> CHOOSE p \in Pids : TRUE]
        /\ parent = [i \in Instances |-> 0]
        /\ handles = {}
        /\ call = Idle
        /\ live = NoHandle
        /\ strays = {}

Running == {i \in Instances : st[i] = "run"}

HasParent(i) == parent[i] \notin {0, i}

Depth(i) == IF ~HasParent(i) THEN 0 ELSE IF ~HasParent(parent[i]) THEN 1 ELSE 2

\* A native call made for identity `meant` took effect on instance `reached`.
Reaches(what, meant, reached) ==
    strays' = IF meant = reached THEN strays ELSE strays \cup {<<what, meant, reached>>}

(***************************************************************************)
(* The host.                                                               *)
(***************************************************************************)
\* A process starts under a free PID; instances are born in order, so a
\* creation key is never issued twice.
Start(i, p) == /\ st[i] = "unborn"
               /\ \A j \in Instances : j < i => st[j] # "unborn"
               /\ at[p] = 0
               /\ at' = [at EXCEPT ![p] = i]
               /\ st' = [st EXCEPT ![i] = "run"]
               /\ pidOf' = [pidOf EXCEPT ![i] = p]
               /\ \E q \in {j \in Running \ killed : Depth(j) < MaxDepth} \cup {0} :
                     parent' = [parent EXCEPT ![i] = q]
               /\ UNCHANGED <<host, killed, handles, call, live, strays>>

\* The children of a process that ends are orphans.
Exit(i) == /\ st[i] = "run"
           /\ \E end \in {"zombie", "odd"} :
                 /\ end = "odd" => host = "windows"
                 /\ st' = [st EXCEPT ![i] = end]
           /\ killed' = killed \ {i}
           /\ parent' = [j \in Instances |-> IF parent[j] = i THEN j ELSE parent[j]]
           /\ UNCHANGED <<host, at, pidOf, handles, call, live, strays>>

\* The PID is free for reuse; a Windows handle keeps the instance in the table.
Reap(i) == /\ st[i] \in {"zombie", "odd"}
           /\ host = "windows" => i \notin handles /\ live.inst # i
           /\ st' = [st EXCEPT ![i] = "gone"]
           /\ at' = [at EXCEPT ![pidOf[i]] = 0]
           /\ UNCHANGED <<host, killed, pidOf, parent, handles, call, live, strays>>

Host == \E i \in Instances : Exit(i) \/ Reap(i) \/ \E p \in Pids : Start(i, p)

(***************************************************************************)
(* capture_process_identity: the PID's current instance, or 0 when it has  *)
(* none.                                                                   *)
(***************************************************************************)
Captured(p) == at[p]

CapturedMacos(p) == at[p]

CapturedWindows(p) == at[p]

Capture(p) == IF host = "linux" THEN Captured(p)
              ELSE IF host = "macos" THEN CapturedMacos(p) ELSE CapturedWindows(p)

\* A caller captures an identity and later starts an operation on it.
Begin(op, p) == /\ call.op = "idle"
                /\ Capture(p) # 0
                /\ call' = [Idle EXCEPT !.op = op, !.id = Capture(p)]
                /\ UNCHANGED <<host, at, st, killed, pidOf, parent, handles, live, strays>>

Done(end) == call' = [call EXCEPT !.pc = "done", !.end = end, !.fd = 0, !.snap = {}, !.seen = {}]

\* Back to the caller: the result has been looked at.
Return == /\ call.pc = "done"
          /\ call' = Idle
          /\ UNCHANGED <<host, at, st, killed, pidOf, parent, handles, live, strays>>

(***************************************************************************)
(* One signal to one identity. "fd" is the instance the native handle      *)
(* pins. kill_tree sends to call.todo; the other operations to call.id.    *)
(***************************************************************************)
Target == IF call.op = "tree" /\ call.todo # {}
          THEN CHOOSE t \in call.todo : \A u \in call.todo : u[2] <= t[2]
          ELSE <<call.id, 0>>

\* What a signalling operation does with the outcome of one attempt. kill_tree
\* passes an error on at once (`signal(*target)?`) and otherwise takes the
\* next target.
Attempted(outcome) ==
    IF call.op = "tree" /\ outcome \in {"performed", "exited"}
    THEN call' = [call EXCEPT !.fd = 0, !.todo = @ \ {Target},
                              !.pc = IF call.todo = {Target} THEN "round" ELSE "signal"]
    ELSE Done(outcome)

Signalling == \/ call.op \in {"kill", "term"} /\ call.pc = "start"
              \/ call.op = "tree" /\ call.pc = "signal"

\* signal_identity on Linux: pidfd_open pins whatever holds the PID now.
OpenPidfd == LET i == at[pidOf[Target[1]]] IN
    /\ host = "linux"
    /\ Signalling
    /\ IF i = 0 THEN Attempted("exited") ELSE call' = [call EXCEPT !.fd = i, !.pc = "check"]
    /\ UNCHANGED <<host, at, st, killed, pidOf, parent, handles, live, strays>>


\* ... the generation is checked again once the descriptor is open ...
CheckGeneration == LET now == Capture(pidOf[Target[1]]) IN
    /\ host = "linux"
    /\ call.pc = "check"
    /\ CASE now = Target[1] -> call' = [call EXCEPT !.pc = "send"]
         [] now = 0 -> Attempted("exited")
         [] OTHER -> Attempted("stale")
    /\ UNCHANGED <<host, at, st, killed, pidOf, parent, handles, live, strays>>

\* ... and pidfd_send_signal reaches the pinned instance.
SendSignal == LET i == call.fd IN
    /\ host = "linux"
    /\ call.pc = "send"
    /\ Attempted(IF st[i] = "gone" THEN "exited" ELSE "performed")
    /\ IF st[i] = "run" THEN Reaches("signal", Target[1], i) ELSE UNCHANGED strays
    /\ killed' = IF st[i] = "run" /\ call.op # "term" THEN killed \cup {i} ELSE killed
    /\ UNCHANGED <<host, at, st, pidOf, parent, handles, live>>

\* Windows queries and terminates through one handle, which pins the instance.
OpenProcess == LET i == at[pidOf[Target[1]]] IN
    /\ host = "windows"
    /\ Signalling
    /\ call.op # "term"
    /\ IF i = 0 THEN Attempted("exited") /\ UNCHANGED handles
       ELSE /\ call' = [call EXCEPT !.fd = i, !.pc = "handle"]
            /\ handles' = handles \cup {i}
    /\ UNCHANGED <<host, at, st, killed, pidOf, parent, live, strays>>

TerminateProcess == LET i == call.fd IN
    /\ host = "windows"
    /\ call.pc = "handle"
    /\ handles' = handles \ {i}
    /\ CASE i # Target[1] -> Attempted("stale") /\ UNCHANGED <<killed, strays>>
         [] i = Target[1] /\ st[i] = "run" -> /\ Attempted("performed")
                                             /\ killed' = killed \cup {i}
                                             /\ Reaches("signal", Target[1], i)
         [] OTHER -> Attempted("host") /\ UNCHANGED <<killed, strays>>
    /\ UNCHANGED <<host, at, st, pidOf, parent, live>>

\* macOS has no signalable lifetime handle and refuses; Windows refuses the
\* graceful form.
Refuse ==
    /\ Signalling
    /\ host = "macos" \/ (host = "windows" /\ call.op = "term")
    /\ Attempted("unsupported")
    /\ UNCHANGED <<host, at, st, killed, pidOf, parent, handles, live, strays>>

(***************************************************************************)
(* kill_tree.                                                              *)
(***************************************************************************)
TreeRoot == LET now == Capture(pidOf[call.id]) IN
    /\ call.op = "tree" /\ call.pc = "start"
    /\ CASE now = call.id -> call' = [call EXCEPT !.pc = "snapshot"]
         [] now = 0 -> Done("none left")
         [] OTHER -> Done("stale")
    /\ UNCHANGED <<host, at, st, killed, pidOf, parent, handles, live, strays>>

\* System::refresh_processes: the table as <<PID, parent's PID>> pairs.
TreeSnapshot ==
    /\ call.pc = "snapshot"
    /\ call' = [call EXCEPT !.pc = "collect", !.targets = {<<call.id, 0>>},
            !.seen = {<<pidOf[call.id], 0>>},
            !.snap = {<<pidOf[i], pidOf[parent[i]]>> :
                          i \in {j \in Instances : st[j] \notin {"unborn", "gone"} /\ HasParent(j)}}]
    /\ UNCHANGED <<host, at, st, killed, pidOf, parent, handles, live, strays>>

\* collect_descendants: one more PID of the snapshot whose parent's PID was
\* followed, captured now.
TreeCollect ==
    /\ call.pc = "collect"
    /\ \E e \in call.snap, s \in call.seen :
          LET i == Capture(e[1]) IN
          /\ e[2] = s[1]
          /\ call' = [call EXCEPT !.snap = @ \ {e},
                !.seen = IF i = 0 THEN @ ELSE @ \cup {<<e[1], s[2] + 1>>},
                !.targets = IF i = 0 THEN @ ELSE @ \cup {<<i, s[2] + 1>>}]
    /\ UNCHANGED <<host, at, st, killed, pidOf, parent, handles, live, strays>>

TreeCollected ==
    /\ call.pc = "collect"
    /\ \A e \in call.snap, s \in call.seen : e[2] # s[1]
    /\ call' = [call EXCEPT !.pc = "signal", !.todo = call.targets, !.snap = {}, !.seen = {}]
    /\ UNCHANGED <<host, at, st, killed, pidOf, parent, handles, live, strays>>

TargetsLeft == {t \in call.targets : Capture(pidOf[t[1]]) = t[1]}

\* The end of a round: the timeout may have passed; otherwise another round,
\* unless no target is in the table any more.
TreeRound ==
    /\ call.pc = "round"
    /\ \/ Done("timed out")
       \/ TargetsLeft = {} /\ Done("all gone")
       \/ TargetsLeft # {} /\ call' = [call EXCEPT !.pc = "signal", !.todo = call.targets]
    /\ UNCHANGED <<host, at, st, killed, pidOf, parent, handles, live, strays>>

(***************************************************************************)
(* set_priority: on Unix the generation is checked, then the number is     *)
(* used; Windows holds one handle across both.                             *)
(***************************************************************************)
PriorityChecks == LET now == Capture(pidOf[call.id]) IN
    /\ call.op = "priority" /\ call.pc = "start" /\ host # "windows"
    /\ CASE now = call.id -> call' = [call EXCEPT !.pc = "set"]
         [] now = 0 -> Done("exited")
         [] OTHER -> Done("stale")
    /\ UNCHANGED <<host, at, st, killed, pidOf, parent, handles, live, strays>>

PrioritySets == LET i == at[pidOf[call.id]] IN
    /\ call.op = "priority" /\ call.pc = "set"
    /\ Done(IF i = 0 THEN "exited" ELSE "performed")
    /\ IF i = 0 THEN UNCHANGED strays ELSE Reaches("priority", call.id, i)
    /\ UNCHANGED <<host, at, st, killed, pidOf, parent, handles, live>>

PriorityThroughHandle == LET i == at[pidOf[call.id]] IN
    /\ call.op = "priority" /\ call.pc = "start" /\ host = "windows"
    /\ CASE i = 0 -> Done("exited") /\ UNCHANGED strays
         [] i # 0 /\ i # call.id -> Done("stale") /\ UNCHANGED strays
         [] OTHER -> IF st[i] = "run"
                     THEN Done("performed") /\ Reaches("signal", call.id, i)
                     ELSE Done("exited") /\ UNCHANGED strays
    /\ UNCHANGED <<host, at, st, killed, pidOf, parent, handles, live>>

\* force_terminate_child_process_group: the proof is that the number belongs
\* to an unreaped child of this process; the group it leads is killed.
GroupKill == LET i == at[pidOf[call.id]] IN
    /\ call.op = "group" /\ call.pc = "start"
    /\ IF host # "windows" /\ i # 0 /\ parent[i] = 0
       THEN /\ Done("performed")
            /\ Reaches("group", call.id, i)
            /\ killed' = IF st[i] = "run" THEN killed \cup {i} ELSE killed
       ELSE Done("refused") /\ UNCHANGED <<killed, strays>>
    /\ UNCHANGED <<host, at, st, pidOf, parent, handles, live>>

(***************************************************************************)
(* ProcessLiveness and executable_path.                                    *)
(***************************************************************************)
\* open: a pidfd, a kqueue subscription or a handle pins the instance. Linux
\* without a usable pidfd keeps the creation key, when it could read it;
\* Windows may be refused the right to wait on the handle.
OpenLiveness(p) ==
    /\ live.inst = 0 /\ call.op = "idle"
    /\ at[p] # 0
    /\ live' \in [inst : {at[p]}, pinned : BOOLEAN, wait : BOOLEAN, key : {0, at[p]}]
    /\ ~live'.pinned => host = "linux"
    /\ live'.key # 0 => ~live'.pinned
    /\ live'.wait = (live'.pinned /\ (host = "windows" => live'.wait))
    /\ UNCHANGED <<host, at, st, killed, pidOf, parent, handles, call, strays>>

CloseLiveness == /\ live.inst # 0 /\ call.op # "image"
                 /\ live' = NoHandle
                 /\ UNCHANGED <<host, at, st, killed, pidOf, parent, handles, call, strays>>

\* What the pinned reference answers: poll of the pidfd, the subscription to
\* NOTE_EXIT with its latch, and a zero-length wait or else the exit code.
PidfdHasExited == st[live.inst] # "run"

KqueueHasExited == st[live.inst] # "run"

HandleHasExited == IF live.wait THEN st[live.inst] # "run" ELSE st[live.inst] \notin {"run", "odd"}

PinnedHasExited == CASE host = "linux" -> PidfdHasExited
                     [] host = "macos" -> KqueueHasExited
                     [] OTHER -> HandleHasExited

\* is_alive: without a pinned reference the number answers.
IsAlive == IF live.pinned THEN ~PinnedHasExited ELSE at[pidOf[live.inst]] # 0

\* has_exited: the fallback compares the creation key and sees a zombie.
HasExited == LET now == at[pidOf[live.inst]] IN
    IF live.pinned THEN PinnedHasExited
    ELSE \/ now = 0
         \/ live.key # 0 /\ (now # live.key \/ st[now] = "zombie")

\* executable_path: the image of whatever holds the number is read ...
ReadImage ==
    /\ call.op = "idle" /\ live.inst # 0
    /\ call' = [Idle EXCEPT !.op = "image", !.id = live.inst, !.fd = at[pidOf[live.inst]],
                            !.pc = "recheck"]
    /\ UNCHANGED <<host, at, st, killed, pidOf, parent, handles, live, strays>>

\* ... and handed out only if the retained reference is still alive.
RecheckLive ==
    /\ call.op = "image" /\ call.pc = "recheck"
    /\ IF IsAlive /\ live.pinned /\ call.fd # 0
       THEN Reaches("image", live.inst, call.fd) ELSE UNCHANGED strays
    /\ Done(IF ~IsAlive THEN "not found" ELSE IF call.fd = 0 THEN "host" ELSE "read")
    /\ UNCHANGED <<host, at, st, killed, pidOf, parent, handles, live>>

Ops == {"kill", "term", "tree", "priority", "group"}

Calls == \/ \E op \in Ops, p \in Pids : Begin(op, p)
         \/ OpenPidfd \/ CheckGeneration \/ SendSignal
         \/ OpenProcess \/ TerminateProcess \/ Refuse
         \/ TreeRoot \/ TreeSnapshot \/ TreeCollect \/ TreeCollected \/ TreeRound
         \/ PriorityChecks \/ PrioritySets \/ PriorityThroughHandle
         \/ GroupKill
         \/ ReadImage \/ RecheckLive
         \/ Return

Next == Host \/ Calls \/ CloseLiveness \/ \E p \in Pids : OpenLiveness(p)

Spec == Init /\ [][Next]_vars

(***************************************************************************)
(* Properties.                                                             *)
(***************************************************************************)
\* A kill, a graceful signal, a Windows priority change and the path of a
\* pinned process never land on another instance than the identity names,
\* whatever exits, is reaped and is reissued between the native calls.
SignalsReachTheirTarget == \A s \in strays : s[1] \notin {"signal", "image"}

\* kill_tree that ends because no target is left, and not for its timeout,
\* leaves no target running, whichever children the targets forked or the host
\* reparented meanwhile.
KillTreeDoneMeansDead ==
    call.op = "tree" /\ call.end = "all gone" => \A t \in call.targets : st[t[1]] # "run"

\* A liveness handle never calls a running process exited, and, with a pinned
\* reference it may wait on or a creation key, never calls an exited one
\* running, whoever was given the number since.
LivenessIsTruthful ==
    live.inst # 0 =>
        /\ HasExited => st[live.inst] # "run"
        /\ ~IsAlive => st[live.inst] # "run"
        /\ st[live.inst] # "run" /\ (live.wait \/ live.key # 0) => HasExited
=============================================================================
