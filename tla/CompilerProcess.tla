--------------------------- MODULE CompilerProcess ---------------------------
(***************************************************************************)
(* One-shot compiler grants of a sketch root: src/src/wasm/                *)
(* process_resource.rs, process_output.rs, process_output_wire.rs and      *)
(* process_scalar.rs.  A guest spends a grant on a spawn, then reads,      *)
(* waits for and closes the process; a supervisor task owns the native     *)
(* child, a producer task serves each read, wait and close, and the root's *)
(* teardown joins them all.                                                *)
(*                                                                         *)
(* One action is one critical section of the hub mutex, or one step of a   *)
(* task between two of them.  Only the part of the hub that these files    *)
(* touch is kept: a grant g and the one process it can ever start share    *)
(* the index g; OperationHub models the rest of the table.  Capacities are *)
(* counted in chunks of MAX_PROCESS_OUTPUT_CHUNK.  An import that fails    *)
(* without having changed anything is not a step.                          *)
(***************************************************************************)
EXTENDS Integers, FiniteSets

CONSTANTS Grants,         \* the compiler grants the host makes
          Joiners,        \* callers of join_process_jobs
          None,           \* Option::None
          MaxOps,         \* maximum_operations
          MaxRes,         \* maximum_resources
          MaxProcessJobs, \* MAX_PROCESS_JOBS
          MaxOutput,      \* MAX_PROCESS_OUTPUT_BYTES, in chunks
          MaxSketch,      \* blob_limits.maximum_sketch_bytes, in chunks
          MaxToken        \* operations that exist together, their producers included

NativeAllowance == 7      \* NATIVE_PROCESS_OUTPUT_ALLOWANCE, in chunks

VARIABLES closed,   \* state.closed
          failed,   \* state.process_job_failed
          grant,    \* the CompilerGrant resources
          proc,     \* the CompilerProcess resources
          ops,      \* state.operations
          native,   \* reserved_native_process_output_bytes, in chunks
          reserved, \* reserved_process_output_bytes, in chunks
          job,      \* the supervisor of each process
          held,     \* process_jobs and process_io_jobs: retained handles
          cleanup,  \* CompilerCleanup.result
          child,    \* the native child and its output pumps
          io,       \* the producer of each read, wait and close
          join,     \* the callers of join_process_jobs
          waker     \* whose waker the retained handles hold

table == <<closed, failed, grant, proc, ops, native, reserved, held>>
vars == <<closed, failed, grant, proc, ops, native, reserved, job, held,
          cleanup, child, io, join, waker>>

Option(S) == S \cup {None}

\* Cancelled, TimedOut, Closed and Rejected tell the guest why; nothing in these
\* files depends on which it is, and one value stands for them.
Terminals == {"Completed", "Ended"}

Kinds == {"spawn", "read", "wait", "close"}

\* Tokens are never reused in the code; here one is free again when neither
\* the table, a producer nor a retained handle refers to it.
Token == 1 .. MaxToken

With(f, k, v) == [x \in DOMAIN f \cup {k} |-> IF x = k THEN v ELSE f[x]]

Without(f, S) == [x \in DOMAIN f \ S |-> f[x]]

-----------------------------------------------------------------------------
(* The table: h is the record of grant, proc and ops that a critical       *)
(* section works on.                                                       *)

h == [grant |-> grant, proc |-> proc, ops |-> ops]

Install(t) == grant' = t.grant /\ proc' = t.proc /\ ops' = t.ops

Process == [at: {"absent", "reserved", "live", "gone"}, session: BOOLEAN,
            busy: BOOLEAN, bytes: 0 .. MaxOutput]

Operation == [kind: Kinds, g: Grants, terminal: Option(Terminals), ready: BOOLEAN]

\* A read or wait whose Completed result the guest has not collected yet.
Ready(t, o) == t.ops[o].kind \in {"read", "wait"} /\ t.ops[o].terminal = "Completed"

Pending(t) == {o \in DOMAIN t.ops : t.ops[o].terminal = None}

\* Removing the resource drops its CompilerProcess, whose Drop cancels the
\* supervisor: being gone is being cancelled.
Drop(t, g) == [t EXCEPT !.proc[g] = [@ EXCEPT !.at = "gone", !.session = FALSE, !.busy = FALSE]]

\* terminal_locked.  The first terminal wins, except that a revocation takes
\* an uncollected Completed read or wait back.
Terminate(t, o, terminal) ==
  IF o \notin DOMAIN t.ops \/ (o \notin Pending(t) /\ ~(Ready(t, o) /\ terminal # "Completed"))
  THEN t
  ELSE LET u == [t EXCEPT !.ops[o].terminal = terminal,
                          !.ops[o].ready = @ /\ terminal = "Completed"]
       IN IF t.ops[o].kind # "spawn" THEN u
          ELSE IF terminal = "Completed"
               THEN [u EXCEPT !.proc[t.ops[o].g].at = "live"]
               ELSE Drop(u, t.ops[o].g)

\* The operations that close_resource_with_terminal_locked ends with a process.
BorrowersOf(t, g) ==
  {o \in DOMAIN t.ops : t.ops[o].g = g /\ t.ops[o].kind \in {"read", "wait"}
                        /\ (o \in Pending(t) \/ Ready(t, o))}

CloseProcess(t, g) ==
  LET ended == BorrowersOf(t, g)
      u == Drop(t, g)
  IN IF t.proc[g].at \notin {"reserved", "live"} THEN t
     ELSE [u EXCEPT !.ops = [o \in DOMAIN t.ops |->
             IF o \in ended THEN [t.ops[o] EXCEPT !.terminal = "Ended", !.ready = FALSE]
                            ELSE t.ops[o]]]

\* Revoking a grant ends the spawn that borrows it, which drops its process.
CloseGrant(t, g) ==
  LET spawns == {o \in Pending(t) : t.ops[o].kind = "spawn" /\ t.ops[o].g = g}
      u == [t EXCEPT !.grant[g] = "gone",
                     !.ops = [o \in DOMAIN t.ops |->
                        IF o \in spawns THEN [t.ops[o] EXCEPT !.terminal = "Ended"]
                                        ELSE t.ops[o]]]
  IN IF spawns = {} THEN u ELSE Drop(u, g)

LiveProcess(t, g) == t.proc[g].at = "live"

LiveResources ==
  Cardinality({g \in Grants : grant[g] \in {"armed", "spent"}})
    + Cardinality({g \in Grants : proc[g].at \in {"reserved", "live"}})

\* transfer_capacity, of this component: what is charged to the sketch.
TransferCapacity ==
  native + reserved + Cardinality({o \in DOMAIN ops : ops[o].kind = "read" /\ ops[o].ready})

-----------------------------------------------------------------------------
Producer == [kind: {"read", "wait", "close"}, g: Grants,
             at: {"receiving", "got", "publishing", "erring", "lookup", "waiting",
                  "recheck", "reporting", "dropping", "done"},
             chunk: BOOLEAN, result: Option(Terminals)]

Stages == {"none", "begin", "spawning", "spawned", "watch", "reap", "release",
           "failing", "ok", "err"}

Over(stage) == stage \in {"ok", "err"}

TypeOK ==
  /\ closed \in BOOLEAN /\ failed \in BOOLEAN
  /\ grant \in [Grants -> {"none", "armed", "spent", "gone"}]
  /\ proc \in [Grants -> Process]
  /\ DOMAIN ops \subseteq Token /\ \A o \in DOMAIN ops : ops[o] \in Operation
  /\ native \in Nat /\ reserved \in Nat
  /\ job \in [Grants -> Stages]
  /\ held \subseteq Grants \cup Token
  /\ cleanup \in [Grants -> {"pending", "ok", "failed"}]
  /\ child \in [Grants -> [life: {"none", "running", "exited", "reaped", "lost"},
                           pump: {"none", "open", "shut", "lost"}]]
  /\ DOMAIN io \subseteq Token /\ \A o \in DOMAIN io : io[o] \in Producer
  /\ join \in [Joiners -> {"idle", "parked", "woken"}]
  /\ waker \in Option(Joiners)

Init ==
  /\ closed = FALSE /\ failed = FALSE
  /\ grant = [g \in Grants |-> "none"]
  /\ proc = [g \in Grants |-> [at |-> "absent", session |-> FALSE, busy |-> FALSE, bytes |-> 0]]
  /\ ops = [o \in {} |-> o]
  /\ native = 0 /\ reserved = 0
  /\ job = [g \in Grants |-> "none"]
  /\ held = {}
  /\ cleanup = [g \in Grants |-> "pending"]
  /\ child = [g \in Grants |-> [life |-> "none", pump |-> "none"]]
  /\ io = [o \in {} |-> o]
  /\ join = [j \in Joiners |-> "idle"]
  /\ waker = None

-----------------------------------------------------------------------------
(* Submission.  Every submit first polls the retained handles with a waker *)
(* that does nothing, drops the finished ones and remembers a failure.     *)

Finished == {x \in held : IF x \in Grants THEN Over(job[x]) ELSE io[x].at = "done"}

Failure == failed \/ \E g \in held \cap Grants : job[g] = "err"

PollJobs(by) ==
  /\ failed' = Failure
  /\ io' = Without(io, Finished)
  /\ waker' = by

IoJobs == held \ (Grants \cup Finished)

Unused == Token \ (DOMAIN ops \cup (DOMAIN io \ Finished))

CanSubmit == Cardinality(DOMAIN ops) < MaxOps /\ Unused # {}

Fresh == CHOOSE o \in Unused : \A p \in Unused : o <= p

NewOperation(kind, g) == [kind |-> kind, g |-> g, terminal |-> None, ready |-> FALSE]

GrantCompiler(g) ==
  /\ ~closed /\ grant[g] = "none" /\ LiveResources < MaxRes
  /\ grant' = [grant EXCEPT ![g] = "armed"]
  /\ UNCHANGED <<closed, failed, proc, ops, native, reserved, job, held, cleanup,
                 child, io, join, waker>>

\* Quotas first; the grant is consumed only when all of them are reserved.
CanSpawn(g) ==
  /\ ~Failure
  /\ Cardinality((held \cap Grants) \ Finished) < MaxProcessJobs
  /\ grant[g] = "armed"
  /\ TransferCapacity + NativeAllowance <= MaxSketch
  /\ CanSubmit /\ LiveResources < MaxRes

SubmitSpawn(g) ==
  /\ ~closed
  /\ PollJobs(None)
  /\ IF CanSpawn(g)
     THEN /\ ops' = With(ops, Fresh, NewOperation("spawn", g))
          /\ proc' = [proc EXCEPT ![g].at = "reserved"]
          /\ grant' = [grant EXCEPT ![g] = "spent"]
          /\ native' = native + NativeAllowance
          /\ job' = [job EXCEPT ![g] = "begin"]
          /\ held' = (held \ Finished) \cup {g}
     ELSE /\ held' = held \ Finished
          /\ UNCHANGED <<proc, grant, ops, native, job>>
  /\ UNCHANGED <<closed, reserved, cleanup, child, join>>

NewProducer(kind, g, at) ==
  [kind |-> kind, g |-> g, at |-> at, chunk |-> FALSE, result |-> None]

\* admit_compiler_scalar, and the same conditions in submit_compiler_output.
Admitted == ~Failure /\ Cardinality(IoJobs) < MaxOps

\* begin_compiler_output_locked
CanRead(g) ==
  /\ LiveProcess(h, g) /\ ~proc[g].busy /\ proc[g].session
  /\ TransferCapacity + 1 <= MaxSketch

SubmitRead(g) ==
  /\ ~closed
  /\ failed' = Failure /\ waker' = None
  /\ IF Admitted /\ CanRead(g) /\ CanSubmit
     THEN /\ ops' = With(ops, Fresh, NewOperation("read", g))
          /\ proc' = [proc EXCEPT ![g].busy = TRUE]
          /\ reserved' = reserved + 1
          /\ io' = With(Without(io, Finished), Fresh, NewProducer("read", g, "receiving"))
          /\ held' = (held \ Finished) \cup {Fresh}
     ELSE /\ held' = held \ Finished /\ io' = Without(io, Finished)
          /\ UNCHANGED <<proc, ops, reserved>>
  /\ UNCHANGED <<closed, grant, native, job, cleanup, child, join>>

SubmitWait(g) ==
  /\ ~closed
  /\ failed' = Failure /\ waker' = None
  /\ IF Admitted /\ LiveProcess(h, g) /\ CanSubmit
     THEN /\ ops' = With(ops, Fresh, NewOperation("wait", g))
          /\ io' = With(Without(io, Finished), Fresh, NewProducer("wait", g, "lookup"))
          /\ held' = (held \ Finished) \cup {Fresh}
     ELSE /\ held' = held \ Finished /\ io' = Without(io, Finished)
          /\ UNCHANGED <<ops>>
  /\ UNCHANGED <<closed, grant, proc, native, reserved, job, cleanup, child, join>>

\* The close borrows nothing: revoking the process must not end its observer.
SubmitClose(g) ==
  /\ ~closed
  /\ failed' = Failure /\ waker' = None
  /\ IF Admitted /\ LiveProcess(h, g) /\ CanSubmit
     THEN LET t == CloseProcess(h, g)
          IN /\ ops' = With(t.ops, Fresh, NewOperation("close", g))
             /\ proc' = t.proc
             /\ io' = With(Without(io, Finished), Fresh, NewProducer("close", g, "waiting"))
             /\ held' = (held \ Finished) \cup {Fresh}
     ELSE /\ held' = held \ Finished /\ io' = Without(io, Finished)
          /\ UNCHANGED <<proc, ops>>
  /\ UNCHANGED <<closed, grant, native, reserved, job, cleanup, child, join>>

-----------------------------------------------------------------------------
(* Collection and abandonment by the guest.                                *)

Guest(t) ==
  /\ Install(t)
  /\ UNCHANGED <<closed, failed, native, reserved, job, held, cleanup, child,
                 io, join, waker>>

Forget(t, o) == [t EXCEPT !.ops = Without(@, {o})]

\* take_terminal: reads and waits are collected with their payload instead.
Poll(o) ==
  /\ ops[o].kind \in {"spawn", "close"} /\ ops[o].terminal # None
  /\ Guest(Forget(h, o))

\* collect_compiler_output_wire: the payload is copied under the mutex.
CollectRead(o) ==
  /\ ops[o].kind = "read" /\ ops[o].terminal # None
  /\ ops[o].terminal = "Completed" => LiveProcess(h, ops[o].g) /\ ops[o].ready
  /\ Guest(Forget([h EXCEPT !.proc[ops[o].g].busy = FALSE], o))

CollectWait(o) ==
  /\ ops[o].kind = "wait" /\ ops[o].terminal # None
  /\ ops[o].terminal = "Completed" => LiveProcess(h, ops[o].g) /\ ops[o].ready
  /\ Guest(Forget(h, o))

AbandonRead(o) ==
  /\ ops[o].kind = "read"
  /\ Guest(CloseProcess(Forget(h, o), ops[o].g))

AbandonScalar(o) ==
  /\ ops[o].kind \in {"wait", "close"}
  /\ Guest(Forget(h, o))

AbandonSpawn(o) ==
  /\ ops[o].kind = "spawn"
  /\ Guest(CloseProcess(Forget(h, o), ops[o].g))

AbandonProcess(g) ==
  /\ LiveProcess(h, g)
  /\ Guest(CloseProcess(h, g))

AbandonGrant(g) ==
  /\ grant[g] \in {"armed", "spent"}
  /\ Guest(CloseGrant(h, g))

\* cancel_wire; cancelling a read revokes its process.
Cancel(o) ==
  IF ops[o].kind = "read" THEN Guest(CloseProcess(h, ops[o].g))
                          ELSE Guest(Terminate(h, o, "Ended"))

\* close_locked
CloseAll ==
  /\ ~closed
  /\ closed' = TRUE
  /\ grant' = [g \in Grants |-> IF grant[g] = "none" THEN "none" ELSE "gone"]
  /\ proc' = [g \in Grants |-> IF proc[g].at = "absent" THEN proc[g] ELSE Drop(h, g).proc[g]]
  /\ ops' = [o \in DOMAIN ops |->
       [ops[o] EXCEPT !.ready = FALSE,
                      !.terminal = IF @ = None \/ Ready(h, o) THEN "Ended" ELSE @]]
  /\ UNCHANGED <<failed, native, reserved, job, held, cleanup, child, io, join, waker>>

-----------------------------------------------------------------------------
(* The supervisor: supervise_compiler and the task that awaits it.         *)

SpawnOf(g) == CHOOSE o \in DOMAIN ops : ops[o].kind = "spawn" /\ ops[o].g = g

HasSpawn(g) == \E o \in DOMAIN ops : ops[o].kind = "spawn" /\ ops[o].g = g

\* hub.terminal on the spawn operation; its error is ignored.
EndSpawn(g) ==
  Install(IF HasSpawn(g) THEN Terminate(h, SpawnOf(g), "Ended") ELSE h)

\* A finished task wakes whoever polled its handle last.
Wake == join' = [j \in Joiners |-> IF j = waker /\ join[j] = "parked" THEN "woken" ELSE join[j]]

Supervise(g, from, to) ==
  /\ job[g] = from
  /\ job' = [job EXCEPT ![g] = to]
  /\ UNCHANGED <<closed, failed, reserved, held, io, waker>>

Begin(g) ==
  /\ UNCHANGED <<native, cleanup, child, join>>
  /\ IF proc[g].at = "gone"
     THEN Supervise(g, "begin", "release") /\ UNCHANGED <<grant, proc, ops>>
     ELSE \/ Supervise(g, "begin", "release") /\ EndSpawn(g)
          \/ Supervise(g, "begin", "spawning") /\ UNCHANGED <<grant, proc, ops>>

\* The spawning future is never dropped: whatever it returns is reaped below.
NativeSpawn(g) ==
  /\ UNCHANGED <<native, cleanup, join>>
  /\ \/ /\ Supervise(g, "spawning", "spawned")
        /\ child' = [child EXCEPT ![g] = [life |-> "running", pump |-> "open"]]
        /\ UNCHANGED <<grant, proc, ops>>
     \/ /\ Supervise(g, "spawning", "failing")
        /\ EndSpawn(g)
        /\ UNCHANGED child

\* publish_compiler, unless the deadline has passed.
Publish(g) ==
  LET publishable == ~closed /\ HasSpawn(g) /\ SpawnOf(g) \in Pending(h)
                     /\ proc[g].at = "reserved"
  IN /\ UNCHANGED <<native, cleanup, child, join>>
     /\ \/ Supervise(g, "spawned", "reap") /\ EndSpawn(g)
        \/ /\ publishable
           /\ Supervise(g, "spawned", "watch")
           /\ Install(Terminate([h EXCEPT !.proc[g].session = TRUE], SpawnOf(g), "Completed"))
        \/ /\ ~publishable
           /\ Supervise(g, "spawned", "reap")
           /\ UNCHANGED <<grant, proc, ops>>

\* timeout(remaining, cancellation.cancelled())
Watch(g) ==
  /\ UNCHANGED <<native, cleanup, child, join>>
  /\ Supervise(g, "watch", "reap")
  /\ \/ proc[g].at = "gone" /\ UNCHANGED <<grant, proc, ops>>
     \/ Install(CloseProcess(h, g))

\* session.kill and session.wait; either may report an error.
ReapChild(g) ==
  /\ job[g] = "reap" /\ child[g].life \in {"running", "exited"}
  /\ \E end \in {"reaped", "lost"} : child' = [child EXCEPT ![g].life = end]
  /\ UNCHANGED <<table, job, cleanup, io, join, waker>>

\* shutdown_output: a parked next_output owns the lane and is woken first.
ShutOutput(g) ==
  /\ job[g] = "reap" /\ child[g].pump = "open"
  /\ \A o \in DOMAIN io : ~(io[o].g = g /\ io[o].at = "receiving")
  /\ \E end \in {"shut", "lost"} : child' = [child EXCEPT ![g].pump = end]
  /\ UNCHANGED <<table, job, cleanup, io, join, waker>>

\* Both halves of the join have finished.
Reaped(g) ==
  /\ child[g].life \in {"reaped", "lost"} /\ child[g].pump \in {"shut", "lost"}
  /\ Supervise(g, "reap", IF child[g] = [life |-> "reaped", pump |-> "shut"]
                          THEN "release" ELSE "failing")
  /\ UNCHANGED <<grant, proc, ops, native, cleanup, child, join>>

\* What is known of a child whose start or clean-up was not acknowledged.
Unknown == [life |-> "lost", pump |-> "lost"]

\* Mutant: a failed start or clean-up refunds its allowance as well.
FailRefunding(g) ==
  /\ Supervise(g, "failing", "err")
  /\ native' = native - NativeAllowance
  /\ cleanup' = [cleanup EXCEPT ![g] = "failed"]
  /\ child' = [child EXCEPT ![g] = Unknown]
  /\ Wake
  /\ UNCHANGED <<grant, proc, ops>>

\* No refund: the allowance stays charged to the sketch.
Fail(g) ==
  /\ Supervise(g, "failing", "err")
  /\ cleanup' = [cleanup EXCEPT ![g] = "failed"]
  /\ child' = [child EXCEPT ![g] = Unknown]
  /\ Wake
  /\ UNCHANGED <<grant, proc, ops, native>>

\* release_native_process_output and CompilerCleanup::finish
Release(g) ==
  /\ Supervise(g, "release", "ok")
  /\ native' = native - NativeAllowance
  /\ cleanup' = [cleanup EXCEPT ![g] = "ok"]
  /\ Wake
  /\ UNCHANGED <<grant, proc, ops, child>>

\* The task is dropped or panics: CompilerCleanupProducer::drop.
SupervisorDies(g) ==
  /\ job[g] \in Stages \ {"none", "ok", "err"}
  /\ job' = [job EXCEPT ![g] = "err"]
  /\ cleanup' = [cleanup EXCEPT ![g] = "failed"]
  /\ child' = [child EXCEPT ![g] = Unknown]
  /\ Wake
  /\ UNCHANGED <<table, io, waker>>

ChildExits(g) ==
  /\ child[g].life = "running"
  /\ child' = [child EXCEPT ![g].life = "exited"]
  /\ UNCHANGED <<table, job, cleanup, io, join, waker>>

-----------------------------------------------------------------------------
(* The producers: receive_event and publish for a read, wait_compiler and  *)
(* its report for a wait, CompilerCleanup::wait for a close.               *)

\* producer_cancel: fired by every terminal and by abandonment.
Stopped(o) == o \notin Pending(h)

\* One step of a producer; finishing wakes whoever polled its handle last.
Step(o, from, to) ==
  /\ io[o].at = from
  /\ IF to = "done" THEN io' = [io EXCEPT ![o] = NewProducer(io[o].kind, io[o].g, to)] /\ Wake
                    ELSE io' = [io EXCEPT ![o].at = to] /\ UNCHANGED join

StepWith(o, from, to, result) ==
  /\ io[o].at = from
  /\ io' = [io EXCEPT ![o].at = to, ![o].result = result]
  /\ UNCHANGED join

Quiet == UNCHANGED <<closed, failed, native, job, held, cleanup, child, waker>>

\* next_output: a chunk while the child may write, an event without bytes
\* once it has exited or the output is being shut down.
Receive(o) ==
  LET g == io[o].g
  IN /\ Quiet /\ UNCHANGED <<grant, proc, ops, reserved>>
     /\ \/ /\ child[g].life \in {"running", "exited", "lost"}
           /\ io[o].at = "receiving"
           /\ io' = [io EXCEPT ![o].at = "got", ![o].chunk = TRUE]
           /\ UNCHANGED join
        \/ /\ child[g].life # "running" \/ job[g] = "reap"
           /\ Step(o, "receiving", "got")
        \/ /\ Stopped(o)
           /\ StepWith(o, "receiving", "erring",
                       IF o \in DOMAIN ops THEN ops[o].terminal ELSE "Ended")

\* The second half of receive_event: account for the bytes.
Account(o) ==
  LET g == io[o].g
      over == io[o].chunk /\ proc[g].bytes + 1 > MaxOutput
      err == IF o \notin DOMAIN ops THEN "Ended"
             ELSE IF ops[o].terminal # None THEN ops[o].terminal
             ELSE IF ~LiveProcess(h, g) THEN "Ended"
             ELSE IF over THEN "Ended" ELSE None
  IN /\ Quiet /\ UNCHANGED <<grant, ops, reserved>>
     /\ IF err # None
        THEN StepWith(o, "got", "erring", err) /\ UNCHANGED proc
        ELSE /\ Step(o, "got", "publishing")
             /\ proc' = IF io[o].chunk THEN [proc EXCEPT ![g].bytes = @ + 1] ELSE proc

\* CompilerOutput::publish: payload and credit move in one critical section.
PublishOutput(o) ==
  /\ Quiet /\ UNCHANGED <<grant, proc>>
  /\ IF ~closed /\ o \in Pending(h) /\ LiveProcess(h, io[o].g)
     THEN /\ Step(o, "publishing", "done")
          /\ ops' = [ops EXCEPT ![o].ready = TRUE, ![o].terminal = "Completed"]
          /\ reserved' = reserved - 1
     ELSE Step(o, "publishing", "dropping") /\ UNCHANGED <<ops, reserved>>

Erring(o) ==
  /\ Quiet /\ UNCHANGED reserved
  /\ Step(o, "erring", "dropping")
  /\ Install(Terminate(h, o, io[o].result))

\* Drop of the lease: whatever the read consumed may not be read again.
DropLease(o) ==
  LET t == Terminate(h, o, "Ended")
  IN /\ Quiet
     /\ io[o].kind = "read" /\ Step(o, "dropping", "done")
     /\ Install(CloseProcess(t, io[o].g))
     /\ reserved' = reserved - 1

\* wait_compiler up to its await.
Lookup(o) ==
  /\ Quiet /\ UNCHANGED <<grant, proc, ops, reserved>>
  /\ IF LiveProcess(h, io[o].g) THEN Step(o, "lookup", "waiting")
                                 ELSE StepWith(o, "lookup", "reporting", "Ended")

Await(o) ==
  LET g == io[o].g
  IN /\ Quiet /\ UNCHANGED <<grant, proc, ops, reserved>>
     /\ \/ Stopped(o) /\ Step(o, "waiting", "dropping")
        \/ /\ io[o].kind = "wait" /\ child[g].life \in {"exited", "reaped"}
           /\ Step(o, "waiting", "recheck")
        \/ /\ io[o].kind = "wait" /\ (proc[g].at = "gone" \/ child[g].life = "lost")
           /\ StepWith(o, "waiting", "reporting", "Ended")
        \/ /\ io[o].kind = "close" /\ cleanup[g] # "pending"
           /\ StepWith(o, "waiting", "reporting",
                       IF cleanup[g] = "ok" THEN "Completed" ELSE "Ended")

\* Revocation wins over an exit status that is already there.
Recheck(o) ==
  /\ Quiet /\ UNCHANGED <<grant, proc, ops, reserved>>
  /\ StepWith(o, "recheck", "reporting",
              IF LiveProcess(h, io[o].g) THEN "Completed" ELSE "Ended")

Report(o) ==
  /\ Quiet /\ UNCHANGED reserved
  /\ Step(o, "reporting", "dropping")
  /\ IF o \in Pending(h)
     THEN Install(Terminate([h EXCEPT !.ops[o].ready = ops[o].kind = "wait"],
                            o, io[o].result))
     ELSE UNCHANGED <<grant, proc, ops>>

\* ScalarProducer::drop
DropScalar(o) ==
  /\ Quiet /\ UNCHANGED reserved
  /\ io[o].kind # "read" /\ Step(o, "dropping", "done")
  /\ Install(IF o \in Pending(h) THEN Terminate(h, o, "Ended") ELSE h)

-----------------------------------------------------------------------------
(* join_process_jobs: one observer at a time, because a handle keeps only  *)
(* the waker of the last poll.                                             *)

Joining(t) == UNCHANGED <<closed, grant, proc, ops, native, reserved, job, cleanup, child>>
              /\ join' = t

\* One poll: prune, then park on the handles that are left or return.
JoinPoll(j) ==
  /\ PollJobs(IF held \ Finished = {} THEN None ELSE j)
  /\ held' = held \ Finished
  /\ Joining([join EXCEPT ![j] = IF held \ Finished # {} THEN "parked" ELSE "idle"])

\* Before the root is closed join_process_jobs answers WrongRights at once.
JoinAcquire(j) ==
  /\ closed /\ join[j] = "idle" /\ held # {}
  /\ \A k \in Joiners : join[k] = "idle"
  /\ JoinPoll(j)

JoinAgain(j) == join[j] = "woken" /\ JoinPoll(j)

\* The observer is dropped: its permit is released, the jobs stay.
JoinDropped(j) ==
  /\ join[j] = "parked"
  /\ Joining([join EXCEPT ![j] = "idle"])
  /\ waker' = None
  /\ UNCHANGED <<failed, held, io>>

-----------------------------------------------------------------------------
GuestSteps ==
  \/ \E g \in Grants : GrantCompiler(g) \/ SubmitSpawn(g) \/ SubmitRead(g) \/ SubmitWait(g)
                        \/ SubmitClose(g) \/ AbandonProcess(g) \/ AbandonGrant(g)
  \/ \E o \in DOMAIN ops : Poll(o) \/ CollectRead(o) \/ CollectWait(o) \/ AbandonRead(o)
                           \/ AbandonScalar(o) \/ AbandonSpawn(o) \/ Cancel(o)
  \/ CloseAll

Supervisor(g) ==
  \/ Begin(g) \/ NativeSpawn(g) \/ Publish(g) \/ Watch(g) \/ ReapChild(g) \/ ShutOutput(g)
  \/ Reaped(g) \/ Fail(g) \/ Release(g)

ProducerStep(o) ==
  \/ Receive(o) \/ Account(o) \/ PublishOutput(o) \/ Erring(o) \/ DropLease(o)
  \/ Lookup(o) \/ Await(o) \/ Recheck(o) \/ Report(o) \/ DropScalar(o)

Next ==
  \/ GuestSteps
  \/ \E g \in Grants : Supervisor(g) \/ SupervisorDies(g) \/ ChildExits(g)
  \/ \E o \in DOMAIN io : ProducerStep(o)
  \/ \E j \in Joiners : JoinAcquire(j) \/ JoinAgain(j) \/ JoinDropped(j)

Spec == Init /\ [][Next]_vars

-----------------------------------------------------------------------------
(***************************************************************************)
(* The native allowance covers every child that may still hold buffers:    *)
(* whatever races it, a spawn whose child is not known to be reaped with   *)
(* its pumps shut keeps its share charged to the sketch, also after a      *)
(* failed start, a failed clean-up or the death of its supervisor, and the *)
(* charge never passes maximum_sketch_bytes.                               *)
(***************************************************************************)
AllowanceCoversChildren ==
  /\ NativeAllowance * Cardinality({g \in Grants :
         \/ child[g].life # "none" /\ child[g] # [life |-> "reaped", pump |-> "shut"]
         \/ job[g] = "spawning"}) <= native
  /\ TransferCapacity <= MaxSketch

(***************************************************************************)
(* Revocation wins: a read or wait whose Completed result can still be     *)
(* collected belongs to a live process.  An exit status or bytes that were *)
(* already there when the process was closed, cancelled or timed out are   *)
(* taken back (terminal_locked, close_locked, wait_compiler).              *)
(***************************************************************************)
RevocationTakesResultsBack ==
  \A o \in DOMAIN ops : Ready(h, o) => LiveProcess(h, ops[o].g)

(***************************************************************************)
(* A close reports Completed only for a child that is reaped, whose pumps  *)
(* are shut and whose allowance has been returned.                         *)
(***************************************************************************)
CompletedCloseIsClean ==
  \A o \in DOMAIN ops : ops[o].kind = "close" /\ ops[o].terminal = "Completed" =>
     LET g == ops[o].g IN job[g] = "ok" /\ child[g].life \in {"none", "reaped"}

(***************************************************************************)
(* Bytes leave the pipe once: no two reads of one process are at the       *)
(* output lane or hold an uncollected chunk together.                      *)
(***************************************************************************)
OneReadPerProcess ==
  \A g \in Grants : LiveProcess(h, g) =>
    Cardinality({o \in DOMAIN io : io[o].kind = "read" /\ io[o].g = g
                                   /\ io[o].at \in {"receiving", "got", "publishing"}}
                \cup {o \in DOMAIN ops : ops[o].g = g /\ ops[o].kind = "read" /\ ops[o].ready}) <= 1

(***************************************************************************)
(* No lost wake-up: a caller parked in join_process_jobs is the one whose  *)
(* waker the retained handles hold, and one of them is still to finish.  A *)
(* handle keeps only the waker of its last poll, and submits poll with one *)
(* that does nothing.                                                      *)
(***************************************************************************)
ParkedJoinerWillBeWoken ==
  \A j \in Joiners : join[j] = "parked" => waker = j /\ held \ Finished # {}
=============================================================================
