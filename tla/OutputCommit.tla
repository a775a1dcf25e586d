---------------------------- MODULE OutputCommit ----------------------------
(***************************************************************************)
(* Committing a sealed blob to a granted output file (operations.rs):      *)
(* submit_output_commit, the blocking job it launches, and the teardown    *)
(* that joins the jobs.  The job streams the blob into a temporary sibling *)
(* without the mutex and replaces the destination under it; the guest can  *)
(* cancel, revoke or tear down between any two of its critical sections,   *)
(* and any filesystem call can fail.                                       *)
(*                                                                         *)
(* There are no blob transfers here, so the drives have nothing to do.     *)
(* All grants name one file, the hardest case.                             *)
(***************************************************************************)
EXTENDS BlobBuffers

CONSTANTS Writer,    \* the Store that owns the blobs and the output grants
          Lengths,   \* the bytes in each initial blob
          Grants     \* the number of output grants

ASSUME OutputConstants ==
  /\ Writer \in Stores
  /\ Lengths \in Seq(1 .. MaxBlob)
  /\ Grants \in Nat

VARIABLES hub,    \* the table the mutex guards
          pc,     \* the import in flight in the Writer
          jobs,   \* the blocking jobs, by operation
          count,  \* output_job_count
          file,   \* what the destination holds
          root    \* what the host does with the root

vars == <<hub, pc, jobs, count, file, root>>

Old == [by |-> None, bytes |-> 0, whole |-> 0]

Idle == [at |-> "idle", op |-> None, blob |-> None, out |-> None]

Stages == {"check", "path", "take", "create", "next", "chunk", "write", "drop",
           "last", "sync", "replace", "clean", "consume", "reject", "leave"}

Job == [at: Stages, blob: Token, out: Token, chunk: Nat, bytes: Nat, whole: Nat,
        temp: BOOLEAN, ok: BOOLEAN]

TypeOK ==
  /\ HubType(hub)
  /\ pc \in [at: {"idle", "launching"}, op: Option(Token), blob: Option(Token),
             out: Option(Token)]
  /\ DOMAIN jobs \subseteq Token /\ \A o \in DOMAIN jobs : jobs[o] \in Job
  /\ count \in 0 .. MaxOps
  /\ file \in [by: Option(Token), bytes: Nat, whole: Nat]
  /\ root \in [at: {"running", "joining", "joined"}, taken: SUBSET Token]

\* grant_exact_output
CreateGrant(h, i) == Activate(Create(h, Writer, "output", {"commit"}, FALSE), h.last + 1)

FilledBlob(h, n) == Fill(CreateBlob(h, Writer), h.last + 1, n)

Init ==
  /\ hub = FoldLeft(CreateGrant, FoldLeft(FilledBlob, InitialHub, Lengths),
                    [i \in 1 .. Grants |-> i])
  /\ pc = Idle
  /\ jobs = [o \in {} |-> o]
  /\ count = 0
  /\ file = Old
  /\ root = [at |-> "running", taken |-> {}]

-----------------------------------------------------------------------------
(* The guest.                                                              *)

SubmitCommit(blob, out) ==
  /\ pc = Idle
  /\ CanSubmit(hub, Writer, out, "output", {"commit"})
  /\ hub' = Submit(hub, Writer, out)
  /\ pc' = [at |-> "launching", op |-> hub.last + 1, blob |-> blob, out |-> out]
  /\ UNCHANGED <<jobs, count, file, root>>

NewJob == [at |-> "check", blob |-> pc.blob, out |-> pc.out, chunk |-> 0, bytes |-> 0,
           whole |-> 0, temp |-> FALSE, ok |-> TRUE]


Launch ==
  /\ pc.at = "launching"
  /\ IF hub.closed \/ count >= MaxOps
     THEN hub' = RemoveOp(hub, pc.op) /\ UNCHANGED <<jobs, count>>
     ELSE jobs' = With(jobs, pc.op, NewJob) /\ count' = count + 1 /\ UNCHANGED hub
  /\ pc' = Idle
  /\ UNCHANGED <<file, root>>

Guest(g) == pc = Idle /\ hub' = g /\ UNCHANGED <<pc, jobs, count, file, root>>

Seal(b) == /\ May(hub, Writer, b, "blob", {"write"})
           /\ Guest([hub EXCEPT !.res[b].sealed = TRUE])

\* Mutant: a synchronous read does not look at `committing`.
ReadSharing(b) ==
  /\ May(hub, Writer, b, "blob", {"read"})
  /\ Guest(Drain(hub, b, Least(MaxChunk, hub.res[b].len)))

\* stream_read: the chunk is copied out and released within the import.
Read(b) ==
  /\ May(hub, Writer, b, "blob", {"read"}) /\ ~hub.res[b].committing
  /\ Guest(Drain(hub, b, Least(MaxChunk, hub.res[b].len)))

\* abandon_blob, or the completion of a Close.
Revoke(r) == r \in Live(hub) /\ Guest(CloseResource(hub, r, "Closed"))

Cancel(o) == o \in DOMAIN hub.ops /\ Guest(Terminate(hub, {o}, "Cancelled"))

Poll(o) == o \in DOMAIN hub.ops \ Pending(hub) /\ Guest(RemoveOp(hub, o))

-----------------------------------------------------------------------------
(* The blocking job: commit_blob_operation.                                *)

Step(o, at) == jobs' = [jobs EXCEPT ![o].at = at]

\* `?` before the blob is taken, before the temporary exists, and after.
Fail(o) ==
  jobs' = [jobs EXCEPT ![o].at = IF jobs[o].temp THEN "clean" ELSE "reject", ![o].ok = FALSE]

\* check_output_operation
MayGoOn(o) ==
  /\ ~hub.closed
  /\ o \in Pending(hub)
  /\ May(hub, Writer, jobs[o].blob, "blob", {"read"})
  /\ May(hub, Writer, jobs[o].out, "output", {"commit"})

AtJob(o, at) == o \in DOMAIN jobs /\ jobs[o].at = at /\ UNCHANGED <<pc, root>>

Check(o) ==
  /\ AtJob(o, "check")
  /\ IF MayGoOn(o) THEN Step(o, "path") ELSE Fail(o)
  /\ UNCHANGED <<hub, count, file>>

\* exact_output_path
FindPath(o) ==
  /\ AtJob(o, "path")
  /\ IF May(hub, Writer, jobs[o].out, "output", {"commit"}) THEN Step(o, "take") ELSE Fail(o)
  /\ UNCHANGED <<hub, count, file>>

\* Mutant: a blob another job is committing can be taken again.
CanTakeAgain(b) ==
  /\ Borrowers(hub, b) = {}
  /\ May(hub, Writer, b, "blob", {"read"}) /\ hub.res[b].sealed

CanTake(b) ==
  /\ Borrowers(hub, b) = {}
  /\ May(hub, Writer, b, "blob", {"read"})
  /\ ~hub.res[b].committing /\ hub.res[b].sealed

Take(o) ==
  LET b == jobs[o].blob
  IN /\ AtJob(o, "take")
     /\ IF CanTake(b)
        THEN /\ hub' = [hub EXCEPT !.res[b].committing = TRUE]
             /\ jobs' = [jobs EXCEPT ![o].at = "create", ![o].whole = hub.res[b].len]
        ELSE Fail(o) /\ UNCHANGED hub
     /\ UNCHANGED <<count, file>>

\* TemporaryOutput::create; without it the lease still consumes the blob.
CreateTemp(o) ==
  /\ AtJob(o, "create")
  /\ \/ jobs' = [jobs EXCEPT ![o].at = "next", ![o].temp = TRUE]
     \/ jobs' = [jobs EXCEPT ![o].at = "consume", ![o].ok = FALSE]
  /\ UNCHANGED <<hub, count, file>>

CheckAgain(o) ==
  /\ AtJob(o, "next")
  /\ IF MayGoOn(o) THEN Step(o, "chunk") ELSE Fail(o)
  /\ UNCHANGED <<hub, count, file>>

\* read_blob_chunk with committing = true; an empty chunk ends the loop.
ReadChunk(o) ==
  LET b == jobs[o].blob
      n == Least(MaxChunk, hub.res[b].len)
  IN /\ AtJob(o, "chunk")
     /\ IF May(hub, Writer, b, "blob", {"read"}) /\ hub.res[b].committing
           /\ Retained(hub) + n <= MaxTransfer
        THEN IF n = 0
             THEN Step(o, "last") /\ UNCHANGED hub
             ELSE /\ hub' = [Drain(hub, b, n) EXCEPT !.native = @ + n]
                  /\ jobs' = [jobs EXCEPT ![o].at = "write", ![o].chunk = n]
        ELSE Fail(o) /\ UNCHANGED hub
     /\ UNCHANGED <<count, file>>

WriteChunk(o) ==
  /\ AtJob(o, "write")
  /\ \/ jobs' = [jobs EXCEPT ![o].at = "drop", ![o].bytes = @ + jobs[o].chunk]
     \/ jobs' = [jobs EXCEPT ![o].at = "drop", ![o].ok = FALSE]
  /\ UNCHANGED <<hub, count, file>>

DropChunk(o) ==
  /\ AtJob(o, "drop")
  /\ hub' = [hub EXCEPT !.native = SaturatingSub(@, jobs[o].chunk)]
  /\ jobs' = [jobs EXCEPT ![o].at = IF jobs[o].ok THEN "next" ELSE "clean", ![o].chunk = 0]
  /\ UNCHANGED <<count, file>>

CheckLast(o) ==
  /\ AtJob(o, "last")
  /\ IF MayGoOn(o) THEN Step(o, "sync") ELSE Fail(o)
  /\ UNCHANGED <<hub, count, file>>

Sync(o) ==
  /\ AtJob(o, "sync")
  /\ Step(o, "replace") \/ Fail(o)
  /\ UNCHANGED <<hub, count, file>>

\* Mutant: the destination is replaced without looking at the operation again.
ReplaceUnchecked(o) ==
  /\ AtJob(o, "replace")
  /\ file' = [by |-> o, bytes |-> jobs[o].bytes, whole |-> jobs[o].whole]
  /\ hub' = Terminate(hub, {o}, "Completed")
  /\ jobs' = [jobs EXCEPT ![o].at = "clean", ![o].temp = FALSE]
  /\ UNCHANGED count

\* replace_output_operation: authority, rename, result and the end of both
\* resources are one critical section.
Replace(o) ==
  LET j == jobs[o]
      done == CloseResource(CloseResource(Terminate(hub, {o}, "Completed"), j.blob, "Closed"),
                            j.out, "Closed")
  IN /\ AtJob(o, "replace")
     /\ \/ /\ MayGoOn(o)
           /\ file' = [by |-> o, bytes |-> j.bytes, whole |-> j.whole]
           /\ hub' = done
           /\ jobs' = [jobs EXCEPT ![o].at = "clean", ![o].temp = FALSE]
        \/ Fail(o) /\ UNCHANGED <<hub, file>>
     /\ UNCHANGED count

\* TemporaryOutput::drop, then BlobCommitLease::drop.
Clean(o) ==
  /\ AtJob(o, "clean")
  /\ jobs' = [jobs EXCEPT ![o].at = "consume", ![o].temp = FALSE]
  /\ UNCHANGED <<hub, count, file>>

Consume(o) ==
  /\ AtJob(o, "consume")
  /\ hub' = CloseResource(hub, jobs[o].blob, "Closed")
  /\ Step(o, IF jobs[o].ok THEN "leave" ELSE "reject")
  /\ UNCHANGED <<count, file>>

\* Mutant: a rejected commit is tried again.
RejectAndRetry(o) ==
  /\ AtJob(o, "reject")
  /\ hub' = Terminate(hub, {o}, "Rejected")
  /\ Step(o, "check")
  /\ UNCHANGED <<count, file>>

Reject(o) ==
  /\ AtJob(o, "reject")
  /\ hub' = Terminate(hub, {o}, "Rejected")
  /\ Step(o, "leave")
  /\ UNCHANGED <<count, file>>

\* OutputJobLease::drop
Leave(o) ==
  /\ AtJob(o, "leave")
  /\ count' = count - 1
  /\ jobs' = Without(jobs, {o})
  /\ UNCHANGED <<hub, file>>

Run(o) ==
  \/ Check(o) \/ FindPath(o) \/ Take(o) \/ CreateTemp(o) \/ CheckAgain(o) \/ ReadChunk(o)
  \/ WriteChunk(o) \/ DropChunk(o) \/ CheckLast(o) \/ Sync(o) \/ Replace(o)
  \/ Clean(o) \/ Consume(o) \/ Reject(o) \/ Leave(o)

-----------------------------------------------------------------------------
(* The host ends the root: close_all, then join_output_jobs.               *)

CloseAll ==
  /\ ~hub.closed
  /\ hub' = CloseLocked(hub, "Closed")
  /\ UNCHANGED <<pc, jobs, count, file, root>>

BeginJoin ==
  /\ hub.closed /\ root.at = "running"
  /\ root' = [at |-> "joining", taken |-> DOMAIN jobs]
  /\ UNCHANGED <<hub, pc, jobs, count, file>>

EndJoin ==
  /\ root.at = "joining" /\ root.taken \cap DOMAIN jobs = {}
  /\ root' = [root EXCEPT !.at = "joined"]
  /\ UNCHANGED <<hub, pc, jobs, count, file>>

Next ==
  \/ \E b \in Blobs(hub) : \/ Seal(b) \/ Read(b)
                           \/ \E out \in Live(hub) \ Blobs(hub) : SubmitCommit(b, out)
  \/ \E r \in Live(hub) : Revoke(r)
  \/ \E o \in DOMAIN hub.ops : Cancel(o) \/ Poll(o)
  \/ Launch
  \/ \E o \in DOMAIN jobs : Run(o)
  \/ CloseAll \/ BeginJoin \/ EndJoin

Spec == Init /\ [][Next]_vars

\* A blocking job runs to its end (a job always has a next step, so this is
\* weak fairness), an import returns, and the host that closed the root goes
\* on to join.
Fairness == /\ \A o \in Token : []<>(o \notin DOMAIN jobs) \/ []<><<Run(o)>>_vars
            /\ WF_vars(Launch) /\ WF_vars(BeginJoin) /\ WF_vars(EndJoin)

FairSpec == Spec /\ Fairness

\* Instances with one blob of two bytes.
OnlyTwo == <<2>>

-----------------------------------------------------------------------------
(***************************************************************************)
(* The destination is never partial: it holds what it held before, or all  *)
(* the bytes the blob had when the job took it, although the guest may     *)
(* read, revoke and cancel meanwhile (commit_blob_operation).              *)
(***************************************************************************)
DestinationIsWhole == file.bytes = file.whole

(***************************************************************************)
(* The file is replaced exactly when the commit that asked for it          *)
(* completes: never for a cancelled, revoked or rejected operation, and no *)
(* commit reports success without it (replace_output_operation).           *)
(***************************************************************************)
ReplacedExactlyByCompletion ==
  [][\A o \in Token :
       (file' # file /\ file'.by = o)
         <=> (o \in Woken(hub, hub') /\ hub'.ops[o].terminal = "Completed")]_vars

(***************************************************************************)
(* A blob that is being committed belongs to exactly one running job, which *)
(* will consume it: no failure leaves a blob that can never be used again  *)
(* (BlobCommitLease), and no two jobs share one.                           *)
(***************************************************************************)
CommittingBlobHasOneJob ==
  \A b \in Blobs(hub) : hub.res[b].committing =>
    Cardinality({o \in DOMAIN jobs : jobs[o].blob = b
       /\ jobs[o].at \notin {"check", "path", "take", "reject", "leave"}}) = 1

(***************************************************************************)
(* Every accepted commit that has no result yet has a job, or an import    *)
(* about to launch one, that will give it one.                             *)
(***************************************************************************)
PendingCommitHasAJob ==
  \A o \in Pending(hub) : pc.op = o \/ (o \in DOMAIN jobs /\ jobs[o].at # "leave")

(***************************************************************************)
(* A committing blob belongs to exactly one running job, and every         *)
(* accepted commit without a result has a job, or an import about to       *)
(* launch one, that gives it one (BlobCommitLease, launch_output_job).     *)
(***************************************************************************)
CommitsHaveJobs == TypeOK /\ CommittingBlobHasOneJob /\ PendingCommitHasAJob


(***************************************************************************)
(* Ending the root terminates: once it is closed, the join returns.        *)
(***************************************************************************)
JoinReturns == hub.closed ~> root.at = "joined"
=============================================================================
