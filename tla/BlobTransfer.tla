---------------------------- MODULE BlobTransfer ----------------------------
(***************************************************************************)
(* Byte transfer through the blobs of one root (operations.rs): capacity-  *)
(* awaited writes and reads, the synchronous stream imports, sealing,      *)
(* abandonment, the idle timeout, and the drive loops that move bytes when *)
(* capacity or data appears.                                               *)
(*                                                                         *)
(* One action is one critical section of the hub mutex; a drive loop is a  *)
(* chain of passes, and other Stores run between two of them.  How a       *)
(* parked guest is notified is the subject of OperationHub; here it        *)
(* resumes when its operation has a result.                                *)
(***************************************************************************)
EXTENDS BlobBuffers

CONSTANT BlobOwners  \* the Stores that own the blobs of the initial state

ASSUME BlobOwnersAreStores == BlobOwners \in Seq(Stores)

VARIABLES hub,  \* the table the mutex guards
          pc    \* what the import in flight in each Store does next

vars == <<hub, pc>>

Stages == {"idle", "storing", "requesting", "sealing", "sealed", "rejected",
           "writes", "pump", "reads", "drop", "arming", "parked"}

Do(stages, op, n) ==
  [at |-> Head(stages), next |-> Tail(stages), op |-> op, n |-> n, moved |-> FALSE]

Idle == Do(<<"idle">>, None, 0)

TypeOK ==
  /\ HubType(hub)
  /\ pc \in [Stores -> [at: Stages, next: Seq(Stages), op: Option(Token), n: Nat,
                        moved: BOOLEAN]]

Init ==
  /\ hub = FoldLeft(CreateBlob, InitialHub, BlobOwners)
  /\ pc = [s \in Stores |-> Idle]

-----------------------------------------------------------------------------
(* The stages of an import after its first critical section.               *)

Goto(s, to) == pc' = [pc EXCEPT ![s] = to]

Then(s) ==
  LET c == pc[s]
  IN Goto(s, IF c.next = << >> THEN Idle
             ELSE [c EXCEPT !.at = Head(c.next), !.next = Tail(c.next), !.moved = FALSE])

\* drive_blob_writes: passes over the writes and the reads until neither moves.
DriveWrites(s) ==
  /\ pc[s].at = "writes"
  /\ hub' = WritePass(hub)
  /\ Goto(s, [pc[s] EXCEPT !.at = "pump", !.moved = Woken(hub, hub') # {}])

PumpReads(s) ==
  /\ pc[s].at = "pump"
  /\ hub' = ReadPass(hub)
  /\ IF pc[s].moved \/ Woken(hub, hub') # {}
     THEN Goto(s, [pc[s] EXCEPT !.at = "writes", !.moved = FALSE])
     ELSE Then(s)

\* drive_blob_reads: a single pass.
DriveReads(s) ==
  /\ pc[s].at = "reads"
  /\ hub' = ReadPass(hub)
  /\ Then(s)

-----------------------------------------------------------------------------
(* submit_blob_write and submit_blob_read.                                 *)

SubmitWrite(s, b, n) ==
  /\ pc[s] = Idle
  /\ CanSubmit(hub, s, b, "blob", {"write"})
  /\ hub' = Submit(hub, s, b)
  /\ Goto(s, Do(<<"storing">>, hub.last + 1, n))

\* The quotas are checked after the operation is in the table; a write that
\* does not fit takes its operation out again.
StoreWrite(s) ==
  LET o == pc[s].op
      n == pc[s].n
  IN /\ pc[s].at = "storing"
     /\ IF \/ Cardinality({w \in DOMAIN hub.ops : hub.ops[w].write # None}) >= MaxWrites
           \/ Inputs(hub) + n > MaxSketch
           \/ Retained(hub) + n > MaxTransfer - MaxChunk
        THEN hub' = RemoveOp(hub, o) /\ Goto(s, Idle)
        ELSE /\ hub' = [hub EXCEPT !.ops[o].role = "write",
                                   !.ops[o].write = IF o \in Pending(hub) THEN n ELSE @]
             /\ Goto(s, Do(<<"writes">>, None, 0))

SubmitRead(s, b, n) ==
  /\ pc[s] = Idle
  /\ CanSubmit(hub, s, b, "blob", {"read"})
  /\ hub' = Submit(hub, s, b)
  /\ Goto(s, Do(<<"requesting">>, hub.last + 1, n))

StoreRead(s) ==
  LET o == pc[s].op
  IN /\ pc[s].at = "requesting"
     /\ IF Cardinality({r \in DOMAIN hub.ops : hub.ops[r].read # None}) >= MaxReads
        THEN hub' = RemoveOp(hub, o) /\ Goto(s, Idle)
        ELSE /\ hub' = [hub EXCEPT !.ops[o].role = "read",
                                   !.ops[o].read = IF o \in Pending(hub) THEN pc[s].n ELSE @]
             /\ Goto(s, Do(<<"reads", "writes">>, None, 0))

(* blob_write and read_blob_chunk, the synchronous stream imports.  The    *)
(* chunk read is charged until the import has copied it out.               *)
WriteNow(s, b, n) ==
  /\ pc[s] = Idle
  /\ May(hub, s, b, "blob", {"write"})
  /\ ~hub.res[b].sealed
  /\ Admits(hub, b, n)
  /\ hub' = Fill(hub, b, n)
  /\ Goto(s, Do(<<"reads">>, None, 0))

\* Mutant: the chunk is handed out before the ledger is told.
ReadNowUncharged(s, b, n) ==
  LET count == Least(n, hub.res[b].len)
  IN /\ pc[s] = Idle
     /\ May(hub, s, b, "blob", {"read"})
     /\ hub' = [Drain(hub, b, count) EXCEPT !.ledger = hub.ledger, !.native = @ + count]
     /\ Goto(s, Do(<<"writes", "drop">>, None, count))

ReadNow(s, b, n) ==
  LET count == Least(n, hub.res[b].len)
  IN /\ pc[s] = Idle
     /\ May(hub, s, b, "blob", {"read"}) /\ ~hub.res[b].committing
     /\ Retained(hub) + count <= MaxTransfer
     /\ hub' = [Drain(hub, b, count) EXCEPT !.native = @ + count]
     /\ Goto(s, Do(<<"writes", "drop">>, None, count))

DropChunk(s) ==
  /\ pc[s].at = "drop"
  /\ hub' = [hub EXCEPT !.native = SaturatingSub(@, pc[s].n)]
  /\ Goto(s, Do(<<"writes", "reads">>, None, 0))

(* OP_BLOB_SEAL: submit an operation, seal, drive, then report.            *)
SubmitSeal(s, b) ==
  /\ pc[s] = Idle
  /\ CanSubmit(hub, s, b, "blob", {"write"})
  /\ hub' = Submit(hub, s, b)
  /\ Goto(s, Do(<<"sealing">>, hub.last + 1, b))

SealBlob(s) ==
  LET b == pc[s].n
  IN /\ pc[s].at = "sealing"
     /\ IF May(hub, s, b, "blob", {"write"})
        THEN /\ hub' = [hub EXCEPT !.res[b].sealed = TRUE]
             /\ Goto(s, Do(<<"writes", "reads", "sealed">>, pc[s].op, 0))
        ELSE hub' = hub /\ Goto(s, Do(<<"rejected">>, pc[s].op, 0))

ReportSeal(s) ==
  /\ pc[s].at \in {"sealed", "rejected"}
  /\ hub' = Terminate(hub, {pc[s].op},
                      IF pc[s].at = "sealed" THEN "Completed" ELSE "Rejected")
  /\ Goto(s, Idle)

-----------------------------------------------------------------------------
(* Consuming and giving up.                                                *)

Owned(s, o) == o \in DOMAIN hub.ops /\ hub.ops[o].owner = s

\* poll_wire refuses reads: their bytes are collected.
Poll(s, o) ==
  /\ pc[s] = Idle
  /\ Owned(s, o) /\ hub.ops[o].role # "read" /\ hub.ops[o].terminal # None
  /\ hub' = RemoveOp(hub, o)
  /\ UNCHANGED pc

Collect(s, o) ==
  /\ pc[s] = Idle
  /\ ~hub.closed
  /\ Owned(s, o) /\ hub.ops[o].role = "read" /\ hub.ops[o].terminal # None
  /\ hub' = RemoveOp(hub, o)
  /\ Goto(s, Do(<<"writes", "reads">>, None, 0))

\* cancel_wire: the input of a cancelled write is dropped, nothing is driven.
Cancel(s, o) ==
  /\ pc[s] = Idle
  /\ Owned(s, o)
  /\ hub' = Terminate(hub, {o}, "Cancelled")
  /\ UNCHANGED pc

AbandonTransfer(s, o) ==
  /\ pc[s] = Idle
  /\ Owned(s, o) /\ hub.ops[o].role # "plain"
  /\ hub' = RemoveOp(hub, o)
  /\ Goto(s, Do(<<"writes", "reads">>, None, 0))

AbandonBlob(s, b) ==
  /\ pc[s] = Idle
  /\ b \in Blobs(hub) /\ hub.res[b].owner = s
  /\ hub' = CloseResource(hub, b, "Closed")
  /\ Goto(s, Do(<<"writes">>, None, 0))

(* suspend_stream_wire arms the idle timeout in a second critical section. *)
(* The first one records that the operation is suspended, which no blob    *)
(* transfer looks at.                                                      *)
Suspend(s, o) ==
  /\ pc[s] = Idle
  /\ Owned(s, o)
  /\ Goto(s, Do(<<"arming">>, o, 0))
  /\ UNCHANGED hub

\* Mutant: a write that waits for capacity gets no idle timeout.
ArmReadsOnly(s) ==
  LET o == pc[s].op
  IN /\ pc[s].at = "arming"
     /\ hub' = [hub EXCEPT !.ops[o].timer = o \in Pending(hub) /\ hub.ops[o].role = "read"]
     /\ Goto(s, Do(<<"parked">>, o, 0))

Arm(s) ==
  LET o == pc[s].op
  IN /\ pc[s].at = "arming"
     /\ hub' = [hub EXCEPT !.ops[o].timer = o \in Pending(hub) /\ hub.ops[o].role # "plain"]
     /\ Goto(s, Do(<<"parked">>, o, 0))

Resume(s) ==
  /\ pc[s].at = "parked"
  /\ pc[s].op \notin Pending(hub)
  /\ Goto(s, Idle)
  /\ UNCHANGED hub

Timers == {o \in DOMAIN hub.ops : hub.ops[o].timer}

\* The quiet interval is over.  Any terminal result cancels the timer.
Timeout(o) ==
  /\ o \in Timers
  /\ hub' = Terminate(hub, {o}, "TimedOut")
  /\ UNCHANGED pc

CloseAll ==
  /\ ~hub.closed
  /\ hub' = CloseLocked(hub, "Closed")
  /\ UNCHANGED pc

-----------------------------------------------------------------------------
Guest(s) ==
  \/ \E b \in Blobs(hub) :
       \/ \E n \in 1 .. MaxChunk : \/ SubmitWrite(s, b, n) \/ SubmitRead(s, b, n)
                                   \/ WriteNow(s, b, n) \/ ReadNow(s, b, n)
       \/ SubmitSeal(s, b) \/ AbandonBlob(s, b)
  \/ \E o \in DOMAIN hub.ops :
       Poll(s, o) \/ Collect(s, o) \/ Cancel(s, o) \/ AbandonTransfer(s, o) \/ Suspend(s, o)

\* What an import in flight still has to do.
Import(s) ==
  \/ DriveWrites(s) \/ PumpReads(s) \/ DriveReads(s) \/ StoreWrite(s) \/ StoreRead(s)
  \/ DropChunk(s) \/ SealBlob(s) \/ ReportSeal(s) \/ Arm(s) \/ Resume(s)

Next == \/ \E s \in Stores : Guest(s) \/ Import(s)
        \/ \E o \in Timers : Timeout(o)
        \/ CloseAll

Spec == Init /\ [][Next]_vars

\* ENABLED Import(s), which TLC evaluates far faster in this form.
Busy(s) ==
  pc[s].at # "idle" /\ (pc[s].at = "parked" => pc[s].op \notin Pending(hub))

\* Weak fairness: an import runs to its end, and the runtime fires a timer
\* whose interval is over.  A blob is not shareable, so while its Store is
\* parked only the operations already pending can restart the interval,
\* finitely often.
Fairness ==
  /\ \A s \in Stores : []<>(~Busy(s)) \/ []<><<Import(s)>>_vars
  /\ \A o \in Token : []<>(o \notin Timers) \/ []<><<Timeout(o)>>_vars

FairSpec == Spec /\ Fairness

\* Instances in which every Store owns a blob.
OneEach == SetToSeq(Stores)

-----------------------------------------------------------------------------
(***************************************************************************)
(* The ledger is the sum of the buffered lengths, so the unchecked         *)
(* `buffered_blob_bytes -= count` of drive_blob_read_pass never            *)
(* underflows.                                                             *)
(***************************************************************************)
LedgerIsExact == hub.ledger = BytesIn(hub, Blobs(hub))

(***************************************************************************)
(* Every quota of BlobLimits holds at every moment, whatever buffers,      *)
(* inputs, results and native chunks are alive together: blob length,      *)
(* bytes and allocated capacity per sketch, retained results, and the      *)
(* transfer bound.                                                         *)
(***************************************************************************)
QuotasHold ==
  /\ \A b \in Blobs(hub) : hub.res[b].len <= MaxBlob /\ hub.res[b].len <= hub.res[b].cap
  /\ Buffers(hub) <= MaxSketch
  /\ Results(hub) <= MaxSketch
  /\ Retained(hub) <= MaxTransfer

(***************************************************************************)
(* The byte accounts of the hub: the ledger is the sum of the buffered     *)
(* lengths and every quota of BlobLimits holds, whatever buffers, inputs,  *)
(* results and native chunks are alive together (admit,                    *)
(* drive_blob_read_pass).                                                  *)
(***************************************************************************)
BytesAreAccounted == TypeOK /\ LedgerIsExact /\ QuotasHold

Quiet == \A s \in Stores : pc[s].at \in {"idle", "parked", "arming"}

(***************************************************************************)
(* No transfer is stranded: when no import is driving, a write that is     *)
(* still pending does not fit and a read that is still pending has nothing *)
(* to deliver.  Each release of capacity or arrival of data was followed   *)
(* by the passes that use it.                                              *)
(***************************************************************************)
NoStrandedTransfer ==
  Quiet =>
    /\ \A o \in WritesWaiting(hub) :
         ~WriteEnds(hub, o) /\ ~Admits(hub, hub.ops[o].res, hub.ops[o].write)
    /\ \A o \in ReadsWaiting(hub) : ~Readable(hub, o)

(***************************************************************************)
(* The seal is the end of the stream: a sealed blob stays sealed and only  *)
(* drains (no write that was waiting at the seal is appended to it), and a *)
(* read completes without bytes, which means EOF to the guest, only when   *)
(* its blob is sealed and drained (seal_blob_checked, drive_blob_reads).   *)
(***************************************************************************)
SealIsEndOfStream ==
  [][/\ \A b \in Blobs(hub) \cap Blobs(hub') : hub.res[b].sealed =>
          hub'.res[b].sealed /\ hub'.res[b].len <= hub.res[b].len
     /\ \A o \in Woken(hub, hub') : hub'.ops[o].result = 0 =>
          /\ hub'.ops[o].res \in Live(hub')
          /\ hub'.res[hub'.ops[o].res].sealed
          /\ hub'.res[hub'.ops[o].res].len = 0]_vars

(***************************************************************************)
(* A guest that suspends on a transfer resumes: the bytes move, or its own *)
(* idle timeout ends the transfer (suspend_stream_wire).                   *)
(***************************************************************************)
SuspendedTransferResumes ==
  \A s \in Stores : pc[s].at = "parked" ~> pc[s].at # "parked"
=============================================================================
