----------------------------- MODULE FileGuards -----------------------------
(***************************************************************************)
(* What a caller owns while it works with files, and what it leaves behind *)
(* when it stops.  Four facets, each started from its own initial states:  *)
(*                                                                         *)
(*   "locks"    advisory lock guards over several open handles of one      *)
(*              file, borrowed and owned, on Unix (flock) and Windows      *)
(*              (one byte far past the data);                              *)
(*   "writes"   AsyncFileIo: admission permits, a blocking worker that     *)
(*              checks a stop flag between native calls, and a caller that *)
(*              waits, times out or is cancelled;                          *)
(*   "scratch"  a scratch directory anchored by identity, whose path other *)
(*              processes may rename and replace;                          *)
(*   "writers"  waiting until nobody holds a file open for writing.        *)
(***************************************************************************)
EXTENDS Naturals, FiniteSets

CONSTANTS
    Handles,        \* open handles of the lock file
    Ops,            \* asynchronous writes
    MaxOperations,  \* AsyncFileIo's admission limit
    MaxChunks,      \* bound: chunks of one write
    MaxMoves        \* bound: steps of other processes

VARIABLES
    facet,    \* the part of this behaviour
    host,     \* "unix" or "windows"
    locks,    \* handle -> [open, kernel, guard, wants]
    ops,      \* write -> its caller, worker and file
    scratch,  \* the scratch directory, its names and its owner
    lease,    \* the writers of a file and the process that waits for them
    moves     \* bound: steps of other processes so far

vars == <<facet, host, locks, ops, scratch, lease, moves>>

-----------------------------------------------------------------------------
(* Advisory locks.                                                         *)

Modes == {"shared", "exclusive"}
Closed == [open |-> FALSE, kernel |-> "none", guard |-> "none", wants |-> "none"]
Opened == [Closed EXCEPT !.open = TRUE]

LockSet(h, r) == locks' = [locks EXCEPT ![h] = r]
OnlyLocks == UNCHANGED <<facet, host, ops, scratch, lease, moves>>

open_lock_file(h) ==
    /\ ~locks[h].open
    /\ LockSet(h, Opened) /\ OnlyLocks

(* What the kernel answers.  flock converts the handle's own lock and      *)
(* refuses a mode that another open file's lock excludes; LockFileEx on    *)
(* the one lock byte refuses an overlap with its own handle's lock too.    *)
Excludes(g, mode) ==
    locks[g].kernel # "none" /\ (mode = "exclusive" \/ locks[g].kernel = "exclusive")
flock(h, mode) == ~\E g \in Handles \ {h} : Excludes(g, mode)
lock_file(h, mode) == ~\E g \in Handles : Excludes(g, mode)

Conflicts(h, mode) == IF host = "windows" THEN ~lock_file(h, mode) ELSE ~flock(h, mode)

(* try_lock_*: an immediate conflict leaves no guard, and closes the file  *)
(* when the guard would have owned it.  One guard per open file is the     *)
(* caller's rule.                                                          *)
TryLock(h, mode, owned) ==
    /\ locks[h].open /\ locks[h].guard = "none" /\ locks[h].wants = "none"
    /\ locks[h].kernel = "none"
    /\ IF Conflicts(h, mode)
       THEN LockSet(h, IF owned THEN Closed ELSE locks[h])
       ELSE LockSet(h, [locks[h] EXCEPT !.kernel = mode,
                                        !.guard = IF owned THEN "owned" ELSE "borrowed"])
    /\ OnlyLocks

(* lock_*: the caller sleeps in the kernel until the mode is compatible. *)
LockWait(h, mode) ==
    /\ locks[h].open /\ locks[h].guard = "none" /\ locks[h].wants = "none"
    /\ locks[h].kernel = "none"
    /\ LockSet(h, [locks[h] EXCEPT !.wants = mode])
    /\ OnlyLocks

LockGranted(h, owned) ==
    /\ locks[h].wants # "none" /\ ~Conflicts(h, locks[h].wants)
    /\ LockSet(h, [locks[h] EXCEPT !.kernel = locks[h].wants, !.wants = "none",
                                   !.guard = IF owned THEN "owned" ELSE "borrowed"])
    /\ OnlyLocks

(* UnlockFileEx names the range lock_file took; LOCK_UN names the file. *)
unlock(h) == [locks[h] EXCEPT !.kernel = "none", !.guard = "none"]

(* Dropping a borrowed guard unlocks; dropping an owned one also closes,   *)
(* which releases a lock whose explicit release failed.                    *)
DropGuard(h) ==
    /\ locks[h].guard # "none"
    /\ LockSet(h, IF locks[h].guard = "owned" THEN Closed ELSE unlock(h))
    /\ OnlyLocks

(* OwnedFileLock::unlock gives the file back, with the lock still held     *)
(* when the host refused.                                                  *)
OwnedUnlock(h) ==
    /\ locks[h].guard = "owned"
    /\ \/ LockSet(h, unlock(h))
       \/ LockSet(h, [locks[h] EXCEPT !.guard = "refused"])
    /\ OnlyLocks

CloseHandle(h) ==
    /\ locks[h].open /\ locks[h].guard \in {"none", "refused"} /\ locks[h].wants = "none"
    /\ LockSet(h, Closed) /\ OnlyLocks

-----------------------------------------------------------------------------
(* Asynchronous writes.                                                    *)

IdleOp == [caller |-> "idle", worker |-> "none", chunks |-> 0, written |-> 0,
           stop |-> FALSE, after |-> 0, ok |-> FALSE]

OnlyOps == UNCHANGED <<facet, host, locks, scratch, lease, moves>>
OpSet(o, r) == ops' = [ops EXCEPT ![o] = r]

Working == {o \in Ops : ops[o].worker \notin {"none", "ended"}}

(* write: the size check and the permit come before any effect. *)
write(o) ==
    /\ ops[o].caller = "idle"
    /\ \/ OpSet(o, [ops[o] EXCEPT !.caller = "refused"])             \* over the byte limit
       \/ /\ Cardinality(Working) >= MaxOperations                   \* WouldBlock
          /\ OpSet(o, [ops[o] EXCEPT !.caller = "refused"])
       \/ /\ Cardinality(Working) < MaxOperations
          /\ \E n \in 0 .. MaxChunks :
                 OpSet(o, [ops[o] EXCEPT !.caller = "waiting", !.worker = "start", !.chunks = n])
    /\ OnlyOps

(* check_stop before a native call: the call follows only when the flag    *)
(* was clear, and it may be set while the call runs.                       *)
check_stop(o, next) ==
    IF ops[o].stop THEN [ops[o] EXCEPT !.worker = "failed"] ELSE [ops[o] EXCEPT !.worker = next]

CheckedStep(o) ==
    /\ ops[o].worker \in {"start", "dirs", "created", "chunk"}
    /\ OpSet(o, check_stop(o,
          CASE ops[o].worker = "start" -> "create_dir_all"
            [] ops[o].worker = "dirs" -> "create"
            [] ops[o].worker = "created" -> IF ops[o].chunks = 0 THEN "flushing" ELSE "write_all"
            [] ops[o].worker = "chunk" -> IF ops[o].written < ops[o].chunks
                                          THEN "write_all" ELSE "flushing"))
    /\ OnlyOps

(* A native call: it counts the calls that end after a stop was requested. *)
NativeStep(o) ==
    LET r == [ops[o] EXCEPT !.after = IF ops[o].stop THEN @ + 1 ELSE @]
    IN /\ ops[o].worker \in {"create_dir_all", "create", "write_all", "flushing"}
       /\ \/ OpSet(o, [r EXCEPT !.worker = "failed"])
          \/ OpSet(o, CASE ops[o].worker = "create_dir_all" -> [r EXCEPT !.worker = "dirs"]
                        [] ops[o].worker = "create" -> [r EXCEPT !.worker = "created"]
                        [] ops[o].worker = "write_all" ->
                              [r EXCEPT !.worker = "chunk", !.written = @ + 1]
                        [] ops[o].worker = "flushing" -> [r EXCEPT !.worker = "succeeded"])
       /\ OnlyOps

(* The closure returns; its permit goes with it, and a caller that still   *)
(* waits receives the result.                                              *)
WorkerEnds(o) ==
    /\ ops[o].worker \in {"failed", "succeeded"}
    /\ OpSet(o, [ops[o] EXCEPT !.worker = "ended",
                    !.caller = IF @ = "waiting" THEN "done" ELSE @,
                    !.ok = (ops[o].caller = "waiting" /\ ops[o].worker = "succeeded")])
    /\ OnlyOps

(* StopOnDrop: the deadline expires, or the future is dropped. *)
StopOnDrop(o) == [ops[o] EXCEPT !.caller = "gone", !.stop = TRUE]

CallerLeaves(o) ==
    /\ ops[o].caller = "waiting"
    /\ OpSet(o, StopOnDrop(o))
    /\ OnlyOps

-----------------------------------------------------------------------------
(* Scratch directories.  A directory is a number; 0 is none.  The owner's  *)
(* directory is 1 and others put 2 in its place.                           *)

OnlyScratch == UNCHANGED <<facet, host, locks, ops, lease>>

(* tempdir_in: exclusive creation under the parent *)
CreateTemp ==
    /\ scratch.at = "new"
    /\ scratch' = [scratch EXCEPT !.at = "temp", !.path = 1, !.live = {1}]
    /\ OnlyScratch /\ UNCHANGED moves

(* Anchor::open: a directory that is not a link, reopened by identity; a   *)
(* failure drops the TempDir, which removes by path.                       *)
OpenAnchor ==
    /\ scratch.at = "temp"
    /\ \/ /\ scratch.path # 0
          /\ scratch' = [scratch EXCEPT !.at = "owned", !.anchor = scratch.path]
       \/ scratch' = [scratch EXCEPT !.at = "gone", !.live = @ \ {scratch.path}, !.path = 0]
    /\ OnlyScratch /\ UNCHANGED moves

(* Windows asks the anchor for its current path, opens it without delete   *)
(* sharing and compares identities; Unix removes through the descriptor.   *)
remove(current) == IF host = "windows" /\ current # scratch.anchor THEN 0 ELSE scratch.anchor

(* Between the query and the open the directory may be moved again. *)
CurrentPath ==
    /\ scratch.at = "owned"
    /\ scratch' = [scratch EXCEPT !.at = "removing",
                      !.where = IF scratch.path = scratch.anchor THEN "path" ELSE "moved"]
    /\ OnlyScratch /\ UNCHANGED moves

Found == IF scratch.where = "path" THEN scratch.path
         ELSE IF scratch.path = scratch.anchor THEN 0 ELSE scratch.anchor

RemoveAnchored ==
    /\ scratch.at = "removing"
    /\ \/ /\ Found # 0
          /\ LET gone == remove(Found)
             IN scratch' = [scratch EXCEPT !.at = "gone", !.live = @ \ {gone},
                               !.path = IF @ = gone THEN 0 ELSE @]
       \/ scratch' = [scratch EXCEPT !.at = "gone"]       \* the error is reported or ignored
    /\ OnlyScratch /\ UNCHANGED moves

(* Another process renames the directory away, puts its own in its place,  *)
(* or moves the original back.                                             *)
OtherMoves ==
    /\ scratch.at \in {"owned", "removing"} /\ moves < MaxMoves
    /\ \/ scratch.path = 1 /\ scratch' = [scratch EXCEPT !.path = 0]
       \/ scratch.path = 0 /\ 2 \notin scratch.live
          /\ scratch' = [scratch EXCEPT !.path = 2, !.live = @ \cup {2}, !.foreign = TRUE]
       \/ scratch.path = 0 /\ 1 \in scratch.live /\ scratch' = [scratch EXCEPT !.path = 1]
    /\ moves' = moves + 1
    /\ OnlyScratch

-----------------------------------------------------------------------------
(* Waiting for writers.                                                    *)

OnlyLease == UNCHANGED <<facet, host, locks, ops, scratch>>

ClearLease == [lease EXCEPT !.at = "clear"]

(* F_SETLEASE(F_RDLCK) succeeds exactly when nobody has the file open for  *)
(* writing; the lease is released at once.  Otherwise the wait goes on to  *)
(* its deadline; where leases do not work the answer is Unobservable.      *)
await_no_writers ==
    /\ lease.at = "waiting"
    /\ \/ lease.writers = 0 /\ lease' = ClearLease
       \/ lease.writers > 0 /\ lease.late /\ lease' = [lease EXCEPT !.at = "timed_out"]
       \/ lease' = [lease EXCEPT !.at = "unobservable"]
    /\ OnlyLease /\ UNCHANGED moves

(* Writers open and close; a child inherits the descriptor until it execs. *)
WritersChange ==
    /\ facet = "writers" /\ moves < MaxMoves
    /\ \/ lease.held = FALSE /\ lease' = [lease EXCEPT !.writers = @ + 1]
       \/ lease.writers > 0 /\ lease' = [lease EXCEPT !.writers = @ - 1]
       \/ ~lease.late /\ lease' = [lease EXCEPT !.late = TRUE]
    /\ moves' = moves + 1
    /\ OnlyLease

-----------------------------------------------------------------------------
NoScratch == [at |-> "new", path |-> 0, anchor |-> 0, live |-> {}, where |-> "path",
              foreign |-> FALSE]
NoLease == [at |-> "waiting", writers |-> 0, late |-> FALSE, held |-> FALSE]

Init ==
    /\ facet \in {"locks", "writes", "scratch", "writers"}
    /\ host \in {"unix", "windows"}
    /\ facet \in {"writes", "writers"} => host = "unix"
    /\ locks = [h \in Handles |-> Closed]
    /\ ops = [o \in Ops |-> IdleOp]
    /\ scratch = NoScratch /\ moves = 0
    /\ IF facet = "writers" THEN \E n \in 0 .. 2 : lease = [NoLease EXCEPT !.writers = n]
                            ELSE lease = NoLease

NextLocks ==
    /\ facet = "locks"
    /\ \E h \in Handles :
           \/ open_lock_file(h) \/ DropGuard(h) \/ OwnedUnlock(h) \/ CloseHandle(h)
           \/ \E mode \in Modes : LockWait(h, mode) \/ (\E owned \in BOOLEAN : TryLock(h, mode, owned))
           \/ \E owned \in BOOLEAN : LockGranted(h, owned)
NextWrites ==
    /\ facet = "writes"
    /\ \E o \in Ops : write(o) \/ CheckedStep(o) \/ NativeStep(o) \/ WorkerEnds(o) \/ CallerLeaves(o)
NextScratch ==
    /\ facet = "scratch"
    /\ CreateTemp \/ OpenAnchor \/ CurrentPath \/ RemoveAnchored \/ OtherMoves
NextWriters == facet = "writers" /\ (await_no_writers \/ WritersChange)

Next == NextLocks \/ NextWrites \/ NextScratch \/ NextWriters

Spec == Init /\ [][Next]_vars

-----------------------------------------------------------------------------
(* A guard is the lock: a guarded handle holds the kernel lock, a handle   *)
(* whose guard is gone does not (unless the host refused an explicit       *)
(* release), and two guards never exclude each other at the same time.     *)
GuardsExclude ==
    /\ \A h \in Handles :
          (locks[h].kernel # "none") = (locks[h].guard \in {"borrowed", "owned", "refused"})
    /\ \A g, h \in Handles :
          g # h /\ locks[g].guard \in {"borrowed", "owned"} /\ locks[g].kernel = "exclusive"
              => locks[h].guard \notin {"borrowed", "owned"}

(* At most the admitted number of workers exists, a caller that has left   *)
(* included; success means that every chunk was written and flushed; and   *)
(* after a stop was requested at most one native call still ends.          *)
WritesAreAdmitted ==
    /\ Cardinality(Working) <= MaxOperations
    /\ \A o \in Ops :
          /\ ops[o].ok => ops[o].written = ops[o].chunks /\ ops[o].caller = "done"
          /\ ops[o].after <= 1
          /\ ops[o].worker = "ended" /\ ops[o].caller = "gone" => ops[o].stop

(* Cleaning up a scratch directory never removes what another process put  *)
(* in its place once the anchor is held, wherever the directory went.      *)
ScratchRemovesOnlyItsOwn == scratch.foreign => 2 \in scratch.live

(* "Clear" leaves no lease behind to disturb the next opener. *)
ClearHoldsNothing == lease.at = "clear" => ~lease.held

=============================================================================
