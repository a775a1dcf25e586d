--------------------------- MODULE ComponentHost ---------------------------
(***************************************************************************)
(* The compiler as a guest component sees it (src/wasm/component_compiler   *)
(* .rs), the reservations behind its resource table and its return values  *)
(* (component_transfer.rs), and the same operations as scalar imports of a *)
(* threaded guest (compiler_dispatch.rs).                                  *)
(*                                                                         *)
(*   "store"    one component Store: its table, the host futures of its    *)
(*              calls, the budget, and the teardown by the outer owner;    *)
(*   "input"    the frames of one hasher update, from guest to host;       *)
(*   "imports"  the scalar imports and the grant they hand out once.       *)
(*                                                                         *)
(* The hub is what these modules see of it: a grant, the process that a    *)
(* spawn makes of it, and operations that reach a terminal some time.      *)
(* CompilerProcess models the hub's side of them.                          *)
(***************************************************************************)
EXTENDS Naturals, Sequences, FiniteSets, FiniteSetsExt, Functions

CONSTANTS
    Handles,        \* slots of the resource table
    Calls,          \* host futures at one time
    MaxOps,         \* bound: operations submitted
    MaxResources,   \* maximum_resources of the hub
    MaxCredit,      \* maximum_sketch_bytes, in chunks of 64 KiB
    MaxUpdate,      \* MAX_HASH_UPDATE_BYTES
    MaxFrame        \* HASH_INPUT_CHUNK_BYTES

VARIABLES facet, st, input, im

vars == <<facet, st, input, im>>

Free == [kind |-> "free", lease |-> 0, op |-> 0]
NoCall == [kind |-> "none", at |-> "idle", lease |-> 0, op |-> 0]
NoOp == [kind |-> "none", at |-> "none"]

FreshStore ==
    [phase |-> "run", initial |-> TRUE, table |-> [h \in Handles |-> Free], calls |-> [f \in Calls |-> NoCall],
     ops |-> [o \in 1 .. MaxOps |-> NoOp], next |-> 1, grant |-> "held", process |-> "none", hashes |-> 0, closed |-> FALSE,
     resources |-> 0, charged |-> 0, native |-> 0, draining |-> FALSE, lowering |-> FALSE]

St(r) == facet = "store" /\ st' = r /\ UNCHANGED <<facet, input, im>>
(* The guest runs: nothing of it while a returned list is being lowered. *)
Running == facet = "store" /\ st.phase = "run" /\ ~st.lowering

-----------------------------------------------------------------------------
(* ComponentResourceBudget.                                                *)

CanAcquire(s, chunks) ==
    /\ ~s.draining /\ s.resources < MaxResources
    /\ ~s.closed /\ s.native + chunks <= MaxCredit
Acquired(s, chunks) == [s EXCEPT !.native = @ + chunks, !.charged = @ + chunks, !.resources = @ + 1]

(* A lease given back while the Store is torn down frees its slot only. *)
ComponentResourceLease_drop(s, chunks) ==
    IF s.draining THEN [s EXCEPT !.resources = @ - 1]
    ELSE [s EXCEPT !.resources = @ - 1, !.native = @ - chunks, !.charged = @ - chunks]

-----------------------------------------------------------------------------
(* The hub, as far as the component host uses it.                          *)

Submitted(s, kind) == [s EXCEPT !.ops[s.next] = [kind |-> kind, at |-> "pending"], !.next = @ + 1]
CanSubmit(s) == ~s.closed /\ s.next <= MaxOps
EndProcess(s) ==
    [s EXCEPT !.process = IF @ = "live" THEN "gone" ELSE @,
              !.ops = [o \in DOMAIN @ |-> IF @[o].at = "pending" /\ @[o].kind \in {"spawn", "read", "wait"} THEN [@[o] EXCEPT !.at = "closed"] ELSE @[o]]]
(* An operation already collected is unknown to the hub. *)
Known(s, o) == o # 0 /\ s.ops[o].at \notin {"none", "collected", "abandoned"}

(* Drop of an Operation: a spawn or a read takes the process with it. *)
Operation_drop(s, o) ==
    IF ~Known(s, o) THEN s
    ELSE LET gone == [s EXCEPT !.ops[o].at = "abandoned"]
         IN  IF s.ops[o].kind \in {"spawn", "read"} THEN EndProcess(gone) ELSE gone
(* Drop of an Authority: what the guest no longer owns, the hub closes. *)
Authority_drop(s, kind) ==
    CASE kind = "grant" -> [s EXCEPT !.grant = IF @ = "held" THEN "gone" ELSE @]
      [] kind = "process" -> EndProcess(s)
      [] kind = "hash" -> [s EXCEPT !.hashes = IF @ > 0 THEN @ - 1 ELSE 0]
      [] OTHER -> s

Terminals(kind) == IF kind = "spawn" THEN {"completed", "failed"} ELSE {"completed", "closed"}
OperationEnds(o) ==
    /\ facet = "store" /\ st.ops[o].at = "pending"
    /\ \E t \in Terminals(st.ops[o].kind) :
         St([st EXCEPT !.ops[o].at = t, !.process = IF st.ops[o].kind = "spawn" /\ t = "failed" THEN "gone" ELSE @])

-----------------------------------------------------------------------------
(* The table; the budget admits no more entries than it has slots.         *)

FreeHandle(s, h) == s.table[h].kind = "free"
Pushed(s, kind, lease, o) ==
    LET h == CHOOSE x \in Handles : FreeHandle(s, x)
    IN  [s EXCEPT !.table[h] = [kind |-> kind, lease |-> lease, op |-> o]]
Deleted(s, h) ==
    LET e == s.table[h]
    IN  ComponentResourceLease_drop(Authority_drop(Operation_drop([s EXCEPT !.table[h] = Free], e.op), e.kind), e.lease)

granted ==
    /\ Running /\ st.initial /\ CanAcquire(st, 0)
    /\ St(Pushed([Acquired(st, 0) EXCEPT !.initial = FALSE], "grant", 0, 0))
(* The drops of the four resources, and the finish of a hasher. *)
resource_drop(h) == Running /\ ~FreeHandle(st, h) /\ St(Deleted(st, h))

-----------------------------------------------------------------------------
(* The asynchronous calls: admission in one step, the answer in another.   *)

Idle(f) == st.calls[f].kind = "none"
Begins(s, f, kind, lease) == [Submitted(s, kind) EXCEPT !.calls[f] = [kind |-> kind, at |-> "wait", lease |-> lease, op |-> s.next]]
Has(h, kind) == st.table[h].kind = kind
Ended(f, states) == st.calls[f].op # 0 /\ st.ops[st.calls[f].op].at \in states

(* The grant has left the guest even when admission fails; it lives on in  *)
(* the future, whose drop finds it already spent.                          *)
spawn(f, h) ==
    /\ Running /\ Idle(f) /\ Has(h, "grant")
    /\ LET taken == [st EXCEPT !.table[h] = Free]
           refused == ComponentResourceLease_drop(Authority_drop(taken, "grant"), 0)
           permit == Acquired(taken, 0)
       IN  \/ ~CanAcquire(taken, 0) /\ St(refused)
           \/ /\ CanAcquire(taken, 0) /\ CanSubmit(st) /\ st.grant = "held"
              /\ St([Begins(permit, f, "spawn", 0) EXCEPT !.grant = "spent", !.process = "live"])
           \/ CanAcquire(taken, 0) /\ St(ComponentResourceLease_drop(ComponentResourceLease_drop(Authority_drop(permit, "grant"), 0), 0))
SpawnReturns(f) ==
    /\ facet = "store" /\ st.phase = "run" /\ ~st.lowering /\ st.calls[f].kind = "spawn" /\ Ended(f, {"completed", "failed", "closed"})
    /\ LET c == st.calls[f]
           done == ComponentResourceLease_drop([st EXCEPT !.calls[f] = NoCall, !.ops[c.op].at = "collected"], 0)   \* _grant
       IN  St(IF st.ops[c.op].at = "completed" THEN Pushed(done, "process", 0, 0) ELSE ComponentResourceLease_drop(done, 0))

(* Both the table slot and the lowering allowance precede the native read. *)
read(f, h) ==
    /\ Running /\ Idle(f) /\ Has(h, "process") /\ CanAcquire(st, 1)
    /\ LET permit == Acquired(st, 1)
       IN  \/ CanSubmit(st) /\ st.process = "live" /\ St(Begins(permit, f, "read", 1))
           \/ St(ComponentResourceLease_drop(permit, 1))
ReadReturns(f) ==
    /\ Running /\ st.calls[f].kind = "read" /\ Ended(f, {"completed", "closed"})
    /\ St(Pushed([st EXCEPT !.calls[f] = NoCall], "output", 1, st.calls[f].op))

(* The copy leaves the event's own lease: the output's permit covers it    *)
(* until the guest, back from the lowering, drops the output.              *)
copy(h) ==
    /\ Running /\ Has(h, "output")
    /\ LET o == st.table[h].op
       IN  /\ o # 0 /\ (st.ops[o].at = "completed" => st.process = "live")         \* else an error, and nothing changes
           /\ St([st EXCEPT !.ops[o].at = "collected", !.table[h].op = 0, !.lowering = st.ops[o].at = "completed"])
Lowered == facet = "store" /\ st.phase = "run" /\ st.lowering /\ St([st EXCEPT !.lowering = FALSE])

wait(f, h) == Running /\ Idle(f) /\ Has(h, "process") /\ CanSubmit(st) /\ st.process = "live" /\ St(Begins(st, f, "wait", 0))
close(f, h) ==
    /\ Running /\ Idle(f) /\ Has(h, "process")
    /\ \/ /\ CanSubmit(st) /\ st.process = "live"
          /\ St([Begins(EndProcess(st), f, "close", 0) EXCEPT !.table[h] = Free])
       \/ St(Deleted(st, h))
ScalarReturns(f) ==
    /\ Running /\ st.calls[f].kind \in {"wait", "close"} /\ Ended(f, {"completed", "closed"})
    /\ LET c == st.calls[f]
           done == [st EXCEPT !.calls[f] = NoCall, !.ops[c.op].at = "collected"]
       IN  St(IF c.kind = "close" THEN ComponentResourceLease_drop(done, 0) ELSE done)

hash_create ==
    /\ Running /\ CanAcquire(st, 0)
    /\ \/ ~st.closed /\ St(Pushed([Acquired(st, 0) EXCEPT !.hashes = @ + 1], "hash", 0, 0))
       \/ St(ComponentResourceLease_drop(Acquired(st, 0), 0))
(* The update's scratch lease rides with its consumer, then with the bytes. *)
hash_update(f, h) ==
    /\ Running /\ Idle(f) /\ Has(h, "hash") /\ CanAcquire(st, 1)
    /\ St([Acquired(st, 1) EXCEPT !.calls[f] = [kind |-> "update", at |-> "pipe", lease |-> 1, op |-> 0]])
UpdateReturns(f) ==
    /\ Running /\ st.calls[f].kind = "update"
    /\ St(ComponentResourceLease_drop([st EXCEPT !.calls[f] = NoCall], 1))

-----------------------------------------------------------------------------
(* Teardown: admission closes, the hub closes, the Store and everything it *)
(* holds is destroyed in some order, and only then the credits return.     *)

begin_teardown ==
    /\ facet = "store" /\ st.phase = "run"                     \* a return, a trap or a cancellation
    /\ St([st EXCEPT !.draining = TRUE, !.phase = "draining"])
close_all ==
    /\ facet = "store" /\ st.phase = "draining" /\ ~st.closed
    /\ St([EndProcess(st) EXCEPT !.closed = TRUE, !.grant = IF @ = "held" THEN "gone" ELSE @, !.hashes = 0,
                                 !.ops = [o \in DOMAIN @ |-> IF @[o].at = "pending" THEN [@[o] EXCEPT !.at = "closed"] ELSE @[o]]])
Dropping == facet = "store" /\ st.phase = "draining" /\ st.closed
DropEntry(h) == Dropping /\ ~FreeHandle(st, h) /\ St(Deleted(st, h))
(* The future of a call, dropped by a cancelling guest or with the Store. *)
DropCall(f) ==
    /\ ~Idle(f) /\ (Dropping \/ (Running /\ st.calls[f].kind # "update"))      \* an update's lease is its consumer's
    /\ LET c == st.calls[f]
           dropped == Operation_drop([st EXCEPT !.calls[f] = NoCall], c.op)
           extra == IF c.kind = "spawn" THEN ComponentResourceLease_drop(dropped, 0) ELSE dropped      \* the grant's own lease
       IN  St(IF c.kind = "wait" THEN dropped ELSE ComponentResourceLease_drop(extra, c.lease))
(* The host's list of a lowering that trapped goes with the Store. *)
DropLowering == Dropping /\ st.lowering /\ St([st EXCEPT !.lowering = FALSE])
Destroyed == Dropping /\ ~st.lowering /\ (\A h \in Handles : FreeHandle(st, h)) /\ (\A f \in Calls : Idle(f)) /\ St([st EXCEPT !.phase = "dropped"])
(* Refused while anything is live; the owner calls it again after the drop. *)
finish_teardown ==
    /\ facet = "store" /\ st.phase = "dropped" /\ st.draining /\ st.resources = 0
    /\ St([st EXCEPT !.native = @ - st.charged, !.charged = 0, !.phase = "finished"])
-----------------------------------------------------------------------------
(* The frames of a hasher update.  `sent` counts the bytes the guest put   *)
(* into frames, `over` that it sent a frame after its last one.            *)

Frames == [used : 0 .. MaxFrame + 1, last : BOOLEAN]
FreshInput == [at |-> "open", batch |-> <<>>, len |-> 0, result |-> "none", lease |-> "consumer", sent |-> 0, last |-> FALSE, over |-> FALSE, wide |-> FALSE]
In(r) == facet = "input" /\ input' = r /\ UNCHANGED <<facet, st, im>>

reject(r) == [r EXCEPT !.result = IF @ = "none" THEN "rejected" ELSE @]
accept(r) == [r EXCEPT !.result = IF @ = "none" THEN "accepted" ELSE @, !.lease = "caller"]

GuestWrites(batch) ==
    /\ facet = "input" /\ input.at = "open" /\ input.batch = <<>> /\ ~input.over
    /\ In([input EXCEPT !.batch = batch, !.at = "poll", !.sent = @ + FoldFunction(+, 0, [i \in DOMAIN batch |-> batch[i].used]),
                        !.wide = @ \/ \E i \in DOMAIN batch : batch[i].used > MaxFrame,
                        !.over = @ \/ input.last \/ \E i \in DOMAIN batch : batch[i].last /\ i < Len(batch),
                        !.last = @ \/ \E i \in DOMAIN batch : batch[i].last])
(* One poll: the size of the whole batch before any frame of it is lifted. *)
poll_consume ==
    /\ facet = "input" /\ input.at = "poll"
    /\ \/ In([reject(input) EXCEPT !.at = "dropped"])                        \* finish: the read was cancelled
       \/ In(IF Len(input.batch) > MaxUpdate - input.len + 1 THEN [reject(input) EXCEPT !.at = "dropped"] ELSE [input EXCEPT !.at = "frames"])
receive ==
    LET c == Head(input.batch)
        rest == Tail(input.batch)
    IN  /\ facet = "input" /\ input.at = "frames" /\ input.batch # <<>>
        /\ In(IF c.used > MaxFrame \/ (~c.last /\ c.used = 0) \/ input.len + c.used > MaxUpdate
              THEN [reject(input) EXCEPT !.at = "dropped"]
              ELSE LET r == [input EXCEPT !.len = @ + c.used, !.batch = rest]
                   IN  IF ~c.last THEN r
                       ELSE [IF rest = <<>> THEN accept(r) ELSE reject(r) EXCEPT !.at = "dropped"])
PollEnds == facet = "input" /\ input.at = "frames" /\ input.batch = <<>> /\ In([input EXCEPT !.at = "open"])
(* A producer that vanishes, or the Store with the consumer in it. *)
HashInputConsumer_drop == facet = "input" /\ input.at # "dropped" /\ In([reject(input) EXCEPT !.at = "dropped"])

-----------------------------------------------------------------------------
(* The scalar imports.  arg1 is zero, or holds a pointer in its low half   *)
(* (inside the memory or not) and a capacity in its high half.             *)

Args == [zero : {TRUE}, inside : {TRUE}, high : {0}] \cup [zero : {FALSE}, inside : BOOLEAN, high : 0 .. 2]
Chunk == 2                  \* 65536: the capacity a collection needs
FreshImports == {[grant |-> TRUE, given |-> 0, runtime |-> r, read |-> "ready", events |-> 0, result |-> "none"] : r \in BOOLEAN}
Im(r) == facet = "imports" /\ im' = r /\ UNCHANGED <<facet, st, input>>
Answer(r, what) == [r EXCEPT !.result = what]

(* 35 hands out the grant; the kinds that start work need a runtime; 38    *)
(* collects into pinned memory; 48 reads a key from it.                    *)
CompilerImports_submit(kind, arg0, a) ==
    IF kind \notin {38, 48} /\ ~a.zero THEN Answer(im, "zero")
    ELSE CASE kind = 35 -> IF arg0 = 0 /\ im.grant THEN Answer([im EXCEPT !.grant = FALSE, !.given = @ + 1], "token") ELSE Answer(im, "zero")
           [] kind \in {36, 37, 43, 45} -> IF ~im.runtime THEN Answer(im, "zero")
                                           ELSE Answer([im EXCEPT !.read = IF kind = 37 /\ @ = "none" THEN "ready" ELSE @], "token")
           [] kind = 38 -> IF a.high < Chunk \/ ~a.inside \/ im.read # "ready" THEN Answer(im, "error")
                           ELSE Answer([im EXCEPT !.read = "none", !.events = IF @ < 2 THEN @ + 1 ELSE @], "event")
           [] kind = 48 -> IF a.high # 0 \/ ~a.inside THEN Answer(im, "zero") ELSE Answer(im, "status")
           [] kind \in {39, 40, 41, 42, 44, 46, 47} -> Answer([im EXCEPT !.read = IF kind = 39 THEN "none" ELSE @], "done")
           [] OTHER -> Answer(im, "notMine")
ImportCalled(kind, arg0, a) == facet = "imports" /\ Im(CompilerImports_submit(kind, arg0, a))

-----------------------------------------------------------------------------
OffInput == [FreshInput EXCEPT !.at = "dropped"]
OffImports == [grant |-> FALSE, given |-> 0, runtime |-> FALSE, read |-> "none", events |-> 0, result |-> "none"]
Init ==
    \/ facet = "store" /\ st = FreshStore /\ input = OffInput /\ im = OffImports
    \/ facet = "input" /\ input = FreshInput /\ st = FreshStore /\ im = OffImports
    \/ facet = "imports" /\ im \in FreshImports /\ st = FreshStore /\ input = OffInput

Next ==
    \/ granted \/ hash_create \/ Lowered \/ begin_teardown \/ close_all \/ DropLowering \/ Destroyed \/ finish_teardown
    \/ \E o \in DOMAIN st.ops : OperationEnds(o)
    \/ \E h \in Handles : resource_drop(h) \/ copy(h) \/ DropEntry(h)
    \/ \E f \in Calls : SpawnReturns(f) \/ ReadReturns(f) \/ ScalarReturns(f) \/ UpdateReturns(f) \/ DropCall(f)
    \/ \E f \in Calls, h \in Handles : spawn(f, h) \/ read(f, h) \/ wait(f, h) \/ close(f, h) \/ hash_update(f, h)
    \/ \E b \in UNION {[1 .. n -> Frames] : n \in 1 .. 2} : GuestWrites(b)
    \/ poll_consume \/ receive \/ PollEnds \/ HashInputConsumer_drop
    \/ \E k \in 34 .. 48, z \in {0, 1}, a \in Args : ImportCalled(k, z, a)

Spec == Init /\ [][Next]_vars

-----------------------------------------------------------------------------
(* Properties.                                                             *)

Entries == {h \in Handles : st.table[h].kind # "free"}
Busy == {f \in Calls : st.calls[f].kind # "none"}
(* A spawning call holds its permit and the grant's; a wait holds none. *)
CallLeases(f) == CASE st.calls[f].kind = "spawn" -> 2 [] st.calls[f].kind = "wait" -> 0 [] OTHER -> 1
HeldBytes == MapThenSumSet(LAMBDA h : st.table[h].lease, Entries) + MapThenSumSet(LAMBDA f : st.calls[f].lease, Busy)

(* Reservations match what they stand for.  The budget counts exactly the  *)
(* table entries and the pending calls that hold a permit; the hub charges *)
(* what they reserved, never above the sketch's bytes; and a list that is  *)
(* being lowered into the guest, or was when the Store trapped, is charged *)
(* until the Store is gone (ComponentResourceBudget, HostOutput::copy).    *)
ReservationsCoverResults ==
    facet = "store" =>
        /\ st.resources = Cardinality(Entries) + MapThenSumSet(CallLeases, Busy)
        /\ st.native = st.charged /\ st.native <= MaxCredit
        /\ IF st.draining THEN st.charged >= HeldBytes \/ st.phase = "finished" ELSE st.charged = HeldBytes
        /\ st.lowering => st.charged > 0
        /\ st.phase = "finished" => st.native = 0

(* Authority has an owner.  As long as the Store lives, the hub's grant is *)
(* held by the Store, a table entry or a call, and a live process by a     *)
(* table entry or by the spawn whose result nobody collected yet: no       *)
(* ended, refused or dropped call leaves a process behind (the Drop of     *)
(* Operation and Authority).                                               *)
AuthorityHasAnOwner ==
    facet = "store" =>
        /\ st.grant = "held" => st.initial \/ \E h \in Entries : st.table[h].kind = "grant"
        /\ st.process = "live" => \/ \E h \in Entries : st.table[h].kind = "process"
                                  \/ \E f \in Busy : st.calls[f].kind = "spawn" /\ Known(st, st.calls[f].op)
        /\ st.hashes <= Cardinality({h \in Entries : st.table[h].kind = "hash"})
        /\ st.phase \in {"dropped", "finished"} => st.grant # "held" /\ st.process # "live"

(* Only an explicit end commits.  An update reaches the hasher only when   *)
(* its guest marked a last frame and sent nothing after it, and then with  *)
(* every byte it sent, within the bounds of a frame and of an update; a    *)
(* vanished producer, a cancelled read and a torn down Store commit        *)
(* nothing (HashInputConsumer).  The grant of the scalar imports leaves    *)
(* the host at most once and only to a well-formed call, and an event only *)
(* into memory that can hold it (CompilerImports::submit).                 *)
CommitsAreExplicit ==
    /\ facet = "input" /\ input.result = "accepted" =>
           /\ input.last /\ ~input.over /\ ~input.wide /\ input.len = input.sent /\ input.len <= MaxUpdate
           /\ input.lease = "caller"
    /\ facet = "imports" => im.given = (IF im.grant THEN 0 ELSE 1)
=============================================================================
