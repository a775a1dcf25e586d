------------------------------ MODULE GuestFacade ------------------------------
(***************************************************************************)
(* The guest's side of the kernel ABI: the values of guest.rs over the     *)
(* generated bindings (wasm/generated/v1/guest_bindings.rs).  A guest      *)
(* value owns a host token; what the guest forgets, the host keeps until   *)
(* the root ends.  The guest is one Wasm stack: an awaited operation parks *)
(* it inside the operation_yield import (a refused yield traps the guest), *)
(* so an async call is a submit followed by a resume at its terminal.      *)
(* Transfers are the exception: they are values, polled, cancelled and     *)
(* dropped at will.                                                        *)
(*                                                                         *)
(* The host is external here (OperationHub and CompilerProcess model it):  *)
(* it answers an operation with any terminal, and refuses a token it does  *)
(* not know.                                                               *)
(*                                                                         *)
(* The second facet checks the packed results the two sides exchange, over *)
(* scaled-down widths: a packed result is payload * Byte + status.         *)
(***************************************************************************)
EXTENDS Integers, FiniteSets

CONSTANTS
    MaxTokens,      \* bound: operations and resources the host ever names
    MaxSlots,       \* bound: operations the host keeps at once
    Word,           \* the width of an exit code: 2^32 in the code
    Chunk           \* the chunk limit: 65536 in the code

VARIABLES facet, host, vals, cur, probe
vars == <<facet, host, vals, cur, probe>>

Tokens == 1..MaxTokens
Errors == {"Rejected", "Cancelled", "Closed", "Failed", "TimedOut"}
\* What the host answers: the kinds of failure differ only as packed results.
Ends == {"Completed", "Failed"}
Idle == [k |-> "idle", op |-> 0, on |-> 0]
Unnamed == [is |-> "unused"]

---------------------------------------------------------------------------
\* The host, from how the bindings use it.

\* What an operation's completion names: the resource its slot reserves.
Makes == [blob_create |-> "blob", hash_new |-> "hash", spawn |-> "process",
          view_open |-> "view", view_capture |-> "blob",
          authenticate |-> "archive", next_entry |-> "entry", entry_open |-> "blob"]

Ops(h) == {t \in Tokens : h[t].is = "op"}
Resources(h) == {t \in Tokens : h[t].is = "resource"}
Unused(h) == {t \in Tokens : h[t].is = "unused"}

\* Tokens are never reused: the lowest unused ones are next.
NextToken(h, n) == (CHOOSE t \in Unused(h) : \A u \in Unused(h) : t <= u) + n

CanSubmit(h, k) ==
    /\ Cardinality(Ops(h)) < MaxSlots
    /\ Cardinality(Unused(h)) >= IF k \in DOMAIN Makes THEN 2 ELSE 1

\* operation_submit of an awaitable kind: a slot, and the resource it reserves.
Submitted(h, k, on) ==
    LET o == NextToken(h, 0)
        r == NextToken(h, 1)
    IN  [t \in Tokens |->
            IF t = o THEN [is |-> "op", k |-> k, on |-> on, end |-> "pending",
                           makes |-> IF k \in DOMAIN Makes THEN r ELSE 0]
            ELSE IF t = r /\ k \in DOMAIN Makes
                 THEN [is |-> "resource", kind |-> Makes[k]]
            ELSE h[t]]

Gone == [is |-> "gone"]

\* Revoking a resource ends what was pending on it.
Revoked(h, r) ==
    IF r \in Resources(h)
    THEN [t \in Tokens |->
             IF t = r THEN Gone
             ELSE IF h[t].is = "op" /\ h[t].on = r /\ h[t].end = "pending"
                  THEN [h[t] EXCEPT !.end = "Closed"]
             ELSE h[t]]
    ELSE h

\* An abandoned operation leaves its slot and what it would have returned.
Abandoned(h, o) ==
    IF o \in Ops(h)
    THEN LET less == [h EXCEPT ![o] = Gone]
         IN  IF h[o].makes # 0 THEN Revoked(less, h[o].makes) ELSE less
    ELSE h

\* A collected terminal leaves the slot; only a completion keeps the resource.
Collected(h, o) ==
    IF h[o].end = "Completed" THEN [h EXCEPT ![o] = Gone] ELSE Abandoned(h, o)

\* The host ends an operation: a completed close revokes the view, a
\* completed commit consumes the blob.
HostEnds(o, e) ==
    /\ host[o].end = "pending"
    /\ LET ended == [host EXCEPT ![o].end = e]
       IN  host' = IF e = "Completed" /\ host[o].k \in {"view_close", "commit"}
                   THEN Revoked(ended, host[o].on) ELSE ended
    /\ UNCHANGED <<vals, cur>>

---------------------------------------------------------------------------
\* Values.

Value(kind, t) == [kind |-> kind, t |-> t]
Guarded == {"hash_new", "hash_update", "spawn", "read_output", "process_wait",
            "process_close", "authenticate", "next_entry", "entry_open"}

\* OperationFuture::submit and the wait that follows it: 0 is a refusal.
Await(k, on) ==
    /\ cur = Idle
    /\ CanSubmit(host, k)
    /\ cur' = [k |-> k, op |-> NextToken(host, 0), on |-> on]
    /\ host' = Submitted(host, k, on)

\* HashOperation, CompilerOperation and the archive futures abandon their
\* operation when they go, which the host refuses once it was collected.
DropOperation(h, k, o) == IF k \in Guarded THEN Abandoned(h, o) ELSE h

\* Blob::create and Blob::seal.
Blob_create == Await("blob_create", 0) /\ UNCHANGED vals
Blob_seal(v) == v.kind = "blob" /\ Await("seal", v.t) /\ UNCHANGED vals

\* write_chunk and read_chunk: a transfer is a value of its own.
Blob_transfer(v, kind) ==
    /\ v.kind = "blob" /\ cur = Idle
    /\ CanSubmit(host, kind)
    /\ host' = Submitted(host, kind, v.t)
    /\ vals' = vals \cup {[kind |-> kind, t |-> NextToken(host, 0), terminal |-> FALSE]}
    /\ UNCHANGED cur

IsTransfer(v) == v.kind \in {"write", "read"}

\* PendingWrite::poll and PendingRead::poll_into: an end is collected once,
\* and only a successful one marks the value terminal.
Pending_poll(v) ==
    /\ IsTransfer(v) /\ cur = Idle
    /\ v.t \in Ops(host) /\ host[v.t].end # "pending"
    /\ host' = Collected(host, v.t)
    /\ vals' = (vals \ {v}) \cup
               {[v EXCEPT !.terminal = @ \/ host[v.t].end = "Completed"]}
    /\ UNCHANGED cur

\* A destination the conversion refuses leaves the operation with the host.
\* (No state changes: the value stays as it was, and stays droppable.)

Pending_cancel(v) ==
    /\ IsTransfer(v) /\ cur = Idle
    /\ v.t \in Ops(host) /\ host[v.t].end = "pending"
    /\ host' = [host EXCEPT ![v.t].end = "Cancelled"]
    /\ UNCHANGED <<vals, cur>>

\* Drop of PendingWrite and PendingRead.
Pending_drop(h, v) == IF v.terminal THEN h ELSE Abandoned(h, v.t)

\* Blake3Hasher.
Hasher_new == Await("hash_new", 0) /\ UNCHANGED vals
Hasher_update(v) == v.kind = "hash" /\ Await("hash_update", v.t) /\ UNCHANGED vals
\* finalize: only a digest clears the token; otherwise the drop revokes it.
Hasher_finalize(v) ==
    /\ v.kind = "hash" /\ cur = Idle
    /\ vals' = vals \ {v}
    /\ host' = Revoked(host, v.t)
    /\ UNCHANGED cur

\* CompilerGrant::spawn consumes the grant: the host spends it at submit, a
\* refused submit drops the value, which releases it.
Grant_spawn(v) ==
    /\ v.kind = "grant" /\ cur = Idle
    /\ vals' = vals \ {v}
    /\ \/ /\ CanSubmit(host, "spawn")
          /\ cur' = [k |-> "spawn", op |-> NextToken(host, 0), on |-> 0]
          /\ host' = Revoked(Submitted(host, "spawn", 0), v.t)
       \/ /\ host' = Revoked(host, v.t)
          /\ UNCHANGED cur

Process_read(v) == v.kind = "process" /\ Await("read_output", v.t) /\ UNCHANGED vals
Process_wait(v) == v.kind = "process" /\ Await("process_wait", v.t) /\ UNCHANGED vals

\* CompilerProcess::close: the token is cleared only after the submit took.
Process_close_cleared(v) ==
    /\ v.kind = "process" /\ cur = Idle
    /\ vals' = vals \ {v}
    /\ \/ /\ CanSubmit(host, "process_close")
          /\ cur' = [k |-> "process_close", op |-> NextToken(host, 0), on |-> 0]
          /\ host' = Revoked(Submitted(host, "process_close", 0), v.t)
       \/ UNCHANGED <<host, cur>>

Process_close(v) ==
    /\ v.kind = "process" /\ cur = Idle
    /\ vals' = vals \ {v}
    /\ \/ /\ CanSubmit(host, "process_close")
          /\ cur' = [k |-> "process_close", op |-> NextToken(host, 0), on |-> 0]
          /\ host' = Revoked(Submitted(host, "process_close", 0), v.t)
       \/ /\ host' = Revoked(host, v.t)
          /\ UNCHANGED cur

\* EncryptedArchive::authenticate(self): the input goes when the call ends.
Archive_authenticate(v) ==
    /\ v.kind = "encrypted" /\ Await("authenticate", v.t) /\ UNCHANGED vals
Archive_next(v) == v.kind = "archive" /\ Await("next_entry", v.t) /\ UNCHANGED vals
Entry_open(v) == v.kind = "entry" /\ Await("entry_open", v.t) /\ UNCHANGED vals

\* The webview calls and the exact-output commit.
Url_open == Await("view_open", 0) /\ UNCHANGED vals
Webview_load(v) == v.kind = "view" /\ Await("view_load", v.t) /\ UNCHANGED vals
Webview_capture(v) == v.kind = "view" /\ Await("view_capture", v.t) /\ UNCHANGED vals
Webview_close(v) ==
    /\ v.kind = "view" /\ Await("view_close", v.t) /\ vals' = vals \ {v}
Output_write(v) == v.kind = "blob" /\ Await("commit", v.t) /\ UNCHANGED vals

\* The wait loops: the guest resumes at the terminal and keeps a value only
\* for a completion that names a resource (payload 0 is an error, or, for
\* next_entry, the end of the inventory).
Consumes == {"authenticate", "entry_open"}
Result(h, o, empty) ==
    IF h[o].end = "Completed" /\ h[o].makes # 0 /\ ~ empty
    THEN {Value(Makes[h[o].k], h[o].makes)} ELSE {}

wait(empty) ==
    /\ cur # Idle /\ host[cur.op].end # "pending"
    /\ empty => host[cur.op].k = "next_entry" /\ host[cur.op].end = "Completed"
    /\ LET after == DropOperation(
                       IF empty THEN Abandoned(host, cur.op) ELSE Collected(host, cur.op),
                       cur.k, cur.op)
       IN  /\ vals' = {v \in vals : ~ (cur.k \in Consumes /\ v.t = cur.on)}
                      \cup Result(host, cur.op, empty)
           /\ host' = IF cur.k \in Consumes THEN Revoked(after, cur.on) ELSE after
    /\ cur' = Idle

---------------------------------------------------------------------------
\* Drop of a value: resources::Blob and the archive handles release their
\* token once, the hasher, grant and process submit their abandon kinds, the
\* view has no Drop.
drop(h, v) ==
    CASE IsTransfer(v) -> Pending_drop(h, v)
      [] v.kind \in {"blob", "encrypted", "archive", "entry", "hash", "grant", "process"} ->
             Revoked(h, v.t)
      [] OTHER -> h

Drop(v) ==
    /\ cur = Idle
    /\ vals' = vals \ {v}
    /\ host' = drop(host, v)
    /\ UNCHANGED cur

---------------------------------------------------------------------------
\* Packed results.

Byte == 16
STATUS == [Completed |-> 1, Cancelled |-> 2, TimedOut |-> 3, Trapped |-> 4,
           OwnerExited |-> 5, Closed |-> 6, Rejected |-> 7, Error |-> 8]
pack(end, payload) == payload * Byte + STATUS[end]

Ok(p) == [ok |-> TRUE, value |-> p]
Err(e) == [ok |-> FALSE, value |-> e]
None == [ok |-> TRUE, value |-> -1]

OperationFuture_poll(packed) ==
    LET s == packed % Byte
    IN  CASE s = 0 -> None
          [] s = 1 -> Ok(packed \div Byte)
          [] s = 2 -> Err("Cancelled")
          [] s = 3 -> Err("TimedOut")
          [] s = 6 -> Err("Closed")
          [] s = 7 -> Err("Rejected")
          [] OTHER -> Err("Failed")


\* A blob read does not tell a timeout or a rejection from a failure.
BlobReadFuture_poll_into(packed) ==
    LET s == packed % Byte
    IN  CASE s = 0 -> None
          [] s = 1 -> Ok(packed \div Byte)
          [] s = 2 -> Err("Cancelled")
          [] s = 6 -> Err("Closed")
          [] OTHER -> Err("Failed")

\* The host's exit payload (process_scalar.rs) and the guest's reading of it.
exit_payload(exit) ==
    (exit.code % Word) + (IF exit.some THEN Word ELSE 0)
                       + (IF exit.success THEN 2 * Word ELSE 0)
Signed(w) == IF w >= Word \div 2 THEN w - Word ELSE w
wait_exit(payload) ==
    [some |-> (payload \div Word) % 2 # 0,
     code |-> IF (payload \div Word) % 2 # 0 THEN Signed(payload % Word) ELSE 0,
     success |-> (payload \div (2 * Word)) % 2 # 0]

\* read_output: tags 1 and 2 carry bytes, tags 3 to 9 carry none.
Events == <<"Stdout", "Stderr", "StdoutEof", "StderrEof", "StdoutAbandoned",
            "StderrAbandoned", "StdoutError", "StderrError", "Exhausted">>
read_output(payload) ==
    LET tag == payload % Byte
        count == payload \div Byte
    IN  IF count > Chunk \/ tag \notin 1..9 \/ (tag \in 3..9 /\ count # 0)
        THEN Err("Failed")
        ELSE Ok([event |-> Events[tag], count |-> count])

\* Blob::read and Blob::write: -1 is a refusal, a count never exceeds what
\* was asked, and more than a chunk is never asked.
stream_transfer(requested, transferred) ==
    IF requested > Chunk THEN Err("Rejected")
    ELSE IF transferred < 0 \/ transferred > requested THEN Err("Rejected")
    ELSE Ok(transferred)

cache_status(answer) ==
    CASE answer = 1 -> Ok("Hit") [] answer = 2 -> Ok("Miss") [] OTHER -> Err("Rejected")

\* read_header and metadata: the copied count is bounded by the destination
\* and by the record's own range.
copied(answer, destination, least, most) ==
    LET count == answer \div Byte
    IN  IF answer % Byte # 1 \/ count > destination \/ count \notin least..most
        THEN Err("Rejected") ELSE Ok(count)

Exits == {e \in [some : BOOLEAN, code : (-(Word \div 2))..(Word \div 2 - 1), success : BOOLEAN] :
             ~ e.some => e.code = 0}
Probes ==
    [p : {"end"}, end : DOMAIN STATUS, payload : 0..2]
    \cup [p : {"exit"}, exit : Exits]
    \cup [p : {"output"}, tag : 0..10, count : 0..(Chunk + 1)]
    \cup [p : {"stream"}, requested : 0..(Chunk + 1), transferred : -2..(Chunk + 2)]
    \cup [p : {"copy"}, answer : 0..(Byte * 4), destination : 0..4]
NoProbe == [p |-> "none"]

---------------------------------------------------------------------------
Init ==
    \/ /\ facet = "guest"
       \* granted(): a grant of the root is discovered once.
       /\ \E kind \in {"grant", "encrypted"} :
             /\ host = [t \in Tokens |-> IF t = 1 THEN [is |-> "resource", kind |-> kind]
                                          ELSE Unnamed]
             /\ vals = {Value(kind, 1)}
       /\ cur = Idle
       /\ probe = NoProbe
    \/ /\ facet = "value"
       /\ host = [t \in Tokens |-> Unnamed]
       /\ vals = {}
       /\ cur = Idle
       /\ probe \in Probes

Step ==
    \/ Blob_create \/ Hasher_new \/ Url_open
    \/ \E v \in vals :
          \/ Blob_seal(v) \/ Blob_transfer(v, "write") \/ Blob_transfer(v, "read")
          \/ Pending_poll(v) \/ Pending_cancel(v)
          \/ Hasher_update(v) \/ Hasher_finalize(v)
          \/ Grant_spawn(v) \/ Process_read(v) \/ Process_wait(v) \/ Process_close(v)
          \/ Archive_authenticate(v) \/ Archive_next(v) \/ Entry_open(v)
          \/ Webview_load(v) \/ Webview_capture(v) \/ Webview_close(v)
          \/ Output_write(v) \/ Drop(v)
    \/ wait(FALSE) \/ wait(TRUE)
    \/ \E o \in Ops(host), e \in Ends : HostEnds(o, e)

Next == facet = "guest" /\ Step /\ UNCHANGED <<facet, probe>>
Spec == Init /\ [][Next]_vars

---------------------------------------------------------------------------
\* Whatever the guest keeps, polls, cancels, consumes or drops, in any order,
\* every operation the host still holds is the awaited one or a transfer value
\* the guest can still collect or abandon, and every resource the host holds
\* for it (views apart: Webview has no Drop) is named by a live guest value of
\* its own kind or is the result the guest is waiting for.  Nothing the guest
\* let go of keeps a slot or a quota until the root ends.
NothingIsForgotten ==
    facet = "guest" =>
    /\ \A o \in Ops(host) :
          \/ cur.op = o
          \/ \E v \in vals : IsTransfer(v) /\ v.t = o /\ ~ v.terminal
    /\ \A r \in Resources(host) :
          \/ host[r].kind = "view"
          \/ Value(host[r].kind, r) \in vals
          \/ cur # Idle /\ cur.op \in Ops(host) /\ host[cur.op].makes = r

\* What the host packs, the guest unpacks: a terminal keeps its meaning (a
\* trapped or exited owner reads as a failure), an exit keeps its sign, its
\* absence and its success, an output event its stream and count, and no
\* answer ever yields a count beyond the destination.
PackedResultsAgree ==
    CASE probe.p = "end" ->
            LET polled == OperationFuture_poll(pack(probe.end, probe.payload))
                read == BlobReadFuture_poll_into(pack(probe.end, probe.payload))
            IN  /\ polled = IF probe.end = "Completed" THEN Ok(probe.payload)
                            ELSE IF probe.end \in Errors THEN Err(probe.end)
                            ELSE Err("Failed")
                /\ read.ok = polled.ok
                /\ read.value # polled.value => probe.end \in {"TimedOut", "Rejected"}
      [] probe.p = "exit" -> wait_exit(exit_payload(probe.exit)) = probe.exit
      [] probe.p = "output" ->
            LET out == read_output(probe.count * Byte + probe.tag)
            IN  /\ out.ok => out.value.count <= Chunk /\ Events[probe.tag] = out.value.event
                /\ out.ok /\ out.value.count > 0 => out.value.event \in {"Stdout", "Stderr"}
      [] probe.p = "stream" ->
            LET out == stream_transfer(probe.requested, probe.transferred)
            IN  out.ok => out.value \in 0..probe.requested /\ probe.requested <= Chunk
      [] probe.p = "copy" ->
            /\ LET out == copied(probe.answer, probe.destination, 1, 3)
               IN  out.ok => out.value \in 1..3 /\ out.value <= probe.destination
            /\ cache_status(probe.answer).ok <=> probe.answer \in {1, 2}
      [] OTHER -> TRUE
=============================================================================
