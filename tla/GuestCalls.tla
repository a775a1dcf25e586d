------------------------------ MODULE GuestCalls ------------------------------
(***************************************************************************)
(* What an admitted guest calls, in two facets.                            *)
(*                                                                         *)
(* "imports": the preview1 stubs and the scalar operation dispatch, called *)
(* by the root store and a child store over one shared memory.  A memory   *)
(* cell stands for a 32-bit word; a word read as i32 is negative from Half *)
(* on.  What the hub does for a call is modelled elsewhere (HubState,      *)
(* BlobTransfer, CompilerProcess): here a call finds its result ready or   *)
(* not.  Guest stores and memory.grow interleave with every host access    *)
(* that reads memory in several steps.                                     *)
(*                                                                         *)
(* "hash": the incremental hash resource of the operation hub and its      *)
(* dispatch (kinds 30 to 34): creation, updates, the consuming finish and  *)
(* the two ways of giving up.  Every call is one critical section of the   *)
(* hub; an operation is terminal when its call returns and stays in its    *)
(* slot until it is polled or abandoned.  The hub's resource quota is one  *)
(* hash, so a hash token is the number of its creation.                    *)
(***************************************************************************)
EXTENDS Integers, Sequences, FiniteSets

CONSTANTS Stores, Root,       \* the guest stores and the root's
          InitialSize, MaxSize, Half,
          MaxIovecs,          \* MAX_P1_IOVECS
          MaxChunk,           \* 64 KiB, in units of chunks
          MaxHashOps,         \* maximum_operations
          MaxUpdates,         \* bound on accepted updates
          MaxHashes           \* bound on creations

VARIABLES facet,    \* "imports" or "hash"
          mem,      \* the shared memory, 0 .. size - 1
          pc,       \* per store: the fd_write in progress
          grants,   \* per store: the initial_* tokens not yet taken
          ready,    \* results the hub holds for a store
          hash,     \* the live resource: [token, owner, chunks], token 0 when none
          created,  \* creations so far
          ops,      \* slot -> [store, kind, token, chunk]
          last,     \* last update accepted
          revoked,  \* updates given up before they were collected
          digests,  \* digests delivered
          reply     \* class of the last reply

importVars == <<mem, pc, grants, ready>>
hashVars == <<hash, created, ops, last, revoked, digests>>
vars == <<facet, mem, pc, grants, ready, hash, created, ops, last, revoked, digests, reply>>

Idle == [at |-> "idle", base |-> 0, n |-> 0, i |-> 0, payload |-> 0, out |-> 0]
Words == 0 .. (2 * Half - 1)
AsI32(w) == IF w >= Half THEN w - 2 * Half ELSE w
Addresses == {-1, 0, 1, InitialSize - 1, InitialSize, MaxSize}

SharedRange(offset, length) == offset >= 0 /\ offset + length <= Cardinality(DOMAIN mem)
Zeroed(m, offset, length) == [a \in DOMAIN m |-> IF a \in offset..(offset + length - 1) THEN 0 ELSE m[a]]

(***************************************************************************)
(* wasi_snapshot_preview1.                                                 *)
(***************************************************************************)
WriteShared(offset, length) ==
    IF SharedRange(offset, length)
    THEN mem' = Zeroed(mem, offset, length) /\ reply' = "ok"
    ELSE UNCHANGED mem /\ reply' = "rejected"

ClockTimeGet(t, output) ==
    /\ pc[t].at = "idle"
    /\ WriteShared(output, 2)
    /\ UNCHANGED <<pc, grants, ready>>

EnvironSizesGet(t, count, bytes) ==
    /\ pc[t].at = "idle"
    /\ IF SharedRange(count, 1) /\ SharedRange(bytes, 1)
       THEN mem' = [mem EXCEPT ![count] = 0, ![bytes] = 0] /\ reply' = "ok"
       ELSE reply' = "rejected" /\ UNCHANGED mem
    /\ UNCHANGED <<pc, grants, ready>>

\* fd_write validates the whole iovec table, discards the output and stores 0.
ValidateIovecs(t, iovecs, n, written) ==
    /\ pc[t].at = "idle"
    /\ IF n \in 0..MaxIovecs /\ SharedRange(iovecs, 2 * n)
       THEN /\ pc' = [pc EXCEPT ![t] = [at |-> IF n = 0 THEN "written" ELSE "payload",
                                        base |-> iovecs, n |-> n, i |-> 0, payload |-> 0, out |-> written]]
            /\ reply' = "none"
       ELSE reply' = "rejected" /\ UNCHANGED pc
    /\ UNCHANGED <<mem, grants, ready>>

ReadPayload(t) ==
    /\ pc[t].at = "payload"
    /\ pc' = [pc EXCEPT ![t].payload = mem[pc[t].base + 2 * pc[t].i], ![t].at = "length"]
    /\ reply' = "none"
    /\ UNCHANGED <<mem, grants, ready>>

ReadLength(t) ==
    /\ pc[t].at = "length"
    /\ IF SharedRange(AsI32(pc[t].payload), mem[pc[t].base + 2 * pc[t].i + 1])
       THEN /\ pc' = [pc EXCEPT ![t].i = @ + 1, ![t].payload = 0,
                                ![t].at = IF pc[t].i + 1 = pc[t].n THEN "written" ELSE "payload"]
            /\ reply' = "none"
       ELSE pc' = [pc EXCEPT ![t] = Idle] /\ reply' = "rejected"
    /\ UNCHANGED <<mem, grants, ready>>

FdWriteReturns(t) ==
    /\ pc[t].at = "written"
    /\ WriteShared(pc[t].out, 1)
    /\ pc' = [pc EXCEPT ![t] = Idle]
    /\ UNCHANGED <<grants, ready>>

\* What the guest's own threads do to the memory meanwhile.
GuestStore(t, a, w) ==
    /\ pc[t].at = "idle" /\ a \in DOMAIN mem
    /\ mem' = [mem EXCEPT ![a] = w] /\ reply' = "none"
    /\ UNCHANGED <<pc, grants, ready>>
GuestGrow(t) ==
    /\ pc[t].at = "idle" /\ Cardinality(DOMAIN mem) < MaxSize
    /\ mem' = [a \in 0..Cardinality(DOMAIN mem) |-> IF a \in DOMAIN mem THEN mem[a] ELSE 0]
    /\ reply' = "none"
    /\ UNCHANGED <<pc, grants, ready>>

(***************************************************************************)
(* operation_submit: grants.                                               *)
(***************************************************************************)
\* Kind 35 and OP_ENCRYPTED_INPUT_GRANT take their token: reserved arguments first.
TakeGrantFirst(t, reserved) ==
    /\ pc[t].at = "idle"
    /\ reply' = IF reserved = 0 /\ "compiler" \in grants[t] THEN "ok" ELSE "rejected"
    /\ grants' = [grants EXCEPT ![t] = @ \ {"compiler"}]
    /\ UNCHANGED <<mem, pc, ready>>
TakeGrant(t, reserved) ==
    /\ pc[t].at = "idle"
    /\ IF reserved = 0 /\ "compiler" \in grants[t]
       THEN reply' = "ok" /\ grants' = [grants EXCEPT ![t] = @ \ {"compiler"}]
       ELSE reply' = "rejected" /\ UNCHANGED grants
    /\ UNCHANGED <<mem, pc, ready>>

\* OP_OUTPUT_GRANT and OP_WEBVIEW_URL_GRANT copy it: the root may ask again.
CopyGrant(t, reserved) ==
    /\ pc[t].at = "idle"
    /\ reply' = IF reserved = 0 /\ "output" \in grants[t] THEN "ok" ELSE "rejected"
    /\ UNCHANGED <<mem, pc, grants, ready>>

(***************************************************************************)
(* Results collected into guest memory (OP_BLOB_READ_COLLECT, kind 38).    *)
(* The destination is validated before the hub gives its result away.      *)
(***************************************************************************)
Complete(t, what) ==
    /\ what \notin ready[t]
    /\ ready' = [ready EXCEPT ![t] = @ \cup {what}] /\ reply' = "none"
    /\ UNCHANGED <<mem, pc, grants>>

Collect(t, what, offset, length) ==
    /\ pc[t].at = "idle"
    /\ IF SharedRange(offset, length) /\ what \in ready[t]
       THEN /\ ready' = [ready EXCEPT ![t] = @ \ {what}]
            /\ mem' = Zeroed(mem, offset, length) /\ reply' = "ok"
       ELSE reply' = "rejected" /\ UNCHANGED <<mem, ready>>
    /\ UNCHANGED <<pc, grants>>

\* Calls that only pass on the hub's verdict: reserved arguments refuse first.
Verdict(t, accepted) ==
    /\ pc[t].at = "idle"
    /\ reply' = IF accepted THEN "ok" ELSE "rejected"
    /\ UNCHANGED <<mem, pc, grants, ready>>
AbandonWire(t, reserved, accepted) == Verdict(t, reserved = 0 /\ accepted)
SubmitBlobWrite(t, offset, accepted) == Verdict(t, SharedRange(offset, 1) /\ accepted)
StreamClose(t, accepted) == Verdict(t, accepted)
\* Without the archive test support the archive kinds refuse every call.
ArchiveSubmit(t) == Verdict(t, FALSE)
ResourceRelease(t) == Verdict(t, FALSE)

\* A stream read copies at most the destination and at most one chunk; the
\* linker validated the destination.
StreamRead(t, offset, length) ==
    /\ pc[t].at = "idle" /\ SharedRange(offset, length)
    /\ IF "read" \in ready[t]
       THEN /\ ready' = [ready EXCEPT ![t] = @ \ {"read"}]
            /\ mem' = Zeroed(mem, offset, IF length < 1 THEN length ELSE 1) /\ reply' = "ok"
       ELSE reply' = "rejected" /\ UNCHANGED <<mem, ready>>
    /\ UNCHANGED <<pc, grants>>

\* The kinds whose refusal is a reply; any other kind traps when refused.
SubmitVisible(t, accepted) == Verdict(t, accepted)
SubmitOther(t, accepted) ==
    /\ pc[t].at = "idle"
    /\ reply' = IF accepted THEN "ok" ELSE "trap"
    /\ UNCHANGED <<mem, pc, grants, ready>>

(***************************************************************************)
(* The hash resource.                                                      *)
(***************************************************************************)
NoHash == [token |-> 0, owner |-> CHOOSE t \in Stores : TRUE, chunks |-> <<>>]
HashMay(t, token) == token # 0 /\ hash.token = token /\ hash.owner = t
FreeSlot == CHOOSE o \in 1..MaxHashOps : o \notin DOMAIN ops
With(f, k, v) == [x \in DOMAIN f \cup {k} |-> IF x = k THEN v ELSE f[x]]
Without(f, k) == [x \in DOMAIN f \ {k} |-> f[x]]

SubmitHashCreate(t, reserved) ==
    /\ created < MaxHashes
    /\ IF reserved = 0 /\ Cardinality(DOMAIN ops) < MaxHashOps /\ hash = NoHash
       THEN /\ created' = created + 1
            /\ hash' = [token |-> created + 1, owner |-> t, chunks |-> <<>>]
            /\ ops' = With(ops, FreeSlot,
                           [store |-> t, kind |-> "create", token |-> created + 1, chunk |-> 0])
            /\ reply' = "ok"
       ELSE reply' = "rejected" /\ UNCHANGED <<hash, created, ops>>
    /\ UNCHANGED <<last, revoked, digests>>

SubmitHashUpdate(t, token, inRange, length) ==
    /\ last < MaxUpdates
    /\ IF /\ length <= MaxChunk /\ inRange
          /\ HashMay(t, token) /\ Cardinality(DOMAIN ops) < MaxHashOps
       THEN /\ last' = last + 1
            /\ hash' = [hash EXCEPT !.chunks = Append(@, last + 1)]
            /\ ops' = With(ops, FreeSlot,
                           [store |-> t, kind |-> "update", token |-> token, chunk |-> last + 1])
            /\ reply' = "ok"
       ELSE reply' = "rejected" /\ UNCHANGED <<hash, ops, last>>
    /\ UNCHANGED <<created, revoked, digests>>

\* operation_poll hands out the terminal of a finished operation and frees its slot.
PollHash(t, o) ==
    /\ o \in DOMAIN ops /\ ops[o].store = t
    /\ ops' = Without(ops, o) /\ reply' = "ok"
    /\ UNCHANGED <<hash, created, last, revoked, digests>>

\* The destination is validated before the consuming finish.
FinishHash(t, token, fits) ==
    /\ IF fits /\ HashMay(t, token)
       THEN hash' = NoHash /\ digests' = digests \cup {hash.chunks} /\ reply' = "ok"
       ELSE reply' = "rejected" /\ UNCHANGED <<hash, digests>>
    /\ UNCHANGED <<created, ops, last, revoked>>

AbandonHash(t, token, reserved) ==
    /\ IF reserved = 0 /\ HashMay(t, token)
       THEN hash' = NoHash /\ reply' = "ok"
       ELSE reply' = "rejected" /\ UNCHANGED hash
    /\ UNCHANGED <<created, ops, last, revoked, digests>>

\* A creation nobody collected is discarded; the hash of an abandoned update is
\* revoked, because its guest cannot know what was absorbed.
AbandonKeepingHash(t, o) ==
    /\ IF o \in DOMAIN ops /\ ops[o].store = t
       THEN /\ ops' = Without(ops, o) /\ reply' = "ok"
            /\ revoked' = revoked \cup {ops[o].chunk}
            /\ hash' = IF ops[o].kind = "create" /\ hash.token = ops[o].token THEN NoHash ELSE hash
       ELSE reply' = "rejected" /\ UNCHANGED <<hash, ops, revoked>>
    /\ UNCHANGED <<created, last, digests>>
AbandonHashOperation(t, o) ==
    /\ IF o \in DOMAIN ops /\ ops[o].store = t
       THEN /\ ops' = Without(ops, o) /\ reply' = "ok"
            /\ revoked' = revoked \cup {ops[o].chunk}
            /\ hash' = IF hash.token = ops[o].token THEN NoHash ELSE hash
       ELSE reply' = "rejected" /\ UNCHANGED <<hash, ops, revoked>>
    /\ UNCHANGED <<created, last, digests>>

(***************************************************************************)
(* The two facets.                                                         *)
(***************************************************************************)
Init ==
    /\ facet \in {"imports", "hash"}
    /\ mem = [a \in 0..(InitialSize - 1) |-> 0] /\ pc = [t \in Stores |-> Idle]
    /\ grants = [t \in Stores |-> IF t = Root THEN {"compiler", "output"} ELSE {}]
    /\ ready = [t \in Stores |-> {}] /\ reply = "none"
    /\ hash = NoHash /\ created = 0 /\ ops = <<>> /\ last = 0
    /\ revoked = {} /\ digests = {}

ImportCall ==
    \E t \in Stores :
        \/ \E a \in Addresses : ClockTimeGet(t, a)
        \/ \E a, b \in Addresses : EnvironSizesGet(t, a, b)
        \/ \E a \in Addresses, n \in {-1, 1, MaxIovecs, MaxIovecs + 1}, w \in {0, MaxSize} :
               ValidateIovecs(t, a, n, w)
        \/ ReadPayload(t) \/ ReadLength(t) \/ FdWriteReturns(t) \/ GuestGrow(t)
        \/ \E a \in 0..1, w \in Words : GuestStore(t, a, w)
        \/ \E r \in 0..1 : TakeGrant(t, r) \/ CopyGrant(t, r)
        \/ Complete(t, "read")
        \/ \E a \in Addresses : Collect(t, "read", a, 1)
        \/ \E ok \in BOOLEAN, r \in 0..1 :
               AbandonWire(t, r, ok) \/ StreamClose(t, ok) \/ SubmitVisible(t, ok) \/ SubmitOther(t, ok)
        \/ \E ok \in BOOLEAN, a \in Addresses : SubmitBlobWrite(t, a, ok)
        \/ \E a \in Addresses, n \in 0..2 : StreamRead(t, a, n)
        \/ ArchiveSubmit(t) \/ ResourceRelease(t)

HashCall ==
    \E t \in Stores :
        \/ \E r \in 0..1 : SubmitHashCreate(t, r)
        \/ \E k \in 1..MaxHashes, i \in BOOLEAN, n \in {1, MaxChunk + 1} : SubmitHashUpdate(t, k, i, n)
        \/ \E k \in 1..MaxHashes, f \in BOOLEAN : FinishHash(t, k, f)
        \/ \E k \in 1..MaxHashes, r \in 0..1 : AbandonHash(t, k, r)
        \/ \E o \in 1..MaxHashOps : PollHash(t, o) \/ AbandonHashOperation(t, o)

Next ==
    \/ facet = "imports" /\ ImportCall /\ UNCHANGED <<facet, hashVars>>
    \/ facet = "hash" /\ HashCall /\ UNCHANGED <<facet, importVars>>
Spec == Init /\ [][Next]_vars

(***************************************************************************)
(* Properties.                                                             *)
(***************************************************************************)
\* A hash that can still deliver a digest never covers an update its guest gave
\* up before collecting it (abandon_hash_operation), a digest covers accepted
\* updates in order, and an abandoned creation leaves no hash behind.
DigestCoversKeptUpdates ==
    /\ \A i \in DOMAIN hash.chunks : hash.chunks[i] \notin revoked
    /\ \A d \in digests : \A i, j \in DOMAIN d : i < j => d[i] < d[j]

\* A refused call consumes nothing and writes nothing: no grant, no result and
\* no cell is lost to a bad pointer, a reserved argument or a foreign handle
\* (shared_range before every consuming hub call, both ranges of
\* environ_sizes_get before either write), and no hash or operation slot to a
\* refused hash call ("rejection must not consume retry authority", finish_hash).
RefusedStep ==
    reply' \in {"rejected", "trap"} => UNCHANGED <<mem, grants, ready, hash, ops, digests>>
RefusedCallChangesNothing == [][RefusedStep]_vars
===============================================================================
