------------------------------ MODULE HubState ------------------------------
(***************************************************************************)
(* The table behind the OperationHub of src/src/wasm/operations.rs: the    *)
(* fields its one mutex guards, and what each critical section does to     *)
(* them.  Every operator here is the body of one `*_locked` function, a    *)
(* function of the table `h` that the modules extending this one apply in  *)
(* their actions.                                                          *)
(*                                                                         *)
(* Tokens are the naturals `next_token` hands out; None is Option::None.   *)
(* Slot and generation counters are checked in the code and never wrap.    *)
(***************************************************************************)
EXTENDS Integers, FiniteSets, Sequences, FiniteSetsExt

CONSTANTS Stores,     \* the guest Store (thread) identities of one root
          None,       \* Option::None
          MaxOps,     \* maximum_operations
          MaxRes,     \* maximum_resources
          MaxBlobs,   \* blob_limits.maximum_live_blobs
          MaxTombs,   \* MAX_CLOSED_TOMBSTONES
          MaxToken    \* MAX_WIRE_TOKEN: tokens are exhausted beyond it

Terminals == {"Completed", "Cancelled", "TimedOut", "Trapped",
              "OwnerExited", "Closed", "Rejected"}

ASSUME HubConstants ==
  /\ None \notin Nat \cup Terminals
  /\ MaxOps \in Nat /\ MaxRes \in Nat /\ MaxBlobs \in Nat
  /\ MaxTombs \in Nat /\ MaxToken \in Nat

Kinds == {"synthetic", "blob", "url", "webview", "output"}

Rights == {"read", "write", "use", "open", "load", "commit"}

Option(S) == S \cup {None}

Token == 1 .. MaxToken

ResourceSlot ==
  [slot: Nat, gen: Nat, kind: Kinds, rights: SUBSET Rights, owner: Stores,
   shareable: BOOLEAN, reserved: BOOLEAN, committing: BOOLEAN,
   len: Nat, cap: Nat, sealed: BOOLEAN]

OperationSlot ==
  [owner: Stores, res: Option(Token), terminal: Option(Terminals),
   deferred: Option([revoke: Option(Token)]), suspended: BOOLEAN,
   permit: BOOLEAN, created: Option(Token), role: {"plain", "read", "write"},
   write: Option(Nat), read: Option(Nat), result: Option(Nat), timer: BOOLEAN]

IsMap(f) == f = [x \in DOMAIN f |-> f[x]]

IsHub(h) ==
  DOMAIN h = {"res", "ops", "last", "nextSlot", "gens", "free", "tombs",
              "ledger", "native", "closed"}

HubType(h) ==
  /\ IsHub(h)
  /\ IsMap(h.res) /\ DOMAIN h.res \subseteq 1 .. h.last
  /\ \A r \in DOMAIN h.res : h.res[r] \in ResourceSlot
  /\ IsMap(h.ops) /\ DOMAIN h.ops \subseteq 1 .. h.last
  /\ \A o \in DOMAIN h.ops : h.ops[o] \in OperationSlot
  /\ h.last \in 0 .. MaxToken
  /\ h.nextSlot \in Nat
  /\ h.gens \in [1 .. h.nextSlot -> Nat]
  /\ \A r \in DOMAIN h.res : h.res[r].slot \in 1 .. h.nextSlot
  /\ h.free \in Seq(1 .. h.nextSlot)
  /\ h.tombs \in Seq(Token)
  /\ h.ledger \in Nat /\ h.native \in Nat /\ h.closed \in BOOLEAN

InitialHub ==
  [res |-> [r \in {} |-> r], ops |-> [o \in {} |-> o], last |-> 0,
   nextSlot |-> 0, gens |-> [i \in 1 .. 0 |-> 0], free |-> << >>,
   tombs |-> << >>, ledger |-> 0, native |-> 0, closed |-> FALSE]

With(f, k, v) == [x \in DOMAIN f \cup {k} |-> IF x = k THEN v ELSE f[x]]

Without(f, S) == [x \in DOMAIN f \ S |-> f[x]]

SaturatingSub(a, b) == IF a - b \in Nat THEN a - b ELSE 0

Live(h) == DOMAIN h.res

\* The resources whose token a guest can have been given.
Published(h) == {r \in Live(h) : ~h.res[r].reserved}

Pending(h) == {o \in DOMAIN h.ops : h.ops[o].terminal = None}

Blobs(h) == {r \in Live(h) : h.res[r].kind = "blob"}

BytesIn(h, R) == MapThenSumSet(LAMBDA r : h.res[r].len, R)

(***************************************************************************)
(* create_resource_value_locked: quotas, then a recycled or a fresh slot   *)
(* under its next generation.  The new resource is reserved.               *)
(***************************************************************************)
CanCreate(h, kind) ==
  /\ ~h.closed
  /\ Cardinality(Live(h)) < MaxRes
  /\ kind = "blob" => Cardinality(Blobs(h)) < MaxBlobs
  /\ h.last < MaxToken

NextSlot(h) == IF h.free = << >> THEN h.nextSlot + 1 ELSE h.free[Len(h.free)]

\* Mutant: the token counter is not advanced.
CreateKeepsToken(h, store, kind, rights, shareable) ==
  [h EXCEPT !.res = With(@, h.last + 1,
     [slot |-> h.nextSlot + 1, gen |-> 1, kind |-> kind, rights |-> rights,
      owner |-> store, shareable |-> shareable, reserved |-> TRUE,
      committing |-> FALSE, len |-> 0, cap |-> 0, sealed |-> FALSE])]

Create(h, store, kind, rights, shareable) ==
  LET slot == NextSlot(h)
      gen  == IF slot \in DOMAIN h.gens THEN h.gens[slot] + 1 ELSE 1
      new  == [slot |-> slot, gen |-> gen, kind |-> kind, rights |-> rights,
               owner |-> store, shareable |-> shareable, reserved |-> TRUE,
               committing |-> FALSE, len |-> 0, cap |-> 0, sealed |-> FALSE]
  IN [h EXCEPT !.res = With(@, h.last + 1, new),
               !.last = @ + 1,
               !.gens = With(@, slot, gen),
               !.nextSlot = IF h.free = << >> THEN @ + 1 ELSE @,
               !.free = IF @ = << >> THEN @ ELSE SubSeq(@, 1, Len(@) - 1)]

Activate(h, r) ==
  [h EXCEPT !.res = [x \in Live(h) |->
     IF x = r THEN [h.res[x] EXCEPT !.reserved = FALSE] ELSE h.res[x]]]

(***************************************************************************)
(* validate_resource_owner, validate_resource and submit_locked.           *)
(***************************************************************************)
OwnerMay(h, store, r, kind, rights) ==
  /\ r \in Live(h)
  /\ h.res[r].kind = kind
  /\ rights \subseteq h.res[r].rights
  /\ h.res[r].owner = store \/ h.res[r].shareable

May(h, store, r, kind, rights) ==
  OwnerMay(h, store, r, kind, rights) /\ ~h.res[r].reserved

\* Mutant: the closed flag is not looked at.
CanSubmitWhenClosed(h, store, r, kind, rights) ==
  /\ Cardinality(DOMAIN h.ops) < MaxOps
  /\ r # None => May(h, store, r, kind, rights) /\ ~h.res[r].committing
  /\ h.last < MaxToken

CanSubmit(h, store, r, kind, rights) ==
  /\ ~h.closed
  /\ Cardinality(DOMAIN h.ops) < MaxOps
  /\ r # None => May(h, store, r, kind, rights) /\ ~h.res[r].committing
  /\ h.last < MaxToken

Submit(h, store, r) ==
  [h EXCEPT
    !.ops = With(@, h.last + 1,
      [owner |-> store, res |-> r, terminal |-> None, deferred |-> None,
       suspended |-> FALSE, permit |-> FALSE, created |-> None,
       role |-> "plain", write |-> None, read |-> None, result |-> None,
       timer |-> FALSE]),
    !.last = @ + 1]

RemoveOp(h, o) == [h EXCEPT !.ops = Without(@, {o})]

(***************************************************************************)
(* terminal_locked, for every operation of O at once.  The first terminal  *)
(* wins.  A Completed operation publishes the resource it created; any     *)
(* other terminal removes it and frees its slot without a tombstone.       *)
(* The order in which several slots are freed only decides which of them   *)
(* the next creation recycles.  (A ready compiler read or wait, whose      *)
(* result a later revocation replaces, is not an operation of the modules  *)
(* that use this table.)                                                   *)
(***************************************************************************)
Listing(R) == CHOOSE q \in Bijection(1 .. Cardinality(R), R) : TRUE

SlotsOf(h, R) == [i \in 1 .. Cardinality(R) |-> h.res[Listing(R)[i]].slot]

\* Mutant: the freed slots are pushed twice.
ReclaimTwice(h, R) ==
  [h EXCEPT !.res = Without(@, R),
            !.free = @ \o SlotsOf(h, R) \o SlotsOf(h, R),
            !.ledger = SaturatingSub(@, BytesIn(h, R))]

Reclaim(h, R) ==
  [h EXCEPT !.res = Without(@, R),
            !.free = @ \o SlotsOf(h, R),
            !.ledger = SaturatingSub(@, BytesIn(h, R))]

Ended(h, O, t) ==
  [h EXCEPT !.ops = [o \in DOMAIN h.ops |->
     IF o \in O \cap Pending(h)
     THEN [h.ops[o] EXCEPT !.terminal = t, !.write = None, !.read = None, !.timer = FALSE]
     ELSE h.ops[o]]]

\* What the pending ones among O create.
Created(h, O) == {h.ops[o].created : o \in O \cap Pending(h)} \cap Live(h)

Terminate(h, O, t) ==
  IF t # "Completed" THEN Reclaim(Ended(h, O, t), Created(h, O))
  ELSE [Ended(h, O, t) EXCEPT !.res = [r \in Live(h) |->
          IF r \in Created(h, O) THEN [h.res[r] EXCEPT !.reserved = FALSE] ELSE h.res[r]]]

(***************************************************************************)
(* close_resource_with_terminal_locked.  A token that is neither live nor  *)
(* among the last MaxTombs closed ones is Invalid.                         *)
(***************************************************************************)
WasClosed(h, r) == r \in Range(h.tombs)

\* Mutant: revocation forgets the operations that borrow the resource.
NoBorrowers(h, r) == {}

Borrowers(h, r) == {o \in Pending(h) : h.ops[o].res = r}

Bury(tombs, r) ==
  LET all == Append(tombs, r)
  IN  IF Len(all) > MaxTombs THEN Tail(all) ELSE all

Buried(h, r) == [Reclaim(h, {r}) EXCEPT !.tombs = Bury(@, r)]

CloseResource(h, r, t) ==
  IF r \in Live(h) THEN Terminate(Buried(h, r), Borrowers(h, r), t) ELSE h

CloseFails(h, r) == r \notin Live(h) /\ ~WasClosed(h, r)

(***************************************************************************)
(* close_locked: the root's authority ends.                                *)
(***************************************************************************)
CloseLocked(h, t) ==
  [h EXCEPT !.closed = TRUE,
            !.res = [r \in {} |-> r],
            !.ledger = 0,
            !.free = << >>,
            !.ops = [o \in DOMAIN h.ops |->
               IF h.ops[o].terminal = None
               THEN [h.ops[o] EXCEPT !.terminal = t, !.write = None,
                                     !.read = None, !.result = None,
                                     !.timer = FALSE]
               ELSE [h.ops[o] EXCEPT !.result = None]]]

(***************************************************************************)
(* What the slot allocator owes: live resources have different slots, the  *)
(* free list repeats nothing and holds no live slot, and a live resource   *)
(* carries the newest generation of its slot.                              *)
(***************************************************************************)
DistinctSlots(h) ==
  /\ \A r, q \in Live(h) : h.res[r].slot = h.res[q].slot => r = q
  /\ \A i, j \in DOMAIN h.free : h.free[i] = h.free[j] => i = j
  /\ \A r \in Live(h), i \in DOMAIN h.free : h.res[r].slot # h.free[i]
  /\ \A r \in Live(h) : h.res[r].gen = h.gens[h.res[r].slot]

\* The operations a critical section that takes h to g must notify.
Woken(h, g) == {o \in Pending(h) \cap DOMAIN g.ops : g.ops[o].terminal # None}
=============================================================================
