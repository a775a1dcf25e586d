--------------------------- MODULE HubStateProofs ---------------------------
(***************************************************************************)
(* What the critical sections of HubState preserve: the type of the table  *)
(* and the promise of the slot allocator, for every value of the quotas.   *)
(***************************************************************************)
EXTENDS HubState, FiniteSetTheorems, SequenceTheorems, TLAPS

(***************************************************************************)
(* The listing of a finite set exists; it repeats nothing.                 *)
(***************************************************************************)
LEMMA ListingEnumerates ==
  ASSUME NEW S, IsFiniteSet(S)
  PROVE  /\ Cardinality(S) \in Nat
         /\ Listing(S) \in [1 .. Cardinality(S) -> S]
         /\ IsInjective(Listing(S))
<1>1. Cardinality(S) \in Nat /\ ExistsBijection(1 .. Cardinality(S), S)
  BY FS_CardinalityType, Zenon
<1>2. Listing(S) \in Bijection(1 .. Cardinality(S), S)
  BY <1>1, Zenon DEF ExistsBijection, Listing
<1>. QED  BY <1>1, <1>2, Zenon DEF Bijection, Injection

(***************************************************************************)
(* Tokens are handed out in order, so the live resources are finitely many *)
(* and their slots can be listed.                                          *)
(***************************************************************************)
LEMMA LiveIsFinite ==
  ASSUME NEW h, HubType(h), NEW R, R \subseteq Live(h)
  PROVE  IsFiniteSet(R)
<1>1. 1 \in Int /\ h.last \in Int
  BY HubConstants DEF HubType
<1>2. IsFiniteSet(1 .. h.last)
  BY <1>1, FS_Interval
<1>. QED  BY <1>2, FS_Subset DEF HubType, Live

LEMMA SlotsOfType ==
  ASSUME NEW h, HubType(h), NEW R, R \subseteq Live(h)
  PROVE  SlotsOf(h, R) \in Seq(1 .. h.nextSlot)
<1>1. Listing(R) \in [1 .. Cardinality(R) -> R] /\ Cardinality(R) \in Nat
  BY LiveIsFinite, ListingEnumerates
<1>2. \A i \in 1 .. Cardinality(R) : h.res[Listing(R)[i]].slot \in 1 .. h.nextSlot
  BY <1>1, Zenon DEF HubType, Live
<1>3. SlotsOf(h, R) \in [1 .. Cardinality(R) -> 1 .. h.nextSlot]
  BY <1>2, Zenon DEF SlotsOf
<1>. QED  BY <1>1, <1>3, SeqDef, Zenon

(***************************************************************************)
(* Each critical section keeps the table well typed.                       *)
(***************************************************************************)
LEMMA SaturatingSubType ==
  ASSUME NEW a, NEW b
  PROVE  SaturatingSub(a, b) \in Nat
BY DEF SaturatingSub

LEMMA ReclaimType ==
  ASSUME NEW h, HubType(h), NEW R, R \subseteq Live(h)
  PROVE  HubType(Reclaim(h, R))
<1>1. SlotsOf(h, R) \in Seq(1 .. h.nextSlot)
  BY SlotsOfType
<1>2. h.free \o SlotsOf(h, R) \in Seq(1 .. h.nextSlot)
  BY <1>1, ConcatProperties DEF HubType
<1>3. SaturatingSub(h.ledger, BytesIn(h, R)) \in Nat
  BY SaturatingSubType
<1>. DEFINE g == Reclaim(h, R)
<1>4. IsHub(g) /\ g.res = Without(h.res, R) /\ g.ops = h.ops
      /\ g.last = h.last /\ g.nextSlot = h.nextSlot /\ g.gens = h.gens
      /\ g.free = h.free \o SlotsOf(h, R) /\ g.tombs = h.tombs
      /\ g.ledger = SaturatingSub(h.ledger, BytesIn(h, R))
      /\ g.native = h.native /\ g.closed = h.closed
  <2>1. IsHub(h)
    BY DEF HubType
  <2>. QED  BY <2>1 DEF Reclaim, IsHub
<1>. HIDE DEF g
<1>5. IsMap(g.res) /\ DOMAIN g.res \subseteq DOMAIN h.res
      /\ \A r \in DOMAIN g.res : g.res[r] = h.res[r]
  BY <1>4 DEF Without, IsMap
<1>6. HubType(g)
  BY <1>2, <1>3, <1>4, <1>5 DEF HubType
<1>. QED  BY <1>6 DEF g

LEMMA CreateType ==
  ASSUME NEW h, HubType(h), NEW kind \in Kinds, CanCreate(h, kind),
         NEW store \in Stores, NEW rights \in SUBSET Rights,
         NEW shareable \in BOOLEAN
  PROVE  HubType(Create(h, store, kind, rights, shareable))
<1>. DEFINE slot == NextSlot(h)
            gen  == IF slot \in DOMAIN h.gens THEN h.gens[slot] + 1 ELSE 1
            new  == [slot |-> slot, gen |-> gen, kind |-> kind,
                     rights |-> rights, owner |-> store,
                     shareable |-> shareable, reserved |-> TRUE,
                     committing |-> FALSE, len |-> 0, cap |-> 0,
                     sealed |-> FALSE]
            fresh == h.free = << >>
            top   == IF fresh THEN h.nextSlot + 1 ELSE h.nextSlot
            rest  == IF fresh THEN h.free ELSE SubSeq(h.free, 1, Len(h.free) - 1)
            g     == Create(h, store, kind, rights, shareable)
<1>1. h.free \in Seq(1 .. h.nextSlot) /\ h.nextSlot \in Nat
  BY DEF HubType
<1>2. slot \in 1 .. top /\ top \in Nat /\ h.nextSlot <= top
  BY <1>1, ElementOfSeq, EmptySeq, LenProperties DEF NextSlot
<1>3. rest \in Seq(1 .. top)
  <2>1. CASE fresh
    BY <2>1, EmptySeq
  <2>2. CASE ~fresh
    BY <1>1, <2>2, SubSeqProperties, LenProperties, EmptySeq
  <2>. QED  BY <2>1, <2>2
<1>4. gen \in Nat
  <2>1. h.gens \in [1 .. h.nextSlot -> Nat]
    BY DEF HubType
  <2>2. slot \in DOMAIN h.gens => h.gens[slot] \in Nat
    BY <2>1, Zenon
  <2>. HIDE DEF slot
  <2>. QED  BY <2>2
<1>5. new \in ResourceSlot
  BY <1>2, <1>4 DEF ResourceSlot
<1>6. With(h.gens, slot, gen) \in [1 .. top -> Nat]
  <2>1. h.gens \in [1 .. h.nextSlot -> Nat]
    BY DEF HubType
  <2>2. 1 .. top = (1 .. h.nextSlot) \cup {slot}
    BY <1>1, <1>2, LenProperties, ElementOfSeq DEF NextSlot
  <2>. QED  BY <1>4, <2>1, <2>2, Zenon DEF With
<1>7. IsHub(g) /\ g.res = With(h.res, h.last + 1, new) /\ g.ops = h.ops
      /\ g.last = h.last + 1 /\ g.nextSlot = top
      /\ g.gens = With(h.gens, slot, gen) /\ g.free = rest
      /\ g.tombs = h.tombs /\ g.ledger = h.ledger /\ g.native = h.native
      /\ g.closed = h.closed
  <2>1. IsHub(h)
    BY DEF HubType
  <2>. QED  BY <2>1 DEF Create, IsHub
<1>8. h.last + 1 \in 0 .. MaxToken
  BY HubConstants DEF HubType, CanCreate
<1>. HIDE DEF g, slot, gen, new, top, rest
<1>9. IsMap(g.res) /\ DOMAIN g.res = DOMAIN h.res \cup {h.last + 1}
      /\ \A r \in DOMAIN g.res : g.res[r] \in ResourceSlot
                                /\ g.res[r].slot \in 1 .. top
  <2>1. new.slot \in 1 .. top
    BY <1>2 DEF new
  <2>. QED  BY <1>1, <1>2, <1>5, <1>7, <2>1 DEF HubType, With, IsMap
<1>10. DOMAIN g.res \subseteq 1 .. g.last /\ DOMAIN g.ops \subseteq 1 .. g.last
  <2>1. DOMAIN h.res \subseteq 1 .. h.last /\ DOMAIN h.ops \subseteq 1 .. h.last
        /\ h.last \in Nat
    BY HubConstants DEF HubType
  <2>. QED  BY <1>7, <1>9, <2>1
<1>11. IsMap(g.ops) /\ (\A o \in DOMAIN g.ops : g.ops[o] \in OperationSlot)
       /\ g.tombs \in Seq(Token) /\ g.ledger \in Nat /\ g.native \in Nat
       /\ g.closed \in BOOLEAN
  BY <1>7 DEF HubType
<1>12. HubType(g)
  BY <1>2, <1>3, <1>6, <1>7, <1>8, <1>9, <1>10, <1>11 DEF HubType
<1>. QED  BY <1>12 DEF g

(***************************************************************************)
(* Changing only the operations, or only fields of the resources.          *)
(***************************************************************************)
LEMMA OpsType ==
  ASSUME NEW h, HubType(h), NEW f, IsMap(f), DOMAIN f \subseteq 1 .. h.last,
         \A o \in DOMAIN f : f[o] \in OperationSlot
  PROVE  HubType([h EXCEPT !.ops = f])
<1>. DEFINE g == [h EXCEPT !.ops = f]
<1>1. IsHub(g) /\ g.res = h.res /\ g.ops = f /\ g.last = h.last
      /\ g.nextSlot = h.nextSlot /\ g.gens = h.gens /\ g.free = h.free
      /\ g.tombs = h.tombs /\ g.ledger = h.ledger /\ g.native = h.native
      /\ g.closed = h.closed
  <2>1. IsHub(h)
    BY DEF HubType
  <2>. QED  BY <2>1 DEF IsHub
<1>. HIDE DEF g
<1>2. HubType(g)
  BY <1>1 DEF HubType
<1>. QED  BY <1>2 DEF g

LEMMA ResType ==
  ASSUME NEW h, HubType(h), NEW f, IsMap(f), DOMAIN f \subseteq Live(h),
         \A r \in DOMAIN f : f[r] \in ResourceSlot /\ f[r].slot = h.res[r].slot
  PROVE  HubType([h EXCEPT !.res = f])
<1>. DEFINE g == [h EXCEPT !.res = f]
<1>1. IsHub(g) /\ g.res = f /\ g.ops = h.ops /\ g.last = h.last
      /\ g.nextSlot = h.nextSlot /\ g.gens = h.gens /\ g.free = h.free
      /\ g.tombs = h.tombs /\ g.ledger = h.ledger /\ g.native = h.native
      /\ g.closed = h.closed
  <2>1. IsHub(h)
    BY DEF HubType
  <2>. QED  BY <2>1 DEF IsHub
<1>. HIDE DEF g
<1>2. HubType(g)
  BY <1>1 DEF HubType, Live
<1>. QED  BY <1>2 DEF g

LEMMA SubmitType ==
  ASSUME NEW h, HubType(h), h.last < MaxToken, NEW store \in Stores,
         NEW r \in Option(Token)
  PROVE  HubType(Submit(h, store, r))
<1>. DEFINE op == [owner |-> store, res |-> r, terminal |-> None,
                   deferred |-> None, suspended |-> FALSE, permit |-> FALSE,
                   created |-> None, role |-> "plain", write |-> None,
                   read |-> None, result |-> None,
                   timer |-> FALSE]
            g == Submit(h, store, r)
<1>1. op \in OperationSlot
  BY DEF OperationSlot, Option
<1>2. IsHub(g) /\ g.res = h.res /\ g.ops = With(h.ops, h.last + 1, op)
      /\ g.last = h.last + 1 /\ g.nextSlot = h.nextSlot /\ g.gens = h.gens
      /\ g.free = h.free /\ g.tombs = h.tombs /\ g.ledger = h.ledger
      /\ g.native = h.native /\ g.closed = h.closed
  <2>1. IsHub(h)
    BY DEF HubType
  <2>. QED  BY <2>1 DEF Submit, IsHub
<1>3. h.last \in Nat /\ h.last + 1 \in 0 .. MaxToken
      /\ DOMAIN h.res \subseteq 1 .. h.last /\ DOMAIN h.ops \subseteq 1 .. h.last
  BY HubConstants DEF HubType
<1>. HIDE DEF g, op
<1>4. IsMap(g.ops) /\ DOMAIN g.ops = DOMAIN h.ops \cup {h.last + 1}
      /\ \A o \in DOMAIN g.ops : g.ops[o] \in OperationSlot
  BY <1>1, <1>2 DEF HubType, With, IsMap
<1>5. DOMAIN g.res \subseteq 1 .. g.last /\ DOMAIN g.ops \subseteq 1 .. g.last
  BY <1>2, <1>3, <1>4
<1>6. HubType(g)
  BY <1>2, <1>3, <1>4, <1>5 DEF HubType
<1>. QED  BY <1>6 DEF g

LEMMA RemoveOpType ==
  ASSUME NEW h, HubType(h), NEW o
  PROVE  HubType(RemoveOp(h, o))
<1>1. IsMap(Without(h.ops, {o})) /\ DOMAIN Without(h.ops, {o}) \subseteq DOMAIN h.ops
      /\ \A p \in DOMAIN Without(h.ops, {o}) : Without(h.ops, {o})[p] = h.ops[p]
  BY DEF Without, IsMap
<1>2. DOMAIN h.ops \subseteq 1 .. h.last /\ \A p \in DOMAIN h.ops : h.ops[p] \in OperationSlot
  BY DEF HubType
<1>3. HubType([h EXCEPT !.ops = Without(h.ops, {o})])
  BY <1>1, <1>2, OpsType
<1>. QED  BY <1>3 DEF RemoveOp

(***************************************************************************)
(* terminal_locked.  The table after the terminals are set, before the     *)
(* resources the operations were creating are published or reclaimed.      *)
(***************************************************************************)
LEMMA EndedType ==
  ASSUME NEW h, HubType(h), NEW O, NEW t \in Terminals
  PROVE  HubType(Ended(h, O, t)) /\ Ended(h, O, t).res = h.res
<1>. DEFINE f == [o \in DOMAIN h.ops |->
       IF o \in O \cap Pending(h)
       THEN [h.ops[o] EXCEPT !.terminal = t, !.write = None, !.read = None, !.timer = FALSE]
       ELSE h.ops[o]]
<1>1. DOMAIN h.ops \subseteq 1 .. h.last /\ \A o \in DOMAIN h.ops : h.ops[o] \in OperationSlot
  BY DEF HubType
<1>2. \A o \in DOMAIN h.ops : f[o] \in OperationSlot
  <2>. SUFFICES ASSUME NEW o \in DOMAIN h.ops
                PROVE  [h.ops[o] EXCEPT !.terminal = t, !.write = None, !.read = None, !.timer = FALSE]
                          \in OperationSlot
    BY <1>1, Zenon
  <2>. QED  BY <1>1, ZenonT(40) DEF OperationSlot, Option
<1>3. IsMap(f) /\ DOMAIN f \subseteq 1 .. h.last
  BY <1>1, Zenon DEF IsMap
<1>4. HubType([h EXCEPT !.ops = f])
  <2>. HIDE DEF f
  <2>. QED  BY <1>2, <1>3, OpsType, Zenon DEF f
<1>5. [h EXCEPT !.ops = f].res = h.res
  BY DEF HubType, IsHub
<1>. QED  BY <1>4, <1>5, Zenon DEF Ended

LEMMA TerminateType ==
  ASSUME NEW h, HubType(h), NEW O, NEW t \in Terminals
  PROVE  HubType(Terminate(h, O, t))
<1>. DEFINE e == Ended(h, O, t)
            own == Created(h, O)
            f == [r \in Live(h) |-> IF r \in own THEN [h.res[r] EXCEPT !.reserved = FALSE]
                                              ELSE h.res[r]]
<1>1. HubType(e) /\ e.res = h.res
  BY EndedType
<1>2. own \subseteq Live(e)
  BY <1>1 DEF Created, Live
<1>. HIDE DEF e, own
<1>3. HubType(Reclaim(e, own))
  BY <1>1, <1>2, ReclaimType
<1>4. \A r \in Live(h) : h.res[r] \in ResourceSlot
  BY DEF HubType, Live
<1>5. \A r \in Live(h) : f[r] \in ResourceSlot /\ f[r].slot = e.res[r].slot
  <2>. SUFFICES ASSUME NEW r \in Live(h)
                PROVE  /\ [h.res[r] EXCEPT !.reserved = FALSE] \in ResourceSlot
                       /\ [h.res[r] EXCEPT !.reserved = FALSE].slot = h.res[r].slot
    BY <1>1, <1>4
  <2>. QED  BY <1>4, Zenon DEF ResourceSlot
<1>6. IsMap(f) /\ DOMAIN f = Live(h) /\ Live(h) = Live(e)
  BY <1>1 DEF IsMap, Live
<1>7. HubType([e EXCEPT !.res = f])
  <2>. HIDE DEF f
  <2>. QED  BY <1>1, <1>5, <1>6, ResType
<1>. QED  BY <1>3, <1>7, Zenon DEF Terminate, e, own

(***************************************************************************)
(* close_resource_with_terminal_locked and close_locked.                   *)
(***************************************************************************)
LEMMA BuryType ==
  ASSUME NEW tombs \in Seq(Token), NEW r \in Token
  PROVE  Bury(tombs, r) \in Seq(Token)
<1>1. Append(tombs, r) \in Seq(Token) /\ Append(tombs, r) # << >>
  BY AppendProperties
<1>2. Tail(Append(tombs, r)) \in Seq(Token)
  BY <1>1, HeadTailProperties
<1>. QED  BY <1>1, <1>2 DEF Bury

\* A live resource after its removal and before its borrowers are ended.
LEMMA BuriedType ==
  ASSUME NEW h, HubType(h), NEW r \in Live(h)
  PROVE  HubType(Buried(h, r)) /\ Buried(h, r).res = Reclaim(h, {r}).res
<1>. DEFINE c == Reclaim(h, {r})
            g == [c EXCEPT !.tombs = Bury(@, r)]
<1>1. HubType(c)
  BY ReclaimType
<1>. HIDE DEF c
<1>2. r \in Token
  BY HubConstants DEF HubType, Live, Token
<1>3. Bury(c.tombs, r) \in Seq(Token)
  BY <1>1, <1>2, BuryType DEF HubType
<1>4. IsHub(g) /\ g.res = c.res /\ g.ops = c.ops /\ g.last = c.last
      /\ g.nextSlot = c.nextSlot /\ g.gens = c.gens /\ g.free = c.free
      /\ g.tombs = Bury(c.tombs, r) /\ g.ledger = c.ledger
      /\ g.native = c.native /\ g.closed = c.closed
  <2>1. IsHub(c)
    BY <1>1 DEF HubType
  <2>. QED  BY <2>1 DEF IsHub
<1>. HIDE DEF g
<1>5. HubType(g)
  BY <1>1, <1>3, <1>4 DEF HubType
<1>. QED  BY <1>4, <1>5 DEF Buried, g, c

LEMMA CloseResourceType ==
  ASSUME NEW h, HubType(h), NEW r, NEW t \in Terminals
  PROVE  HubType(CloseResource(h, r, t))
<1>1. r \in Live(h) => HubType(Terminate(Buried(h, r), Borrowers(h, r), t))
  BY BuriedType, TerminateType, Zenon
<1>. QED  BY <1>1 DEF CloseResource

LEMMA CloseLockedType ==
  ASSUME NEW h, HubType(h), NEW t \in Terminals
  PROVE  HubType(CloseLocked(h, t))
<1>. DEFINE f == [o \in DOMAIN h.ops |->
               IF h.ops[o].terminal = None
               THEN [h.ops[o] EXCEPT !.terminal = t, !.write = None,
                                     !.read = None, !.result = None,
                                     !.timer = FALSE]
               ELSE [h.ops[o] EXCEPT !.result = None]]
            g == CloseLocked(h, t)
<1>1. IsHub(g) /\ g.res = [r \in {} |-> r] /\ g.ops = f /\ g.last = h.last
      /\ g.nextSlot = h.nextSlot /\ g.gens = h.gens /\ g.free = << >>
      /\ g.tombs = h.tombs /\ g.ledger = 0 /\ g.native = h.native
      /\ g.closed = TRUE
  <2>1. IsHub(h)
    BY DEF HubType
  <2>. QED  BY <2>1 DEF CloseLocked, IsHub
<1>2. \A o \in DOMAIN h.ops : f[o] \in OperationSlot
  <2>. SUFFICES ASSUME NEW o \in DOMAIN h.ops
                PROVE  /\ [h.ops[o] EXCEPT !.terminal = t, !.write = None, !.read = None,
                                           !.result = None, !.timer = FALSE] \in OperationSlot
                       /\ [h.ops[o] EXCEPT !.result = None] \in OperationSlot
    BY Zenon
  <2>1. h.ops[o] \in OperationSlot
    BY DEF HubType
  <2>2. [h.ops[o] EXCEPT !.terminal = t, !.write = None, !.read = None,
                         !.result = None, !.timer = FALSE] \in OperationSlot
    BY <2>1, ZenonT(40) DEF OperationSlot, Option
  <2>3. [h.ops[o] EXCEPT !.result = None] \in OperationSlot
    BY <2>1 DEF OperationSlot, Option
  <2>. QED  BY <2>2, <2>3
<1>3. IsMap(f) /\ DOMAIN f = DOMAIN h.ops
  BY Zenon DEF IsMap
<1>4. IsMap(g.res) /\ DOMAIN g.res = {}
  BY <1>1, Zenon DEF IsMap
<1>5. g.free \in Seq(1 .. g.nextSlot)
  BY <1>1, EmptySeq, Zenon
<1>. HIDE DEF f, g
<1>6. DOMAIN g.ops \subseteq 1 .. g.last /\ g.last \in 0 .. MaxToken /\ g.nextSlot \in Nat
      /\ g.gens \in [1 .. g.nextSlot -> Nat] /\ g.tombs \in Seq(Token)
      /\ g.ledger \in Nat /\ g.native \in Nat
  BY <1>1, <1>3 DEF HubType
<1>7. g.closed \in BOOLEAN
  BY <1>1, Zenon
<1>8. HubType(g)
  BY <1>1, <1>2, <1>3, <1>4, <1>5, <1>6, <1>7, Zenon DEF HubType
<1>. QED  BY <1>8 DEF g

LEMMA InitialHubType == HubType(InitialHub)
<1>. DEFINE g == InitialHub
<1>1. IsHub(g) /\ g.res = [r \in {} |-> r] /\ g.ops = [o \in {} |-> o] /\ g.last = 0
      /\ g.nextSlot = 0 /\ g.gens = [i \in 1 .. 0 |-> 0] /\ g.free = << >>
      /\ g.tombs = << >> /\ g.ledger = 0 /\ g.native = 0 /\ g.closed = FALSE
  BY DEF InitialHub, IsHub
<1>. HIDE DEF g
<1>2. << >> \in Seq(1 .. 0) /\ << >> \in Seq(Token)
  BY EmptySeq
<1>3. IsMap(g.res) /\ DOMAIN g.res = {} /\ IsMap(g.ops) /\ DOMAIN g.ops = {}
  BY <1>1 DEF IsMap
<1>4. g.last \in 0 .. MaxToken /\ g.nextSlot \in Nat /\ g.ledger \in Nat
      /\ g.native \in Nat /\ g.gens \in [1 .. g.nextSlot -> Nat]
  BY <1>1, HubConstants
<1>5. g.closed \in BOOLEAN
  BY <1>1, Zenon
<1>6. HubType(g)
  BY <1>1, <1>2, <1>3, <1>4, <1>5, Zenon DEF HubType
<1>. QED  BY <1>6 DEF g

(***************************************************************************)
(* The slot allocator: what is freed was live, what is handed out was free *)
(* or is new.                                                              *)
(***************************************************************************)
LEMMA ReclaimSlots ==
  ASSUME NEW h, HubType(h), DistinctSlots(h), NEW R, R \subseteq Live(h)
  PROVE  DistinctSlots(Reclaim(h, R))
<1>. DEFINE g == Reclaim(h, R)
            q == Listing(R)
            m == Cardinality(R)
            s == SlotsOf(h, R)
<1>1. q \in [1 .. m -> R] /\ IsInjective(q) /\ m \in Nat
  BY LiveIsFinite, ListingEnumerates
<1>2. s \in Seq(1 .. h.nextSlot) /\ Len(s) = m
      /\ \A i \in 1 .. m : s[i] = h.res[q[i]].slot /\ q[i] \in R
  BY <1>1, SlotsOfType, LenProperties DEF SlotsOf
<1>3. g.res = Without(h.res, R) /\ g.free = h.free \o s /\ g.gens = h.gens
  BY DEF HubType, IsHub, Reclaim
<1>4. h.free \in Seq(1 .. h.nextSlot) /\ Len(h.free) \in Nat
      /\ DOMAIN h.free = 1 .. Len(h.free)
  BY LenProperties DEF HubType
<1>5. /\ DOMAIN g.free \subseteq Int
      /\ \A i \in DOMAIN g.free :
            /\ i \in DOMAIN h.free => g.free[i] = h.free[i]
            /\ i \notin DOMAIN h.free => /\ i - Len(h.free) \in 1 .. Len(s)
                                        /\ g.free[i] = s[i - Len(h.free)]
  <2>. HIDE DEF s, g, q, m
  <2>1. Len(s) \in Nat
    BY <1>2, LenProperties
  <2>2. /\ DOMAIN (h.free \o s) = 1 .. Len(h.free) + Len(s)
        /\ \A i \in 1 .. Len(h.free) + Len(s) :
              (h.free \o s)[i] = IF i <= Len(h.free) THEN h.free[i] ELSE s[i - Len(h.free)]
    <3>1. h.free \o s \in Seq(1 .. h.nextSlot) /\ Len(h.free \o s) = Len(h.free) + Len(s)
      BY <1>2, <1>4, ConcatProperties, Zenon
    <3>2. DOMAIN (h.free \o s) = 1 .. Len(h.free) + Len(s)
      BY <3>1, LenProperties
    <3>. QED  BY <1>2, <1>4, <3>2, ConcatProperties
  <2>. QED  BY <1>3, <1>4, <2>1, <2>2
<1>6. Live(g) = Live(h) \ R /\ \A r \in Live(g) : g.res[r] = h.res[r]
  BY <1>3 DEF Live, Without
<1>. HIDE DEF g, q, s, m
<1>7. \A i, j \in DOMAIN g.free : g.free[i] = g.free[j] => i = j
  <2>. SUFFICES ASSUME NEW i \in DOMAIN g.free, NEW j \in DOMAIN g.free,
                       g.free[i] = g.free[j]
                PROVE  i = j
    OBVIOUS
  <2>. DEFINE n == Len(h.free)
  <2>1. CASE i \in DOMAIN h.free /\ j \in DOMAIN h.free
    BY <1>5, <2>1 DEF DistinctSlots
  <2>2. CASE i \notin DOMAIN h.free /\ j \notin DOMAIN h.free
    <3>1. h.res[q[i - n]].slot = h.res[q[j - n]].slot /\ q[i - n] \in R /\ q[j - n] \in R
          /\ i - n \in DOMAIN q /\ j - n \in DOMAIN q
      BY <1>1, <1>2, <1>5, <2>2, LenProperties
    <3>2. q[i - n] = q[j - n]
      BY <3>1 DEF DistinctSlots, Live
    <3>3. i - n = j - n
      BY <1>1, <3>1, <3>2 DEF IsInjective
    <3>. QED  BY <1>4, <1>5, <1>2, <3>3, LenProperties
  <2>3. CASE i \in DOMAIN h.free /\ j \notin DOMAIN h.free
    <3>1. q[j - n] \in R /\ h.free[i] = h.res[q[j - n]].slot
      BY <1>2, <1>5, <2>3
    <3>. QED  BY <3>1, <2>3 DEF DistinctSlots
  <2>4. CASE i \notin DOMAIN h.free /\ j \in DOMAIN h.free
    <3>1. q[i - n] \in R /\ h.free[j] = h.res[q[i - n]].slot
      BY <1>2, <1>5, <2>4
    <3>. QED  BY <3>1, <2>4 DEF DistinctSlots
  <2>. QED  BY <2>1, <2>2, <2>3, <2>4
<1>8. \A r \in Live(g), i \in DOMAIN g.free : g.res[r].slot # g.free[i]
  <2>. SUFFICES ASSUME NEW r \in Live(g), NEW i \in DOMAIN g.free
                PROVE  g.res[r].slot # g.free[i]
    OBVIOUS
  <2>1. CASE i \in DOMAIN h.free
    BY <1>5, <1>6, <2>1 DEF DistinctSlots
  <2>2. CASE i \notin DOMAIN h.free
    <3>1. PICK k \in R : g.free[i] = h.res[k].slot
      BY <1>2, <1>5, <2>2
    <3>. QED  BY <1>6, <3>1 DEF DistinctSlots
  <2>. QED  BY <2>1, <2>2
<1>9. \A r, k \in Live(g) : g.res[r].slot = g.res[k].slot => r = k
  BY <1>6 DEF DistinctSlots
<1>10. \A r \in Live(g) : g.res[r].gen = g.gens[g.res[r].slot]
  BY <1>3, <1>6 DEF DistinctSlots
<1>11. DistinctSlots(g)
  BY <1>7, <1>8, <1>9, <1>10 DEF DistinctSlots
<1>. QED  BY <1>11 DEF g

\* A step that leaves the allocator alone and drops or edits resources without
\* touching their slot and generation.
LEMMA SameSlots ==
  ASSUME NEW h, DistinctSlots(h), NEW g, g.free = h.free, g.gens = h.gens,
         DOMAIN g.res \subseteq DOMAIN h.res,
         \A r \in DOMAIN g.res : g.res[r].slot = h.res[r].slot /\ g.res[r].gen = h.res[r].gen
  PROVE  DistinctSlots(g)
BY DEF DistinctSlots, Live

LEMMA CreateSlots ==
  ASSUME NEW h, HubType(h), DistinctSlots(h), NEW store, NEW kind, NEW rights,
         NEW shareable
  PROVE  DistinctSlots(Create(h, store, kind, rights, shareable))
<1>. DEFINE slot == NextSlot(h)
            gen  == IF slot \in DOMAIN h.gens THEN h.gens[slot] + 1 ELSE 1
            new  == [slot |-> slot, gen |-> gen, kind |-> kind,
                     rights |-> rights, owner |-> store,
                     shareable |-> shareable, reserved |-> TRUE,
                     committing |-> FALSE, len |-> 0, cap |-> 0,
                     sealed |-> FALSE]
            fresh == h.free = << >>
            rest  == IF fresh THEN h.free ELSE SubSeq(h.free, 1, Len(h.free) - 1)
            tok   == h.last + 1
            g     == Create(h, store, kind, rights, shareable)
<1>1. g.res = With(h.res, tok, new) /\ g.gens = With(h.gens, slot, gen) /\ g.free = rest
  BY DEF Create, HubType, IsHub
<1>2. h.free \in Seq(1 .. h.nextSlot) /\ h.nextSlot \in Nat /\ h.last \in Nat
      /\ DOMAIN h.res \subseteq 1 .. h.last /\ h.gens \in [1 .. h.nextSlot -> Nat]
      /\ \A r \in DOMAIN h.res : h.res[r].slot \in 1 .. h.nextSlot
  BY HubConstants DEF HubType
<1>3. tok \notin DOMAIN h.res
  BY <1>2
<1>4. /\ \A r \in DOMAIN h.res : h.res[r].slot # slot
      /\ \A i \in DOMAIN rest : i \in DOMAIN h.free /\ rest[i] = h.free[i] /\ rest[i] # slot
  <2>1. CASE fresh
    BY <1>2, <2>1, EmptySeq, LenProperties DEF NextSlot
  <2>2. CASE ~fresh
    <3>1. Len(h.free) \in Nat \ {0} /\ DOMAIN h.free = 1 .. Len(h.free)
          /\ slot = h.free[Len(h.free)] /\ Len(h.free) \in DOMAIN h.free
      BY <1>2, <2>2, EmptySeq, LenProperties DEF NextSlot
    <3>2. DOMAIN rest = 1 .. Len(h.free) - 1
          /\ \A i \in 1 .. Len(h.free) - 1 : rest[i] = h.free[i]
      BY <2>2, <3>1
    <3>3. \A i \in DOMAIN rest : i \in DOMAIN h.free /\ i # Len(h.free)
      BY <3>1, <3>2
    <3>. QED  BY <3>1, <3>2, <3>3 DEF DistinctSlots, Live
  <2>. QED  BY <2>1, <2>2
<1>5. new.slot = slot /\ new.gen = gen
  OBVIOUS
<1>. HIDE DEF g, new, rest, gen, slot, tok
<1>6. Live(g) = Live(h) \cup {tok} /\ g.res[tok] = new
      /\ \A r \in Live(h) : g.res[r] = h.res[r]
  BY <1>1, <1>3 DEF Live, With
<1>7. \A r \in Live(g) : g.res[r].gen = g.gens[g.res[r].slot]
  <2>1. \A r \in Live(h) : h.res[r].slot \in DOMAIN h.gens /\ h.res[r].slot # slot
    BY <1>2, <1>4 DEF Live
  <2>2. \A x \in DOMAIN h.gens : x # slot => g.gens[x] = h.gens[x]
    BY <1>1 DEF With
  <2>3. g.gens[slot] = gen
    BY <1>1 DEF With
  <2>. QED  BY <1>5, <1>6, <2>1, <2>2, <2>3 DEF DistinctSlots
<1>8. \A i, j \in DOMAIN g.free : g.free[i] = g.free[j] => i = j
  BY <1>1, <1>4 DEF DistinctSlots
<1>9. \A r \in Live(g), i \in DOMAIN g.free : g.res[r].slot # g.free[i]
  BY <1>1, <1>4, <1>5, <1>6 DEF DistinctSlots
<1>10. \A r, k \in Live(g) : g.res[r].slot = g.res[k].slot => r = k
  BY <1>4, <1>5, <1>6 DEF DistinctSlots, Live
<1>11. DistinctSlots(g)
  BY <1>7, <1>8, <1>9, <1>10 DEF DistinctSlots
<1>. QED  BY <1>11 DEF g

LEMMA TerminateSlots ==
  ASSUME NEW h, HubType(h), DistinctSlots(h), NEW O, NEW t \in Terminals
  PROVE  DistinctSlots(Terminate(h, O, t))
<1>. DEFINE e == Ended(h, O, t)
            own == Created(h, O)
            f == [r \in Live(h) |-> IF r \in own THEN [h.res[r] EXCEPT !.reserved = FALSE]
                                              ELSE h.res[r]]
            g == [e EXCEPT !.res = f]
<1>1. HubType(e) /\ e.res = h.res
  BY EndedType
<1>2. e.free = h.free /\ e.gens = h.gens
  BY DEF Ended, HubType, IsHub
<1>3. DistinctSlots(e)
  BY <1>1, <1>2 DEF DistinctSlots, Live
<1>4. own \subseteq Live(e)
  BY <1>1 DEF Created, Live
<1>. HIDE DEF e, own
<1>5. DistinctSlots(Reclaim(e, own))
  BY <1>1, <1>3, <1>4, ReclaimSlots
<1>6. \A r \in Live(h) : f[r].slot = e.res[r].slot /\ f[r].gen = e.res[r].gen
  <2>. SUFFICES ASSUME NEW r \in Live(h)
                PROVE  /\ [h.res[r] EXCEPT !.reserved = FALSE].slot = h.res[r].slot
                       /\ [h.res[r] EXCEPT !.reserved = FALSE].gen = h.res[r].gen
    BY <1>1
  <2>1. h.res[r] \in ResourceSlot
    BY DEF HubType, Live
  <2>. QED  BY <2>1 DEF ResourceSlot
<1>7. DOMAIN f = DOMAIN e.res /\ DOMAIN f = Live(h)
  BY <1>1 DEF Live
<1>. HIDE DEF f
<1>8. g.res = f /\ g.free = e.free /\ g.gens = e.gens
  BY <1>1 DEF HubType, IsHub
<1>. HIDE DEF g
<1>9. DistinctSlots(g)
  BY <1>3, <1>6, <1>7, <1>8, SameSlots, Zenon
<1>. QED  BY <1>5, <1>9, Zenon DEF Terminate, e, own, f, g

LEMMA CloseResourceSlots ==
  ASSUME NEW h, HubType(h), DistinctSlots(h), NEW r, NEW t \in Terminals
  PROVE  DistinctSlots(CloseResource(h, r, t))
<1>1. CASE r \in Live(h)
  <2>. DEFINE c == Reclaim(h, {r})
              b == Buried(h, r)
  <2>1. HubType(c) /\ DistinctSlots(c) /\ HubType(b)
    BY <1>1, ReclaimType, ReclaimSlots, BuriedType
  <2>2. b.res = c.res /\ b.free = c.free /\ b.gens = c.gens
    <3>. HIDE DEF c
    <3>. QED  BY <2>1 DEF Buried, HubType, IsHub, c
  <2>. HIDE DEF c, b
  <2>3. DistinctSlots(b)
    BY <2>1, <2>2 DEF DistinctSlots, Live
  <2>4. DistinctSlots(Terminate(b, Borrowers(h, r), t))
    BY <2>1, <2>3, TerminateSlots
  <2>. QED  BY <1>1, <2>4 DEF CloseResource, b
<1>2. CASE r \notin Live(h)
  BY <1>2 DEF CloseResource
<1>. QED  BY <1>1, <1>2

LEMMA CloseLockedSlots ==
  ASSUME NEW h, HubType(h), NEW t
  PROVE  DistinctSlots(CloseLocked(h, t))
<1>. DEFINE g == CloseLocked(h, t)
<1>1. DOMAIN g.res = {} /\ g.free = << >>
  BY DEF CloseLocked, HubType, IsHub
<1>2. DOMAIN << >> = {}
  OBVIOUS
<1>. HIDE DEF g
<1>3. DistinctSlots(g)
  BY <1>1, <1>2 DEF DistinctSlots, Live
<1>. QED  BY <1>3 DEF g

(***************************************************************************)
(* Ending operations and closing resources only take away: no resource     *)
(* appears, no operation appears or becomes pending again, and a terminal  *)
(* result stays what it is.                                                *)
(***************************************************************************)
OnlyEnds(h, g) ==
  /\ g.closed = h.closed
  /\ DOMAIN g.res \subseteq DOMAIN h.res
  /\ DOMAIN g.ops = DOMAIN h.ops
  /\ \A o \in DOMAIN h.ops :
        h.ops[o].terminal # None => g.ops[o].terminal = h.ops[o].terminal

LEMMA OnlyEndsTransitive ==
  ASSUME NEW f, NEW g, NEW h, OnlyEnds(f, g), OnlyEnds(g, h)
  PROVE  OnlyEnds(f, h)
BY DEF OnlyEnds

LEMMA ReclaimOnlyEnds ==
  ASSUME NEW h, HubType(h), NEW R
  PROVE  OnlyEnds(h, Reclaim(h, R))
BY DEF HubType, IsHub, Reclaim, Without, OnlyEnds

LEMMA TerminateOnlyEnds ==
  ASSUME NEW h, HubType(h), NEW O, NEW t \in Terminals
  PROVE  OnlyEnds(h, Terminate(h, O, t))
<1>. DEFINE e == Ended(h, O, t)
            own == Created(h, O)
            f == [r \in Live(h) |-> IF r \in own THEN [h.res[r] EXCEPT !.reserved = FALSE]
                                              ELSE h.res[r]]
            g == [e EXCEPT !.res = f]
<1>1. HubType(e)
  BY EndedType
<1>2. OnlyEnds(h, e)
  <2>1. e.closed = h.closed /\ e.res = h.res /\ DOMAIN e.ops = DOMAIN h.ops
        /\ \A o \in DOMAIN h.ops : h.ops[o].terminal # None => e.ops[o] = h.ops[o]
    BY Zenon DEF Ended, Pending, HubType, IsHub
  <2>. QED  BY <2>1 DEF OnlyEnds
<1>3. DOMAIN f = DOMAIN h.res
  BY DEF Live
<1>. HIDE DEF f, own, e
<1>4. OnlyEnds(h, Reclaim(e, own))
  BY <1>1, <1>2, ReclaimOnlyEnds, OnlyEndsTransitive
<1>5. g.closed = e.closed /\ g.res = f /\ g.ops = e.ops
  BY <1>1 DEF HubType, IsHub
<1>6. OnlyEnds(h, g)
  BY <1>2, <1>3, <1>5 DEF OnlyEnds
<1>. QED  BY <1>4, <1>6, Zenon DEF Terminate, e, own, f, g

LEMMA CloseResourceOnlyEnds ==
  ASSUME NEW h, HubType(h), NEW r, NEW t \in Terminals
  PROVE  OnlyEnds(h, CloseResource(h, r, t))
<1>1. CASE r \in Live(h)
  <2>. DEFINE c == Reclaim(h, {r})
              b == Buried(h, r)
  <2>1. HubType(c) /\ HubType(b) /\ OnlyEnds(h, c)
    BY <1>1, ReclaimType, BuriedType, ReclaimOnlyEnds
  <2>2. b.res = c.res /\ b.ops = c.ops /\ b.closed = c.closed
    <3>. HIDE DEF c
    <3>. QED  BY <2>1 DEF Buried, HubType, IsHub, c
  <2>. HIDE DEF c, b
  <2>3. OnlyEnds(h, b)
    BY <2>1, <2>2 DEF OnlyEnds
  <2>4. OnlyEnds(h, Terminate(b, Borrowers(h, r), t))
    BY <2>1, <2>3, TerminateOnlyEnds, OnlyEndsTransitive
  <2>. QED  BY <1>1, <2>4 DEF CloseResource, b
<1>2. CASE r \notin Live(h)
  BY <1>2 DEF CloseResource, OnlyEnds
<1>. QED  BY <1>1, <1>2

LEMMA CloseLockedEnds ==
  ASSUME NEW h, HubType(h), NEW t \in Terminals
  PROVE  LET g == CloseLocked(h, t)
         IN /\ Live(g) = {} /\ Pending(g) = {} /\ DOMAIN g.ops = DOMAIN h.ops
            /\ \A o \in DOMAIN h.ops :
                 h.ops[o].terminal # None => g.ops[o].terminal = h.ops[o].terminal
<1>. DEFINE f == [o \in DOMAIN h.ops |->
               IF h.ops[o].terminal = None
               THEN [h.ops[o] EXCEPT !.terminal = t, !.write = None,
                                     !.read = None, !.result = None,
                                     !.timer = FALSE]
               ELSE [h.ops[o] EXCEPT !.result = None]]
            g == CloseLocked(h, t)
<1>1. g.ops = f /\ g.res = [r \in {} |-> r]
  BY DEF CloseLocked, HubType, IsHub
<1>2. \A o \in DOMAIN h.ops : h.ops[o] \in OperationSlot
  BY DEF HubType
<1>3. t # None
  BY HubConstants
<1>4. \A o \in DOMAIN h.ops :
         f[o].terminal = IF h.ops[o].terminal = None THEN t ELSE h.ops[o].terminal
  BY <1>2, Zenon DEF OperationSlot
<1>. HIDE DEF f, g
<1>5. DOMAIN f = DOMAIN h.ops
  BY DEF f
<1>6. Live(g) = {} /\ DOMAIN g.ops = DOMAIN h.ops
  BY <1>1, <1>5 DEF Live
<1>7. Pending(g) = {}
  BY <1>1, <1>3, <1>4, <1>5 DEF Pending
<1>. QED  BY <1>1, <1>4, <1>6, <1>7 DEF g
=============================================================================
