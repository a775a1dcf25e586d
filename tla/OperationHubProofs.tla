------------------------- MODULE OperationHubProofs -------------------------
(***************************************************************************)
(* Theorems about the operation hub, for every set of Stores and every     *)
(* quota.                                                                  *)
(***************************************************************************)
EXTENDS OperationHub, HubStateProofs

(***************************************************************************)
(* The inductive invariant: well-typed state, the allocator's promise, and *)
(* a drained table once the root is closed.  Creation needs the type (a    *)
(* freed slot is one of those handed out), and the last part needs nothing *)
(* else because every path that adds tests `closed` in the same critical   *)
(* section.                                                                *)
(***************************************************************************)
HubInv ==
  /\ TypeOK
  /\ SlotsNeverShared
  /\ ClosedHubStaysDrained

LEMMA PcType ==
  ASSUME TypeOK, NEW s \in Stores
  PROVE  pc[s].res \in Option(Token) /\ pc[s].op \in Option(Token)
BY DEF TypeOK

LEMMA GotoType ==
  ASSUME TypeOK, NEW s \in Stores,
         NEW w \in {"idle", "created", "undo", "attaching", "closing",
                    "finishing", "parked", "trapped"},
         NEW r \in Option(Token), NEW o \in Option(Token), Goto(s, At(w, r, o))
  PROVE  pc' \in [Stores -> [at: {"idle", "created", "undo", "attaching", "closing",
                                  "finishing", "parked", "trapped"},
                             res: Option(Token), op: Option(Token)]]
BY DEF TypeOK, Goto, At

LEMMA TokensType ==
  ASSUME NEW h, HubType(h)
  PROVE  DOMAIN h.ops \subseteq Token /\ Live(h) \subseteq Token
         /\ h.last \in Nat /\ (h.last < MaxToken => h.last + 1 \in Token)
<1>1. h.last \in 0 .. MaxToken /\ DOMAIN h.ops \subseteq 1 .. h.last
      /\ DOMAIN h.res \subseteq 1 .. h.last
  BY DEF HubType
<1>. QED  BY <1>1, HubConstants DEF Live, Token

LEMMA LaunchType ==
  ASSUME TypeOK, NEW o \in Token, NEW r \in Option(Token), Launch(o, r)
  PROVE  IsMap(tasks') /\ DOMAIN tasks' \subseteq Token
         /\ \A p \in DOMAIN tasks' : tasks'[p] \in Task
<1>1. [stage |-> "run", revoke |-> r] \in Task
  BY DEF Task
<1>. QED  BY <1>1 DEF TypeOK, Launch, With, IsMap

LEMMA EndTaskType ==
  ASSUME TypeOK, NEW o, EndTask(o)
  PROVE  IsMap(tasks') /\ DOMAIN tasks' \subseteq Token
         /\ \A p \in DOMAIN tasks' : tasks'[p] \in Task
BY DEF TypeOK, EndTask, Without, IsMap

\* The tables a step of the hub may commit to.
Good(g) ==
  /\ HubType(g)
  /\ DistinctSlots(g)
  /\ g.closed => Live(g) = {} /\ Pending(g) = {}

LEMMA OnlyEndsGood ==
  ASSUME NEW h, Good(h), NEW g, HubType(g), DistinctSlots(g), OnlyEnds(h, g)
  PROVE  Good(g)
BY DEF Good, OnlyEnds, Live, Pending

LEMMA TerminateGood ==
  ASSUME NEW h, Good(h), NEW O, NEW t \in Terminals
  PROVE  Good(Terminate(h, O, t)) /\ OnlyEnds(h, Terminate(h, O, t))
<1>1. HubType(h) /\ DistinctSlots(h)
  BY DEF Good
<1>. QED  BY <1>1, TerminateType, TerminateSlots, TerminateOnlyEnds, OnlyEndsGood

LEMMA CloseResourceGood ==
  ASSUME NEW h, Good(h), NEW r, NEW t \in Terminals
  PROVE  Good(CloseResource(h, r, t)) /\ OnlyEnds(h, CloseResource(h, r, t))
<1>1. HubType(h) /\ DistinctSlots(h)
  BY DEF Good
<1>. QED  BY <1>1, CloseResourceType, CloseResourceSlots, CloseResourceOnlyEnds, OnlyEndsGood

LEMMA ReclaimGood ==
  ASSUME NEW h, Good(h), NEW R, R \subseteq Live(h)
  PROVE  Good(Reclaim(h, R)) /\ OnlyEnds(h, Reclaim(h, R))
<1>1. HubType(h) /\ DistinctSlots(h)
  BY DEF Good
<1>. QED  BY <1>1, ReclaimType, ReclaimSlots, ReclaimOnlyEnds, OnlyEndsGood

LEMMA RemoveOpGood ==
  ASSUME NEW h, Good(h), NEW o
  PROVE  Good(RemoveOp(h, o))
<1>. DEFINE g == RemoveOp(h, o)
<1>1. HubType(g)
  BY RemoveOpType DEF Good
<1>2. g.res = h.res /\ g.free = h.free /\ g.gens = h.gens /\ g.closed = h.closed
      /\ g.ops = Without(h.ops, {o})
  BY DEF RemoveOp, Good, HubType, IsHub
<1>. HIDE DEF g
<1>3. Live(g) = Live(h) /\ Pending(g) \subseteq Pending(h)
  BY <1>2 DEF Live, Pending, Without
<1>4. DistinctSlots(g)
  BY <1>2, <1>3 DEF Good, DistinctSlots
<1>5. Good(g)
  BY <1>1, <1>2, <1>3, <1>4 DEF Good
<1>. QED  BY <1>5 DEF g

LEMMA SubmitGood ==
  ASSUME NEW h, Good(h), ~h.closed, h.last < MaxToken, NEW store \in Stores,
         NEW r \in Option(Token)
  PROVE  Good(Submit(h, store, r))
<1>. DEFINE g == Submit(h, store, r)
<1>1. HubType(g)
  BY SubmitType DEF Good
<1>2. g.res = h.res /\ g.free = h.free /\ g.gens = h.gens /\ g.closed = h.closed
  BY DEF Submit, Good, HubType, IsHub
<1>. HIDE DEF g
<1>3. DistinctSlots(g)
  BY <1>2 DEF Good, DistinctSlots, Live
<1>4. Good(g)
  BY <1>1, <1>2, <1>3 DEF Good
<1>. QED  BY <1>4 DEF g

LEMMA CreateGood ==
  ASSUME NEW h, Good(h), NEW kind \in Kinds, CanCreate(h, kind),
         NEW store \in Stores, NEW rights \in SUBSET Rights,
         NEW shareable \in BOOLEAN
  PROVE  Good(Create(h, store, kind, rights, shareable))
<1>. DEFINE g == Create(h, store, kind, rights, shareable)
<1>1. HubType(g) /\ DistinctSlots(g)
  BY CreateType, CreateSlots DEF Good
<1>2. g.closed = h.closed
  BY DEF Create, Good, HubType, IsHub
<1>. HIDE DEF g
<1>3. Good(g)
  BY <1>1, <1>2 DEF Good, CanCreate
<1>. QED  BY <1>3 DEF g

LEMMA CloseLockedGood ==
  ASSUME NEW h, Good(h), NEW t \in Terminals
  PROVE  Good(CloseLocked(h, t))
<1>1. HubType(h)
  BY DEF Good
<1>2. HubType(CloseLocked(h, t)) /\ DistinctSlots(CloseLocked(h, t))
      /\ Live(CloseLocked(h, t)) = {} /\ Pending(CloseLocked(h, t)) = {}
  BY <1>1, CloseLockedType, CloseLockedSlots, CloseLockedEnds
<1>. QED  BY <1>2 DEF Good

\* A step that edits operations and leaves their terminals alone.
LEMMA EditOpsGood ==
  ASSUME NEW h, Good(h), NEW f, IsMap(f), DOMAIN f = DOMAIN h.ops,
         \A o \in DOMAIN f : f[o] \in OperationSlot /\ f[o].terminal = h.ops[o].terminal
  PROVE  Good([h EXCEPT !.ops = f])
<1>. DEFINE g == [h EXCEPT !.ops = f]
<1>1. DOMAIN f \subseteq 1 .. h.last /\ HubType(h)
  BY DEF Good, HubType
<1>2. HubType(g)
  BY <1>1, OpsType
<1>3. g.res = h.res /\ g.free = h.free /\ g.gens = h.gens /\ g.closed = h.closed
      /\ g.ops = f
  BY <1>1 DEF HubType, IsHub
<1>. HIDE DEF g
<1>4. Live(g) = Live(h) /\ Pending(g) = Pending(h)
  BY <1>3 DEF Live, Pending
<1>5. DistinctSlots(g)
  BY <1>3, <1>4 DEF Good, DistinctSlots
<1>6. Good(g)
  BY <1>2, <1>3, <1>4, <1>5 DEF Good
<1>. QED  BY <1>6 DEF g

LEMMA PermitGood ==
  ASSUME NEW h, Good(h), NEW o, NEW b \in BOOLEAN
  PROVE  Good([h EXCEPT !.ops[o].permit = b])
<1>. DEFINE f == [h.ops EXCEPT ![o].permit = b]
<1>1. \A p \in DOMAIN h.ops : h.ops[p] \in OperationSlot
  BY DEF Good, HubType
<1>2. \A p \in DOMAIN h.ops : f[p] \in OperationSlot /\ f[p].terminal = h.ops[p].terminal
  BY <1>1, ZenonT(40) DEF OperationSlot
<1>3. IsMap(f) /\ DOMAIN f = DOMAIN h.ops
  BY DEF IsMap
<1>4. Good([h EXCEPT !.ops = f])
  <2>. HIDE DEF f
  <2>. QED  BY <1>2, <1>3, EditOpsGood
<1>5. [h EXCEPT !.ops[o].permit = b] = [h EXCEPT !.ops = f]
  BY DEF Good, HubType, IsHub
<1>. QED  BY <1>4, <1>5

LEMMA CreatedGood ==
  ASSUME NEW h, Good(h), NEW o, NEW r \in Option(Token)
  PROVE  Good([h EXCEPT !.ops[o].created = r])
<1>. DEFINE f == [h.ops EXCEPT ![o].created = r]
<1>1. \A p \in DOMAIN h.ops : h.ops[p] \in OperationSlot
  BY DEF Good, HubType
<1>2. \A p \in DOMAIN h.ops : f[p] \in OperationSlot /\ f[p].terminal = h.ops[p].terminal
  BY <1>1 DEF OperationSlot, Option
<1>3. IsMap(f) /\ DOMAIN f = DOMAIN h.ops
  BY DEF IsMap
<1>4. Good([h EXCEPT !.ops = f])
  <2>. HIDE DEF f
  <2>. QED  BY <1>2, <1>3, EditOpsGood
<1>5. [h EXCEPT !.ops[o].created = r] = [h EXCEPT !.ops = f]
  BY DEF Good, HubType, IsHub
<1>. QED  BY <1>4, <1>5

LEMMA DeferredGood ==
  ASSUME NEW h, Good(h), NEW o, NEW r \in Option(Token)
  PROVE  Good([h EXCEPT !.ops[o].deferred = [revoke |-> r]])
<1>. DEFINE f == [h.ops EXCEPT ![o].deferred = [revoke |-> r]]
<1>1. \A p \in DOMAIN h.ops : h.ops[p] \in OperationSlot
  BY DEF Good, HubType
<1>2. \A p \in DOMAIN h.ops : f[p] \in OperationSlot /\ f[p].terminal = h.ops[p].terminal
  BY <1>1 DEF OperationSlot, Option
<1>3. IsMap(f) /\ DOMAIN f = DOMAIN h.ops
  BY DEF IsMap
<1>4. Good([h EXCEPT !.ops = f])
  <2>. HIDE DEF f
  <2>. QED  BY <1>2, <1>3, EditOpsGood
<1>5. [h EXCEPT !.ops[o].deferred = [revoke |-> r]] = [h EXCEPT !.ops = f]
  BY DEF Good, HubType, IsHub
<1>. QED  BY <1>4, <1>5

LEMMA SuspendedGood ==
  ASSUME NEW h, Good(h), NEW o
  PROVE  Good([h EXCEPT !.ops[o].suspended = TRUE, !.ops[o].deferred = None])
<1>. DEFINE f == [h.ops EXCEPT ![o].suspended = TRUE, ![o].deferred = None]
<1>1. \A p \in DOMAIN h.ops : h.ops[p] \in OperationSlot
  BY DEF Good, HubType
<1>2. \A p \in DOMAIN h.ops : f[p] \in OperationSlot /\ f[p].terminal = h.ops[p].terminal
  <2>. SUFFICES ASSUME NEW p \in DOMAIN h.ops
                PROVE  f[p] \in OperationSlot /\ f[p].terminal = h.ops[p].terminal
    BY Zenon
  <2>. DEFINE q == [h.ops[p] EXCEPT !.suspended = TRUE, !.deferred = None]
  <2>1. q \in OperationSlot /\ q.terminal = h.ops[p].terminal
    BY <1>1, ZenonT(40) DEF OperationSlot, Option
  <2>2. f[p] = IF p = o THEN q ELSE h.ops[p]
    BY Zenon
  <2>. HIDE DEF f, q
  <2>. QED  BY <1>1, <2>1, <2>2
<1>3. IsMap(f) /\ DOMAIN f = DOMAIN h.ops
  BY Zenon DEF IsMap
<1>4. Good([h EXCEPT !.ops = f])
  <2>. HIDE DEF f
  <2>. QED  BY <1>2, <1>3, EditOpsGood
<1>5. [h EXCEPT !.ops[o].suspended = TRUE, !.ops[o].deferred = None] = [h EXCEPT !.ops = f]
  BY Zenon DEF Good, HubType, IsHub
<1>. QED  BY <1>4, <1>5

(***************************************************************************)
(* Finishing an operation, with the revocation its Close asked for.        *)
(***************************************************************************)
LEMMA FinishGood ==
  ASSUME NEW h, Good(h), NEW o, NEW revoke
  PROVE  Good(Finish(h, o, revoke)) /\ OnlyEnds(h, Finish(h, o, revoke))
<1>. DEFINE c == CloseResource(h, revoke, "Closed")
<1>1. "Closed" \in Terminals /\ "Completed" \in Terminals
  BY DEF Terminals
<1>2. Good(c) /\ OnlyEnds(h, c)
  BY <1>1, CloseResourceGood
<1>. HIDE DEF c
<1>3. Good(Terminate(c, {o}, "Completed")) /\ OnlyEnds(c, Terminate(c, {o}, "Completed"))
  BY <1>1, <1>2, TerminateGood
<1>4. OnlyEnds(h, Terminate(c, {o}, "Completed"))
  BY <1>2, <1>3, OnlyEndsTransitive
<1>5. OnlyEnds(h, h)
  BY DEF OnlyEnds
<1>. QED  BY <1>3, <1>4, <1>5 DEF Finish, c

LEMMA CommitType ==
  ASSUME TypeOK, NEW g, Commit(g)
  PROVE  wakes' \subseteq Token
<1>1. DOMAIN hub.ops \subseteq Token
  BY TokensType DEF TypeOK
<1>. QED  BY <1>1 DEF TypeOK, Commit, Woken, Pending

(***************************************************************************)
(* The invariant and the pieces the actions work on.                       *)
(***************************************************************************)
PcSpace == [Stores -> [at: {"idle", "created", "undo", "attaching", "closing",
                            "finishing", "parked", "trapped"},
                       res: Option(Token), op: Option(Token)]]

TasksOK == IsMap(tasks) /\ DOMAIN tasks \subseteq Token
           /\ \A o \in DOMAIN tasks : tasks[o] \in Task

LEMMA InvParts ==
  HubInv <=> Good(hub) /\ pc \in PcSpace /\ TasksOK /\ wakes \subseteq Token
BY DEF HubInv, TypeOK, SlotsNeverShared, ClosedHubStaysDrained, Good, PcSpace, TasksOK

LEMMA InitInv == Init => HubInv
<1>. SUFFICES ASSUME Init PROVE Good(hub) /\ pc \in PcSpace /\ TasksOK /\ wakes \subseteq Token
  BY InvParts
<1>1. HubType(hub)
  BY InitialHubType DEF Init
<1>2. hub.res = [r \in {} |-> r] /\ hub.free = << >> /\ hub.closed = FALSE
  BY DEF Init, InitialHub
<1>3. DistinctSlots(hub)
  BY <1>2 DEF DistinctSlots, Live
<1>4. Good(hub)
  BY <1>1, <1>2, <1>3 DEF Good
<1>5. pc \in PcSpace
  BY DEF Init, PcSpace, Idle, At, Option
<1>6. TasksOK /\ wakes \subseteq Token
  BY DEF Init, TasksOK, IsMap
<1>. QED  BY <1>4, <1>5, <1>6

(***************************************************************************)
(* Every step preserves the invariant, one step of the proof per action.   *)
(***************************************************************************)
LEMMA StepInv == HubInv /\ [Next]_vars => HubInv'
<1>. SUFFICES ASSUME HubInv, [Next]_vars
              PROVE  Good(hub') /\ pc' \in PcSpace /\ TasksOK' /\ wakes' \subseteq Token
  BY DEF HubInv, TypeOK, SlotsNeverShared, ClosedHubStaysDrained, Good, PcSpace, TasksOK
<1>1. Good(hub) /\ pc \in PcSpace /\ TasksOK /\ wakes \subseteq Token /\ TypeOK
  BY InvParts DEF HubInv
<1>2. HubType(hub) /\ DOMAIN hub.ops \subseteq Token /\ Live(hub) \subseteq Token
      /\ (hub.last < MaxToken => hub.last + 1 \in Token) /\ None \in Option(Token)
      /\ Token \subseteq Option(Token)
  BY <1>1, TokensType DEF Good, Option
<1>3. \A s \in Stores : pc[s].res \in Option(Token) /\ pc[s].op \in Option(Token)
  BY <1>1, PcType
<1>4. "Closed" \in Terminals /\ "Cancelled" \in Terminals
  BY DEF Terminals
<1>5. ASSUME NEW s \in Stores, NEW shareable \in BOOLEAN, BeginCreate(s, shareable)
      PROVE  Good(hub') /\ pc' \in PcSpace /\ TasksOK' /\ wakes' \subseteq Token
  <2>1. "synthetic" \in Kinds /\ {"use"} \in SUBSET Rights /\ hub.last < MaxToken
    BY <1>5 DEF Kinds, Rights, BeginCreate, CanCreate
  <2>2. Good(hub')
    BY <1>1, <1>5, <2>1, CreateGood DEF BeginCreate
  <2>3. pc' \in PcSpace
    BY <1>1, <1>2, <1>5, <2>1, GotoType DEF BeginCreate, PcSpace
  <2>. QED  BY <1>1, <1>5, <2>2, <2>3 DEF BeginCreate, TasksOK
<1>6. ASSUME NEW s \in Stores, SubmitCreate(s)
      PROVE  Good(hub') /\ pc' \in PcSpace /\ TasksOK' /\ wakes' \subseteq Token
  <2>1. CASE CanSubmit(hub, s, None, "synthetic", {})
    <3>1. ~hub.closed /\ hub.last < MaxToken
      BY <2>1 DEF CanSubmit
    <3>2. Good(hub')
      BY <1>1, <1>2, <1>6, <2>1, <3>1, SubmitGood DEF SubmitCreate
    <3>3. pc' \in PcSpace
      BY <1>1, <1>2, <1>3, <1>6, <2>1, <3>1, GotoType DEF SubmitCreate, PcSpace
    <3>. QED  BY <1>1, <1>6, <3>2, <3>3 DEF SubmitCreate, TasksOK
  <2>2. CASE ~CanSubmit(hub, s, None, "synthetic", {})
    <3>1. pc' \in PcSpace
      BY <1>1, <1>2, <1>3, <1>6, <2>2, GotoType DEF SubmitCreate, PcSpace
    <3>. QED  BY <1>1, <1>6, <2>2, <3>1 DEF SubmitCreate, TasksOK
  <2>. QED  BY <2>1, <2>2
<1>7. ASSUME NEW s \in Stores, UndoCreate(s)
      PROVE  Good(hub') /\ pc' \in PcSpace /\ TasksOK' /\ wakes' \subseteq Token
  <2>1. Good(hub')
    BY <1>1, <1>4, <1>7, CloseResourceGood DEF UndoCreate, Commit
  <2>2. pc' \in PcSpace
    BY <1>1, <1>2, <1>7, GotoType DEF UndoCreate, PcSpace, Idle
  <2>3. wakes' \subseteq Token
    BY <1>1, <1>7, CommitType DEF UndoCreate
  <2>. QED  BY <1>1, <1>7, <2>1, <2>2, <2>3 DEF UndoCreate, TasksOK
<1>8. ASSUME NEW s \in Stores, AttachCreated(s)
      PROVE  Good(hub') /\ pc' \in PcSpace /\ TasksOK' /\ wakes' \subseteq Token
  <2>. DEFINE r == pc[s].res
              o == pc[s].op
  <2>1. pc' \in PcSpace
    BY <1>1, <1>2, <1>8, GotoType DEF AttachCreated, PcSpace, Idle
  <2>2. CASE o \in Pending(hub)
    <3>1. Good(hub')
      <4>1. hub' = [hub EXCEPT !.ops[o].created = r]
        BY <1>8, <2>2 DEF AttachCreated
      <4>2. r \in Option(Token)
        BY <1>3
      <4>. HIDE DEF r, o
      <4>. QED  BY <1>1, <4>1, <4>2, CreatedGood, Zenon
    <3>2. o \in Token
      BY <1>2, <2>2 DEF Pending
    <3>3. TasksOK'
      BY <1>1, <1>2, <1>8, <2>2, <3>2, LaunchType DEF AttachCreated, TasksOK
    <3>. QED  BY <1>1, <1>8, <2>1, <2>2, <3>1, <3>3 DEF AttachCreated
  <2>3. CASE o \notin Pending(hub)
    <3>1. Good(Reclaim(hub, {r} \cap Live(hub)))
      BY <1>1, ReclaimGood
    <3>2. Good(hub')
      BY <1>8, <2>3, <3>1, RemoveOpGood DEF AttachCreated, Consume
    <3>. QED  BY <1>1, <1>8, <2>1, <2>3, <3>2 DEF AttachCreated, Consume, TasksOK
  <2>. QED  BY <2>2, <2>3
<1>9. ASSUME NEW s \in Stores, NEW r \in Published(hub) \cup {None}, SubmitUse(s, r)
      PROVE  Good(hub') /\ pc' \in PcSpace /\ TasksOK' /\ wakes' \subseteq Token
  <2>1. ~hub.closed /\ hub.last < MaxToken
    BY <1>9 DEF SubmitUse, CanSubmit
  <2>2. r \in Option(Token)
    BY <1>2 DEF Published, Option
  <2>3. Good(hub')
    BY <1>1, <1>9, <2>1, <2>2, SubmitGood DEF SubmitUse
  <2>4. TasksOK'
    BY <1>1, <1>2, <1>9, <2>1, LaunchType DEF SubmitUse, TasksOK
  <2>. QED  BY <1>1, <1>9, <2>3, <2>4 DEF SubmitUse
<1>10. ASSUME NEW s \in Stores, NEW r \in Published(hub), ValidateClose(s, r)
       PROVE  Good(hub') /\ pc' \in PcSpace /\ TasksOK' /\ wakes' \subseteq Token
  <2>1. r \in Option(Token)
    BY <1>2 DEF Published, Option
  <2>2. pc' \in PcSpace
    BY <1>1, <1>2, <1>10, <2>1, GotoType DEF ValidateClose, PcSpace
  <2>. QED  BY <1>1, <1>10, <2>2 DEF ValidateClose, TasksOK
<1>11. ASSUME NEW s \in Stores, SubmitClose(s)
       PROVE  Good(hub') /\ pc' \in PcSpace /\ TasksOK' /\ wakes' \subseteq Token
  <2>1. pc' \in PcSpace
    BY <1>1, <1>2, <1>11, GotoType DEF SubmitClose, PcSpace, Idle
  <2>2. CASE CanSubmit(hub, s, None, "synthetic", {})
    <3>1. ~hub.closed /\ hub.last < MaxToken
      BY <2>2 DEF CanSubmit
    <3>2. Good(hub')
      BY <1>1, <1>2, <1>11, <2>2, <3>1, SubmitGood DEF SubmitClose
    <3>3. TasksOK'
      BY <1>1, <1>2, <1>3, <1>11, <2>2, <3>1, LaunchType DEF SubmitClose, TasksOK
    <3>. QED  BY <1>1, <1>11, <2>1, <3>2, <3>3 DEF SubmitClose
  <2>3. CASE ~CanSubmit(hub, s, None, "synthetic", {})
    BY <1>1, <1>11, <2>1, <2>3 DEF SubmitClose, TasksOK
  <2>. QED  BY <2>2, <2>3
<1>12. ASSUME NEW s \in Stores, NEW o \in DOMAIN hub.ops, Poll(s, o)
       PROVE  Good(hub') /\ pc' \in PcSpace /\ TasksOK' /\ wakes' \subseteq Token
  <2>1. Good(hub')
    BY <1>1, <1>12, RemoveOpGood DEF Poll, Consume
  <2>. QED  BY <1>1, <1>12, <2>1 DEF Poll, Consume, TasksOK
<1>13. ASSUME NEW s \in Stores, NEW o \in DOMAIN hub.ops, Suspend(s, o)
       PROVE  Good(hub') /\ pc' \in PcSpace /\ TasksOK' /\ wakes' \subseteq Token
  <2>1. o \in Option(Token)
    BY <1>2
  <2>2. CASE hub.ops[o].terminal # None
    <3>1. Good(hub')
      <4>1. hub' = [hub EXCEPT !.ops[o].permit = TRUE] /\ TRUE \in BOOLEAN
        BY <1>13, <2>2 DEF Suspend
      <4>. QED  BY <1>1, <4>1, PermitGood, Zenon
    <3>2. pc' \in PcSpace
      BY <1>1, <1>2, <1>13, <2>1, <2>2, GotoType DEF Suspend, PcSpace
    <3>. QED  BY <1>1, <1>13, <3>1, <3>2 DEF Suspend, TasksOK
  <2>3. CASE hub.ops[o].terminal = None
    <3>1. Good(hub')
      <4>1. hub' = [hub EXCEPT !.ops[o].suspended = TRUE, !.ops[o].deferred = None]
        BY <1>13, <2>3 DEF Suspend
      <4>. QED  BY <1>1, <4>1, SuspendedGood, Zenon
    <3>2. CASE hub.ops[o].deferred = None
      <4>1. pc' \in PcSpace
        BY <1>1, <1>2, <1>13, <2>1, <2>3, <3>2, GotoType DEF Suspend, PcSpace
      <4>. QED  BY <1>1, <1>13, <3>1, <4>1 DEF Suspend, TasksOK
    <3>3. CASE hub.ops[o].deferred # None
      <4>1. hub.ops[o].deferred.revoke \in Option(Token)
        BY <1>2, <3>3 DEF HubType, OperationSlot, Option
      <4>2. pc' \in PcSpace
        BY <1>1, <1>2, <1>13, <2>1, <2>3, <3>3, <4>1, GotoType DEF Suspend, PcSpace
      <4>. QED  BY <1>1, <1>13, <3>1, <4>2 DEF Suspend, TasksOK
    <3>. QED  BY <3>2, <3>3
  <2>. QED  BY <2>2, <2>3
<1>14. ASSUME NEW s \in Stores, NEW o \in DOMAIN hub.ops, Cancel(s, o)
       PROVE  Good(hub') /\ pc' \in PcSpace /\ TasksOK' /\ wakes' \subseteq Token
  <2>1. Good(hub')
    BY <1>1, <1>4, <1>14, TerminateGood DEF Cancel, Commit
  <2>2. wakes' \subseteq Token
    BY <1>1, <1>14, CommitType DEF Cancel
  <2>. QED  BY <1>1, <1>14, <2>1, <2>2 DEF Cancel, TasksOK
<1>15. ASSUME NEW s \in Stores, FinishTaken(s)
       PROVE  Good(hub') /\ pc' \in PcSpace /\ TasksOK' /\ wakes' \subseteq Token
  <2>. DEFINE o == pc[s].op
  <2>1. CASE FinishFails(hub, o, pc[s].res)
    <3>1. pc' \in PcSpace
      BY <1>1, <1>2, <1>15, <2>1, GotoType DEF FinishTaken, PcSpace
    <3>. QED  BY <1>1, <1>15, <2>1, <3>1 DEF FinishTaken, TasksOK
  <2>2. CASE ~FinishFails(hub, o, pc[s].res)
    <3>1. Good(hub')
      BY <1>1, <1>15, <2>2, FinishGood DEF FinishTaken, Commit
    <3>2. pc' \in PcSpace
      BY <1>1, <1>2, <1>3, <1>15, <2>2, GotoType DEF FinishTaken, PcSpace
    <3>3. wakes' \subseteq Token
      BY <1>1, <1>15, <2>2, CommitType DEF FinishTaken
    <3>. QED  BY <1>1, <1>15, <2>2, <3>1, <3>2, <3>3 DEF FinishTaken, TasksOK
  <2>. QED  BY <2>1, <2>2
<1>16. ASSUME NEW s \in Stores, Resume(s)
       PROVE  Good(hub') /\ pc' \in PcSpace /\ TasksOK' /\ wakes' \subseteq Token
  <2>1. Good(hub')
    BY <1>1, <1>16, PermitGood, Zenon DEF Resume
  <2>2. pc' \in PcSpace
    BY <1>1, <1>2, <1>16, GotoType DEF Resume, PcSpace, Idle
  <2>. QED  BY <1>1, <1>16, <2>1, <2>2 DEF Resume, TasksOK
<1>17. ASSUME NEW o \in DOMAIN tasks, TaskArrives(o)
       PROVE  Good(hub') /\ pc' \in PcSpace /\ TasksOK' /\ wakes' \subseteq Token
  <2>1. tasks[o] \in Task
    BY <1>1 DEF TasksOK
  <2>2. CASE o \in Pending(hub) /\ hub.ops[o].suspended
    <3>1. tasks' = [tasks EXCEPT ![o].stage = "finish"] /\ UNCHANGED <<hub, pc, wakes>>
      BY <1>17, <2>2 DEF TaskArrives
    <3>2. TasksOK'
      BY <1>1, <2>1, <3>1, Zenon DEF TasksOK, Task, IsMap
    <3>. QED  BY <1>1, <3>1, <3>2
  <2>3. CASE ~(o \in Pending(hub) /\ hub.ops[o].suspended)
    <3>. DEFINE v == tasks[o].revoke
    <3>1. EndTask(o) /\ UNCHANGED <<pc, wakes>>
      BY <1>17, <2>3 DEF TaskArrives
    <3>2. \/ hub' = hub
          \/ hub' = [hub EXCEPT !.ops[o].deferred = [revoke |-> v]]
      BY <1>17, <2>3 DEF TaskArrives
    <3>3. v \in Option(Token)
      BY <2>1 DEF Task
    <3>. HIDE DEF v
    <3>4. Good(hub')
      BY <1>1, <3>2, <3>3, DeferredGood
    <3>5. TasksOK'
      BY <1>1, <3>1, EndTaskType DEF TasksOK
    <3>. QED  BY <1>1, <3>1, <3>4, <3>5
  <2>. QED  BY <2>2, <2>3
<1>18. ASSUME NEW o \in DOMAIN tasks, TaskFinishes(o)
       PROVE  Good(hub') /\ pc' \in PcSpace /\ TasksOK' /\ wakes' \subseteq Token
  <2>1. TasksOK' /\ pc' = pc
    BY <1>1, <1>18, EndTaskType DEF TasksOK, TaskFinishes
  <2>2. CASE FinishFails(hub, o, tasks[o].revoke)
    BY <1>1, <1>18, <2>1, <2>2 DEF TaskFinishes
  <2>3. CASE ~FinishFails(hub, o, tasks[o].revoke)
    <3>1. Commit(Finish(hub, o, tasks[o].revoke))
      BY <1>18, <2>3 DEF TaskFinishes
    <3>2. Good(hub')
      BY <1>1, <3>1, FinishGood DEF Commit
    <3>3. wakes' \subseteq Token
      BY <1>1, <3>1, CommitType
    <3>. QED  BY <1>1, <2>1, <3>2, <3>3
  <2>. QED  BY <2>2, <2>3
<1>19. ASSUME NEW o \in wakes, Notify(o)
       PROVE  Good(hub') /\ pc' \in PcSpace /\ TasksOK' /\ wakes' \subseteq Token
  <2>1. hub' = [hub EXCEPT !.ops[o].permit = TRUE] /\ TRUE \in BOOLEAN
    BY <1>19 DEF Notify
  <2>2. Good(hub')
    BY <1>1, <2>1, PermitGood, Zenon
  <2>. QED  BY <1>1, <1>19, <2>2 DEF Notify, TasksOK
<1>20. ASSUME NEW t \in CloseReasons, CloseAll(t)
       PROVE  Good(hub') /\ pc' \in PcSpace /\ TasksOK' /\ wakes' \subseteq Token
  <2>1. t \in Terminals
    BY CloseReasonsAreTerminals
  <2>2. Good(hub')
    BY <1>1, <1>20, <2>1, CloseLockedGood DEF CloseAll, Commit
  <2>3. wakes' \subseteq Token
    BY <1>1, <1>20, CommitType DEF CloseAll
  <2>. QED  BY <1>1, <1>20, <2>2, <2>3 DEF CloseAll, TasksOK
<1>21. CASE UNCHANGED vars
  BY <1>1, <1>21 DEF vars, TasksOK
<1>22. CASE Next
  BY <1>22, <1>5, <1>6, <1>7, <1>8, <1>9, <1>10, <1>11, <1>12, <1>13, <1>14, <1>15,
     <1>16, <1>17, <1>18, <1>19, <1>20 DEF Next
<1>. QED  BY <1>21, <1>22

(***************************************************************************)
(* The state stays well typed, whatever the Stores, the tasks and the      *)
(* teardown do.                                                            *)
(***************************************************************************)
THEOREM TypeCorrect == Spec => []TypeOK
<1>1. HubInv => TypeOK
  BY DEF HubInv
<1>. QED  BY <1>1, InitInv, StepInv, PTL DEF Spec

(***************************************************************************)
(* The slot allocator of create_resource_value_locked, terminal_locked,    *)
(* attach_created_resource and close_resource_with_terminal_locked never   *)
(* hands one slot to two resources.                                        *)
(***************************************************************************)
THEOREM SlotsAreNeverShared == Spec => []SlotsNeverShared
<1>1. HubInv => SlotsNeverShared
  BY DEF HubInv
<1>. QED  BY <1>1, InitInv, StepInv, PTL DEF Spec

(***************************************************************************)
(* After close_locked nothing is live and nothing is pending, for good.    *)
(***************************************************************************)
THEOREM ClosedStaysDrained == Spec => []ClosedHubStaysDrained
<1>1. HubInv => ClosedHubStaysDrained
  BY DEF HubInv
<1>. QED  BY <1>1, InitInv, StepInv, PTL DEF Spec
=============================================================================
