---------------------------- MODULE ThreadedRoot ----------------------------
(***************************************************************************)
(* Execution of threaded roots (src/src/wasm/mod.rs): the engine-wide      *)
(* EpochBroker with its ticker tasks, the ThreadController of a prepared   *)
(* session with its child threads and fuel, the compiler's ExecutionLedger *)
(* and the finalisation of a root.                                         *)
(*                                                                         *)
(* A caller awaits at most one execution at a time; the execution itself   *)
(* runs on the blocking lane and goes on when the caller's future is       *)
(* dropped.  One action is one critical section of the mutex it takes      *)
(* (broker, session, workers, ledger); an attempt that fails without       *)
(* changing anything is not a step.  The guest is free: it computes, parks *)
(* on an operation, spawns children, returns or traps.  The rejection      *)
(* counters, the fuel telemetry and the validation report are left out;    *)
(* the joins of output, process and clock jobs belong to the hub's modules.*)
(* A guest blocked in atomic.wait needs the worker boundary and is no      *)
(* behaviour of this module.                                               *)
(***************************************************************************)
EXTENDS Integers, FiniteSets

CONSTANTS Callers,      \* who may await an execution
          Kids,         \* native child threads, each reused once it is joined
          Sketches,     \* admitted sketches of one compiler
          SketchOf,     \* the sketch each caller executes
          RuntimeOf,    \* the async runtime each caller supplies
          None,
          MaxRegs,      \* SketchEpochLimits::maximum_active_registrations
          MaxRoots,     \* maximum_active_root_executions
          MaxMemories,  \* shared-memory reservations that fit the ledger
          MaxThreads,   \* SketchModulePolicy::max_guest_threads
          Slices,       \* SketchFuelLimits::child_slice_capacity
          MaxGuestThreads,  \* MAX_GUEST_THREADS_V1, the cap of a refund
          MaxRuns,      \* bound: executions started
          Reasons,      \* what may end an execution early
          MayAbandon    \* whether callers may drop the future they await

ASSUME ThreadedRootConstants ==
  /\ SketchOf \in [Callers -> Sketches]
  /\ {MaxRegs, MaxRoots, MaxMemories, MaxThreads, Slices, MaxGuestThreads, MaxRuns} \subseteq Nat
  /\ Slices <= MaxGuestThreads
  /\ MayAbandon \in BOOLEAN
  /\ Reasons \subseteq {"cancelled", "deadline"}
  /\ None \notin Callers \cup Kids \cup Sketches
  /\ Callers \cap Kids = {}

VARIABLES broker,   \* EpochBrokerState
          tickers,  \* the ticker tasks: their generation and what they still wake
          epoch,    \* LogicalEpoch of the execution each caller awaits
          session,  \* the ThreadController cached for each sketch
          ledger,   \* ExecutionLedgerState
          at,       \* where each root and each child is
          run,      \* what an execution holds
          kid,      \* the child each Store is spawning; the root a child belongs to
          due,      \* Stores that the next epoch check interrupts
          runs      \* executions started so far

vars == <<broker, tickers, epoch, session, ledger, at, run, kid, due, runs>>

Stores == Callers \cup Kids

Winners == {"pending", "completed", "cancelled", "deadline"}

RootOf(a) == IF a \in Callers THEN a ELSE kid[a].root

Sketch(a) == SketchOf[RootOf(a)]

NoSession == [id |-> 0, active |-> 0, generation |-> 0, fuel |-> -1,
              accepted |-> 0, live |-> 0, closing |-> FALSE, handles |-> {}, outcomes |-> {}]

\* What an execution before the first one of the model left cached.
CachedSession == [NoSession EXCEPT !.id = MaxRuns + 1, !.generation = 1]

NoRun == [number |-> 0, session |-> 0, generation |-> 0, batch |-> {}, ticker |-> 0]

NoKid == [spawning |-> None, root |-> None]

\* A Store between its first guest instruction and its return.
Spawning == {"fuel", "tid", "native", "push", "undo", "unlive", "refund"}

Running == {"guest", "parked"} \cup Spawning

\* Stages of the job on the blocking lane.
Job == {"registered", "reserved", "granted", "bound", "returned", "join", "joining",
        "drain", "drained", "leaving", "left"} \cup Running

TypeOK ==
  /\ broker \in [regs: SUBSET Stores, generation: 0..2 * MaxRuns, ticker: 0..2 * MaxRuns,
                 runtime: {RuntimeOf[c] : c \in Callers} \cup {None}]
  /\ DOMAIN tickers \subseteq 1..2 * MaxRuns
  /\ \A g \in DOMAIN tickers : tickers[g] \in [stage: {"sleep", "wake"}, todo: SUBSET Callers]
  /\ epoch \in [Callers -> [winner: Winners, asked: SUBSET {"cancelled", "deadline"},
                            hub: {"none", "open", "closed"}]]
  /\ session \in [Sketches -> [id: 0..MaxRuns + 1, active: 0..1, generation: 0..MaxRuns + 1,
                               fuel: -1..MaxGuestThreads, accepted: 0..Cardinality(Kids),
                               live: 0..Cardinality(Kids), closing: BOOLEAN,
                               handles: SUBSET Kids, outcomes: SUBSET Kids]]
  /\ ledger \in [roots: 0..MaxRoots, memories: 0..MaxMemories]
  /\ at \in [Stores -> Job \cup {"idle", "finish", "await", "outcome", "ending", "exited"}]
  /\ run \in [Callers -> [number: 0..MaxRuns, session: 0..MaxRuns + 1, generation: 0..MaxRuns + 1,
                          batch: SUBSET Kids, ticker: 0..2 * MaxRuns]]
  /\ kid \in [Stores -> [spawning: Kids \cup {None}, root: Callers \cup {None}]]
  /\ due \subseteq Stores
  /\ runs \in 0..MaxRuns

Init ==
  /\ broker = [regs |-> {}, generation |-> 0, ticker |-> 0, runtime |-> None]
  /\ tickers = [g \in {} |-> g]
  /\ epoch = [c \in Callers |-> [winner |-> "completed", asked |-> {}, hub |-> "none"]]
  /\ \E cached \in {{}} \cup {{s} : s \in Sketches} :
       /\ session = [s \in Sketches |-> IF s \in cached THEN CachedSession ELSE NoSession]
       /\ ledger = [roots |-> 0, memories |-> Cardinality(cached)]
  /\ at = [a \in Stores |-> "idle"]
  /\ run = [c \in Callers |-> NoRun]
  /\ kid = [a \in Stores |-> NoKid]
  /\ due = {}
  /\ runs = 0

Goto(a, where) == at' = [at EXCEPT ![a] = where]

-----------------------------------------------------------------------------
(* EpochBroker: registrations, and the ticker of their generation.         *)

CanRegister(rt) ==
  /\ Cardinality(broker.regs) < MaxRegs
  /\ broker.runtime \in {None, rt}

\* register_entry: the first registration starts a ticker of a new generation.
Enrolled(x, rt) ==
  LET b == [broker EXCEPT !.regs = @ \cup {x}, !.runtime = rt]
  IN IF broker.ticker # 0 THEN b
     ELSE [b EXCEPT !.generation = @ + 1, !.ticker = broker.generation + 1]

Enrol(x, rt) ==
  /\ broker' = Enrolled(x, rt)
  /\ tickers' = [g \in DOMAIN tickers \cup {broker'.ticker} |->
                   IF g \in DOMAIN tickers THEN [tickers[g] EXCEPT !.todo = @ \ {x}]
                   ELSE [stage |-> "sleep", todo |-> {}]]

\* finish_registration: the last one out makes the ticker's generation stale.
Withdrawn(x) ==
  LET left == broker.regs \ {x}
  IN IF left # {} THEN [broker EXCEPT !.regs = left]
     ELSE [broker EXCEPT !.regs = {}, !.generation = @ + 1, !.ticker = 0]

Completed(c) == IF epoch[c].winner = "pending" THEN "completed" ELSE epoch[c].winner

\* tick: what this tick publishes for one execution; cancellation is looked at first.
Published(e) ==
  IF e.winner # "pending" THEN e.winner
  ELSE IF "cancelled" \in e.asked THEN "cancelled"
  ELSE IF "deadline" \in e.asked THEN "deadline"
  ELSE "pending"

\* Mutant: a tick wakes only the executions it decides itself.
TickWakesOnce(g) ==
  LET logicals == {RootOf(x) : x \in broker.regs}
      decided  == {c \in logicals : epoch[c].winner # Published(epoch[c])}
  IN /\ tickers[g].stage = "sleep"
     /\ IF broker.generation # g \/ logicals = {}
        THEN /\ tickers' = [h \in DOMAIN tickers \ {g} |-> tickers[h]]
             /\ UNCHANGED epoch
        ELSE /\ tickers' = [tickers EXCEPT ![g] = [stage |-> "wake", todo |-> decided]]
             /\ epoch' = [c \in Callers |-> IF c \in logicals
                                            THEN [epoch[c] EXCEPT !.winner = Published(epoch[c])]
                                            ELSE epoch[c]]
     /\ UNCHANGED <<broker, session, ledger, at, run, kid, due, runs>>

Tick(g) ==
  LET logicals == {RootOf(x) : x \in broker.regs}
  IN /\ tickers[g].stage = "sleep"
     /\ IF broker.generation # g \/ logicals = {}
        THEN /\ tickers' = [h \in DOMAIN tickers \ {g} |-> tickers[h]]
             /\ UNCHANGED epoch
        ELSE /\ tickers' = [tickers EXCEPT ![g] = [stage |-> "wake", todo |-> logicals]]
             /\ epoch' = [c \in Callers |-> IF c \in logicals
                                            THEN [epoch[c] EXCEPT !.winner = Published(epoch[c])]
                                            ELSE epoch[c]]
     /\ UNCHANGED <<broker, session, ledger, at, run, kid, due, runs>>

Interrupted(c) == epoch[c].winner \in {"cancelled", "deadline"}

\* wake_interrupted_operations: try_close_all may find the hub's mutex taken.
TickWake(g, c, locked) ==
  /\ tickers[g].stage = "wake" /\ c \in tickers[g].todo
  /\ tickers' = [tickers EXCEPT ![g].todo = @ \ {c}]
  /\ epoch' = IF locked /\ Interrupted(c) /\ epoch[c].hub = "open"
              THEN [epoch EXCEPT ![c].hub = "closed"] ELSE epoch
  /\ UNCHANGED <<broker, session, ledger, at, run, kid, due, runs>>

\* increment_epoch: from here every Store of a decided execution is interrupted
\* at its next epoch check (install_epoch_deadline).
TickEnds(g) ==
  /\ tickers[g].stage = "wake" /\ tickers[g].todo = {}
  /\ tickers' = [tickers EXCEPT ![g].stage = "sleep"]
  /\ due' = due \cup {a \in Stores : at[a] \in Running /\ epoch[RootOf(a)].winner # "pending"}
  /\ UNCHANGED <<broker, epoch, session, ledger, at, run, kid, runs>>

-----------------------------------------------------------------------------
(* execute_threaded_root_with_grant: the caller's side.                    *)

Register(c) ==
  /\ at[c] = "idle" /\ runs < MaxRuns
  /\ CanRegister(RuntimeOf[c])
  /\ Enrol(c, RuntimeOf[c])
  /\ epoch' = [epoch EXCEPT ![c] = [winner |-> "pending", asked |-> {}, hub |-> "none"]]
  /\ runs' = runs + 1
  /\ run' = [run EXCEPT ![c] = [NoRun EXCEPT !.number = runs + 1]]
  /\ Goto(c, "registered")
  /\ UNCHANGED <<session, ledger, kid, due>>

\* The caller's token is cancelled, or the wall-clock deadline passes.
Ask(c, why) ==
  /\ c \in broker.regs
  /\ epoch' = [epoch EXCEPT ![c].asked = @ \cup {why}]
  /\ UNCHANGED <<broker, tickers, session, ledger, at, run, kid, due, runs>>

\* The blocking task returned: remove the registration, then join the ticker
\* that became idle with it.
Finish(c) ==
  /\ at[c] = "finish"
  /\ broker' = Withdrawn(c)
  /\ epoch' = [epoch EXCEPT ![c].winner = Completed(c)]
  /\ IF broker'.regs = {} THEN Goto(c, "await") /\ run' = [run EXCEPT ![c].ticker = broker.ticker]
     ELSE Goto(c, "idle") /\ UNCHANGED run
  /\ UNCHANGED <<tickers, session, ledger, kid, due, runs>>

Await(c) ==
  /\ at[c] = "await"
  /\ run[c].ticker \notin DOMAIN tickers
  /\ Goto(c, "idle")
  /\ run' = [run EXCEPT ![c] = NoRun]
  /\ UNCHANGED <<broker, tickers, epoch, session, ledger, kid, due, runs>>

\* The caller drops the future: EpochRegistration::drop runs, a job that has
\* not started is cancelled, one that has started runs on.
Abandon(c, started) ==
  /\ MayAbandon
  /\ c \in broker.regs /\ at[c] \in Job
  /\ at[c] # "registered" => started
  /\ broker' = Withdrawn(c)
  /\ epoch' = [epoch EXCEPT ![c].winner = Completed(c)]
  /\ at' = IF started THEN at ELSE [at EXCEPT ![c] = "idle"]
  /\ UNCHANGED <<tickers, session, ledger, run, kid, due, runs>>

Abandoned(c) == at[c] \in Job /\ c \notin broker.regs

-----------------------------------------------------------------------------
(* prepare_threaded_root_with_permit, which holds the sketch's slot lock.  *)

Unlocked(s) == \A c \in Callers : SketchOf[c] = s => at[c] # "reserved"

\* The ledger's two admissions; what they refuse stays as it was.
RootFits(l) == l.roots < MaxRoots
acquire_root(l) == [l EXCEPT !.roots = @ + 1]
MemoryFits(l) == l.memories < MaxMemories
reserve_shared_memory(l) == [l EXCEPT !.memories = @ + 1]

\* ThreadController::acquire_root.
Acquired(c, t) == [t EXCEPT !.active = 1, !.generation = @ + 1, !.fuel = Slices]

Holders(id) == {c \in Callers : run[c].session = id}

\* Where an execution goes once its job is over.
Returns(c) == Goto(c, IF c \in broker.regs THEN "finish" ELSE "idle")

PrepareCached(c) ==
  LET s == SketchOf[c]
  IN /\ at[c] = "registered" /\ Unlocked(s)
     /\ session[s].id # 0
     /\ IF session[s].active = 0 /\ RootFits(ledger)
        THEN /\ session' = [session EXCEPT ![s] = Acquired(c, @)]
             /\ ledger' = acquire_root(ledger)
             /\ run' = [run EXCEPT ![c].session = session[s].id, ![c].generation = session[s].generation + 1]
             /\ Goto(c, "granted")
        ELSE Returns(c) /\ UNCHANGED <<session, ledger, run>>
     /\ UNCHANGED <<broker, tickers, epoch, kid, due, runs>>

PrepareReserve(c) ==
  LET s == SketchOf[c]
  IN /\ at[c] = "registered" /\ Unlocked(s)
     /\ session[s].id = 0
     /\ IF MemoryFits(ledger)
        THEN Goto(c, "reserved") /\ ledger' = reserve_shared_memory(ledger)
        ELSE Returns(c) /\ UNCHANGED ledger
     /\ UNCHANGED <<broker, tickers, epoch, session, run, kid, due, runs>>

\* The new session is cached only with its root permit.
PrepareAcquire(c) ==
  LET s == SketchOf[c]
  IN /\ at[c] = "reserved"
     /\ IF RootFits(ledger)
        THEN /\ session' = [session EXCEPT ![s] = Acquired(c, [NoSession EXCEPT !.id = run[c].number])]
             /\ ledger' = acquire_root(ledger)
             /\ run' = [run EXCEPT ![c].session = run[c].number, ![c].generation = 1]
             /\ Goto(c, "granted")
        ELSE /\ ledger' = [ledger EXCEPT !.memories = @ - 1]
             /\ Returns(c)
             /\ UNCHANGED <<session, run>>
     /\ UNCHANGED <<broker, tickers, epoch, kid, due, runs>>

\* close_threaded_root.
CloseSession(s) ==
  /\ Unlocked(s)
  /\ session[s].id # 0 /\ session[s].active = 0
  /\ session' = [session EXCEPT ![s] = NoSession]
  /\ ledger' = IF Holders(session[s].id) = {} THEN [ledger EXCEPT !.memories = @ - 1] ELSE ledger
  /\ UNCHANGED <<broker, tickers, epoch, at, run, kid, due, runs>>

-----------------------------------------------------------------------------
(* execute_threaded_root_async, on the blocking lane.                      *)

\* A grant is refused: nothing has run, the permit is dropped on the way out.
GrantFails(c) ==
  /\ at[c] = "granted"
  /\ Goto(c, "drained")
  /\ UNCHANGED <<broker, tickers, epoch, session, ledger, run, kid, due, runs>>

\* bind_operations stores the hub; the interruption it may have missed is
\* looked at afterwards.
Bind(c) ==
  /\ at[c] = "granted"
  /\ epoch' = [epoch EXCEPT ![c].hub = "open"]
  /\ Goto(c, "bound")
  /\ UNCHANGED <<broker, tickers, session, ledger, run, kid, due, runs>>

Start(c, locked) ==
  /\ at[c] = "bound"
  /\ Goto(c, IF Interrupted(c) THEN "returned" ELSE "guest")
  /\ epoch' = IF locked /\ Interrupted(c) THEN [epoch EXCEPT ![c].hub = "closed"] ELSE epoch
  /\ UNCHANGED <<broker, tickers, session, ledger, run, kid, due, runs>>

\* The guest parks on an operation; the operation, or the end of its hub,
\* resumes it.
Park(a) ==
  /\ at[a] = "guest" /\ epoch[RootOf(a)].hub = "open"
  /\ Goto(a, "parked")
  /\ UNCHANGED <<broker, tickers, epoch, session, ledger, run, kid, due, runs>>

Resume(a) ==
  /\ at[a] = "parked"
  /\ Goto(a, "guest")
  /\ UNCHANGED <<broker, tickers, epoch, session, ledger, run, kid, due, runs>>

\* The guest returns, exits, traps, runs out of fuel or is interrupted.
Return(a) ==
  /\ at[a] = "guest"
  /\ Goto(a, IF a \in Callers THEN "returned" ELSE "outcome")
  /\ due' = due \ {a}
  /\ UNCHANGED <<broker, tickers, epoch, session, ledger, run, kid, runs>>

CloseHub(c) ==
  /\ at[c] = "returned"
  /\ epoch' = [epoch EXCEPT ![c].hub = "closed"]
  /\ Goto(c, "join")
  /\ UNCHANGED <<broker, tickers, session, ledger, run, kid, due, runs>>

-----------------------------------------------------------------------------
(* thread-spawn, called by Store a for child k.                            *)

\* register_child, after a first look at the winner.
SpawnRegister(a, k) ==
  LET c == RootOf(a)
  IN /\ at[a] = "guest" /\ at[k] = "idle" /\ kid[k].root = None
     /\ epoch[c].winner = "pending"
     /\ CanRegister(RuntimeOf[c])
     /\ Enrol(k, RuntimeOf[c])
     /\ kid' = [kid EXCEPT ![a].spawning = k, ![k].root = c]
     /\ Goto(a, "fuel")
     /\ UNCHANGED <<epoch, session, ledger, run, due, runs>>

SpawnFuel(a) ==
  LET s == Sketch(a)
  IN /\ at[a] = "fuel"
     /\ IF session[s].fuel > 0 /\ session[s].generation = run[RootOf(a)].generation
        THEN session' = [session EXCEPT ![s].fuel = @ - 1] /\ Goto(a, "tid")
        ELSE UNCHANGED session /\ Goto(a, "undo")
     /\ UNCHANGED <<broker, tickers, epoch, ledger, run, kid, due, runs>>

\* refund_child_fuel.
Refunded(t) ==
  IF t.fuel < 0 THEN t
  ELSE [t EXCEPT !.fuel = IF t.fuel < MaxGuestThreads THEN t.fuel + 1 ELSE MaxGuestThreads]

\* Mutant: only the children that are live count against the maximum.
HasRoomForLive(t) == ~t.closing /\ t.live < MaxThreads

HasRoom(t) == ~t.closing /\ t.live < MaxThreads /\ t.accepted < MaxThreads

SpawnTid(a) ==
  LET s == Sketch(a)
  IN /\ at[a] = "tid"
     /\ IF HasRoom(session[s])
        THEN /\ session' = [session EXCEPT ![s].accepted = @ + 1, ![s].live = @ + 1]
             /\ Goto(a, "native")
        ELSE session' = [session EXCEPT ![s] = Refunded(@)] /\ Goto(a, "undo")
     /\ UNCHANGED <<broker, tickers, epoch, ledger, run, kid, due, runs>>

\* The registration of a rejected child is dropped.
SpawnUndo(a) ==
  LET k == kid[a].spawning
  IN /\ at[a] = "undo"
     /\ broker' = Withdrawn(k)
     /\ kid' = [kid EXCEPT ![a].spawning = None, ![k].root = None]
     /\ Goto(a, "guest")
     /\ UNCHANGED <<tickers, epoch, session, ledger, run, due, runs>>

\* The native thread starts, or its creation fails and drops the closure with
\* the registration in it.
SpawnNative(a) ==
  /\ at[a] = "native"
  /\ at' = [at EXCEPT ![a] = "push", ![kid[a].spawning] = "guest"]
  /\ UNCHANGED <<broker, tickers, epoch, session, ledger, run, kid, due, runs>>

SpawnFails(a) ==
  LET k == kid[a].spawning
  IN /\ at[a] = "native"
     /\ broker' = Withdrawn(k)
     /\ kid' = [kid EXCEPT ![a].spawning = None, ![k].root = None]
     /\ Goto(a, "unlive")
     /\ UNCHANGED <<tickers, epoch, session, ledger, run, due, runs>>

SpawnUncounted(a) ==
  /\ at[a] = "unlive"
  /\ session' = [session EXCEPT ![Sketch(a)].live = @ - 1, ![Sketch(a)].accepted = @ - 1]
  /\ Goto(a, "refund")
  /\ UNCHANGED <<broker, tickers, epoch, ledger, run, kid, due, runs>>

SpawnRefund(a) ==
  /\ at[a] = "refund"
  /\ session' = [session EXCEPT ![Sketch(a)] = Refunded(@)]
  /\ Goto(a, "guest")
  /\ UNCHANGED <<broker, tickers, epoch, ledger, run, kid, due, runs>>

SpawnPush(a) ==
  /\ at[a] = "push"
  /\ session' = [session EXCEPT ![Sketch(a)].handles = @ \cup {kid[a].spawning}]
  /\ kid' = [kid EXCEPT ![a].spawning = None]
  /\ Goto(a, "guest")
  /\ UNCHANGED <<broker, tickers, epoch, ledger, run, due, runs>>

\* The end of a child thread: its outcome, then its registration.
KidReports(k) ==
  LET s == Sketch(k)
  IN /\ at[k] = "outcome"
     /\ session' = [session EXCEPT ![s].live = @ - 1,
                                   ![s].outcomes = IF Cardinality(@) < MaxThreads THEN @ \cup {k} ELSE @]
     /\ Goto(k, "ending")
     /\ UNCHANGED <<broker, tickers, epoch, ledger, run, kid, due, runs>>

KidEnds(k) ==
  /\ at[k] = "ending"
  /\ broker' = Withdrawn(k)
  /\ Goto(k, "exited")
  /\ UNCHANGED <<tickers, epoch, session, ledger, run, kid, due, runs>>

-----------------------------------------------------------------------------
(* join_completed, and the end of the execution.                           *)

\* Mutant: one pass over the handles.
JoinWaitOnce(c) ==
  /\ at[c] = "joining"
  /\ \A k \in run[c].batch : at[k] = "exited"
  /\ Goto(c, "drain")
  /\ UNCHANGED <<broker, tickers, epoch, session, ledger, run, kid, due, runs>>

JoinTake(c) ==
  LET s == SketchOf[c]
  IN /\ at[c] = "join"
     /\ session' = [session EXCEPT ![s].closing = TRUE, ![s].handles = {}]
     /\ run' = [run EXCEPT ![c].batch = session[s].handles]
     /\ Goto(c, IF session[s].handles = {} THEN "drain" ELSE "joining")
     /\ UNCHANGED <<broker, tickers, epoch, ledger, kid, due, runs>>

JoinWait(c) ==
  /\ at[c] = "joining"
  /\ \A k \in run[c].batch : at[k] = "exited"
  /\ Goto(c, "join")
  /\ UNCHANGED <<broker, tickers, epoch, session, ledger, run, kid, due, runs>>

\* The report takes the outcomes; the joined threads are gone.
Drain(c) ==
  LET gone == {k \in Kids : kid[k].root = c /\ at[k] = "exited"}
  IN /\ at[c] = "drain"
     /\ session' = [session EXCEPT ![SketchOf[c]].closing = FALSE, ![SketchOf[c]].accepted = 0,
                                   ![SketchOf[c]].outcomes = {}]
     /\ kid' = [a \in Stores |-> IF a \in gone THEN NoKid ELSE kid[a]]
     /\ at' = [a \in Stores |-> IF a = c THEN "drained" ELSE IF a \in gone THEN "idle" ELSE at[a]]
     /\ run' = [run EXCEPT ![c].batch = {}]
     /\ UNCHANGED <<broker, tickers, epoch, ledger, due, runs>>

\* LogicalRootPermit::drop, its RootExecutionPermit, and the execution's
\* reference to the prepared session.
Leave(c) ==
  /\ at[c] = "drained"
  /\ session' = [session EXCEPT ![SketchOf[c]].active = 0, ![SketchOf[c]].fuel = -1]
  /\ epoch' = [epoch EXCEPT ![c].hub = "none"]
  /\ Goto(c, "leaving")
  /\ UNCHANGED <<broker, tickers, ledger, run, kid, due, runs>>

DropPermit(c) ==
  /\ at[c] = "leaving"
  /\ ledger' = [ledger EXCEPT !.roots = @ - 1]
  /\ Goto(c, "left")
  /\ UNCHANGED <<broker, tickers, epoch, session, run, kid, due, runs>>

DropPrepared(c) ==
  LET id == run[c].session
  IN /\ at[c] = "left"
     /\ ledger' = IF session[SketchOf[c]].id # id /\ Holders(id) = {c}
                  THEN [ledger EXCEPT !.memories = @ - 1] ELSE ledger
     /\ run' = [run EXCEPT ![c] = NoRun]
     /\ Returns(c)
     /\ UNCHANGED <<broker, tickers, epoch, session, kid, due, runs>>

-----------------------------------------------------------------------------
Next ==
  \/ \E g \in DOMAIN tickers : Tick(g) \/ TickEnds(g) \/ \E c \in Callers, b \in BOOLEAN : TickWake(g, c, b)
  \/ \E c \in Callers : \/ Register(c) \/ Finish(c) \/ Await(c)
                         \/ \E w \in Reasons : Ask(c, w)
                         \/ \E b \in BOOLEAN : Abandon(c, b) \/ Start(c, b)
                         \/ PrepareCached(c) \/ PrepareReserve(c) \/ PrepareAcquire(c)
                         \/ GrantFails(c) \/ Bind(c) \/ CloseHub(c) \/ JoinTake(c) \/ JoinWait(c) \/ Drain(c)
                         \/ Leave(c) \/ DropPermit(c) \/ DropPrepared(c)
  \/ \E s \in Sketches : CloseSession(s)
  \/ \E a \in Stores : \/ Park(a) \/ Resume(a) \/ Return(a)
                        \/ \E k \in Kids : SpawnRegister(a, k)
                        \/ SpawnFuel(a) \/ SpawnTid(a) \/ SpawnUndo(a) \/ SpawnNative(a) \/ SpawnFails(a)
                        \/ SpawnUncounted(a) \/ SpawnRefund(a) \/ SpawnPush(a)
  \/ \E k \in Kids : KidReports(k) \/ KidEnds(k)

Spec == Init /\ [][Next]_vars

-----------------------------------------------------------------------------
(* Scheduling: the tasks and threads of the host run, deadlines pass, a    *)
(* Store whose epoch check is due reaches it, and the hub's mutex is not   *)
(* taken at every single tick.                                             *)

JobStep(c) ==
  \/ PrepareCached(c) \/ PrepareReserve(c) \/ PrepareAcquire(c) \/ Bind(c)
  \/ \E b \in BOOLEAN : Start(c, b)
  \/ CloseHub(c) \/ JoinTake(c) \/ JoinWait(c) \/ Drain(c)
  \/ Leave(c) \/ DropPermit(c) \/ DropPrepared(c) \/ Finish(c) \/ Await(c)

HostStep(a) ==
  \/ SpawnFuel(a) \/ SpawnTid(a) \/ SpawnUndo(a) \/ SpawnNative(a)
  \/ SpawnUncounted(a) \/ SpawnRefund(a) \/ SpawnPush(a)
  \/ a \in due /\ Return(a)
  \/ Resume(a) /\ epoch[RootOf(a)].hub = "closed"
  \/ a \in Kids /\ (KidReports(a) \/ KidEnds(a))

TickerStep(g) ==
  g \in DOMAIN tickers /\ (Tick(g) \/ TickEnds(g) \/ \E c \in Callers, b \in BOOLEAN : TickWake(g, c, b))

\* Instances: every caller executes one sketch, or supplies one runtime.
SameSketch == [c \in Callers |-> CHOOSE s \in Sketches : TRUE]

OneRuntime == [c \in Callers |-> None]

FairSpec ==
  /\ Spec
  /\ \A c \in Callers : /\ WF_vars(JobStep(c))
                         /\ WF_vars(Ask(c, "deadline"))
                         /\ SF_vars(\E g \in DOMAIN tickers : TickWake(g, c, TRUE))
  /\ \A a \in Stores : WF_vars(HostStep(a))
  /\ \A g \in 1..2 * MaxRuns : WF_vars(TickerStep(g))

-----------------------------------------------------------------------------
(* Stages in which an execution owns a root permit, and may own children.  *)
Parenting == Running \cup {"returned", "join", "joining", "drain"}

Permitted == Parenting \cup {"granted", "bound", "drained"}

\* While anything is registered, the broker holds a ticker of the current
\* generation and that task is alive: no registration waits for a tick that
\* never comes (register_entry, finish_registration and the stale exit of tick).
EveryRegistrationIsTicked ==
  broker.regs # {} => broker.ticker = broker.generation /\ broker.ticker \in DOMAIN tickers

\* A child belongs to a root that has not drained yet, and when join_completed
\* leaves its loop every child of that root has exited, whoever spawned it and
\* whenever its handle was pushed.
NoChildOutlivesItsRoot ==
  \A k \in Kids : kid[k].root # None =>
    /\ at[kid[k].root] \in Parenting
    /\ at[kid[k].root] = "drain" => at[k] = "exited"

\* Across the session and the workers mutex, the fuel slices a root still has,
\* the children it accepted and the spawns between the two locks add up to the
\* slices it was given: no rejected spawn loses a slice, none is refunded twice.
FuelMatchesChildren ==
  \A c \in Callers : at[c] \in Parenting =>
    session[SketchOf[c]].fuel + session[SketchOf[c]].accepted
      + Cardinality({a \in Stores : RootOf(a) = c /\ at[a] \in {"tid", "refund"}}) = Slices

\* The bounded outcome vector holds the outcome of every child that finished
\* since the last drain ("a fast-completing guest cannot grow the bounded
\* facade outcome vector by repeatedly spawning replacements").
NoOutcomeIsLost ==
  \A k \in Kids : at[k] \in {"ending", "exited"} => k \in session[Sketch(k)].outcomes

\* The ledger's roots are the executions with a permit, its memories the
\* sessions someone can still reach, and a session is active exactly while one
\* execution has its permit: every early return gives back what it took.
AccountsAreHeld ==
  /\ ledger.roots = Cardinality({c \in Callers : at[c] \in Permitted \cup {"leaving"}})
  /\ ledger.memories = Cardinality(({session[s].id : s \in Sketches} \cup {run[c].session : c \in Callers}) \ {0})
                       + Cardinality({c \in Callers : at[c] = "reserved"})
  /\ \A s \in Sketches : session[s].active = Cardinality({c \in Callers : SketchOf[c] = s /\ at[c] \in Permitted})

\* Every child the root accepted is paid for out of its fuel, and every outcome of a
\* child that finished since the last drain is in the bounded vector (ThreadController).
ChildrenAreCounted == TypeOK /\ FuelMatchesChildren /\ NoOutcomeIsLost

\* Every execution whose caller keeps waiting returns, whatever its guest does:
\* the deadline is published, parked Stores are woken, computing ones are
\* interrupted, children are joined and the ticker is not waited for in vain.
EveryRootEnds ==
  \A c \in Callers : at[c] # "idle" ~> at[c] = "idle" \/ Abandoned(c)

====
