------------------------ MODULE MCProcesses ------------------------
(***************************************************************************)
(* Processes, threads and the tasks inside them, one component per         *)
(* behaviour: process identity, lifetime and spawning, the worker and its  *)
(* wire, crash sinks and records, the drains and registrations of roots,   *)
(* terminals, symbols, snapshots, and the async engine. `which` names the  *)
(* component; the slots s1, s2, ... are its variables.                     *)
(***************************************************************************)
EXTENDS Integers, TLC

CONSTANTS Nil, Crashers, CrashThreads, Callers, Sketches, Waiters, Cancellers, Tasks, LockTasks, Producers, Subscribers, Scopes, NoValue

VARIABLES which,   \* the component of this behaviour
          s1, s2, s3, s4, s5, s6, s7, s8, s9, s10, s11, s12, s13, s14, s15,
          s16, s17, s18, s19, s20, s21, s22, s23, s24, s25, s26

vars == <<which, s1, s2, s3, s4, s5, s6, s7, s8, s9, s10, s11, s12, s13, s14,
          s15, s16, s17, s18, s19, s20, s21, s22, s23, s24, s25, s26>>

Identity == INSTANCE ProcessIdentity WITH
    Pids <- {1, 2}, Instances <- {1, 2}, MaxDepth <- 2, host <- s1, at <- s2,
    st <- s3, killed <- s4, pidOf <- s5, parent <- s6, handles <- s7, call <- s8,
    live <- s9, strays <- s10
Lifetime == INSTANCE ProcessLifetime WITH
    Callers <- {1, 2}, facet <- s1, spec <- s2, owner <- s3, pc <- s4, retried <- s5,
    watch <- s6, child <- s7, watcher <- s8, why <- s9, handle <- s10, pid <- s11,
    answered <- s12, consumer <- s13, shutdown <- s14, woken <- s15, host <- s16,
    target <- s17, call <- s18, ready <- s19, queued <- s20, latch <- s21,
    cancel <- s22, worker <- s23, job <- s24, stop <- s25, monitor <- s26
Spawn == INSTANCE Spawning WITH
    MaxCalls <- 3, MaxPolls <- 2, MaxProcesses <- 2, facet <- s1, host <- s2,
    grp <- s3, win <- s4, cap <- s5, own <- s6, mon <- s7, adp <- s8, value <- s9
Traced == INSTANCE WorkerSupervisor WITH
    Granted <- FALSE, Traces <- TRUE, PipeRoom <- 1, Reports <- {}, asked <- s1,
    sup <- s2, phase <- s3, lane <- s4, worker <- s5, own <- s6, out <- s7,
    ledger <- s8
Wire == INSTANCE WorkerWire WITH
    MaxFramePayload <- 14, MaxTrace <- 2, MaxDiagnostic <- 2, MaxModuleBytes <- 14,
    MaxUrl <- 1, MaxPath <- 2, sent <- s1, frame <- s2, got <- s3, asm <- s4,
    log <- s5, policy <- s6, worker <- s7, parent <- s8
Sinks == INSTANCE CrashSinks WITH
    Deliveries <- {1}, MaxRounds <- 2, Insts <- {1, 2, 3}, Pids <- {1, 2},
    facet <- s1, host <- s2, ch <- s3, sk <- s4, fk <- s5, value <- s6
Records == INSTANCE CrashCapture WITH
    Threads <- CrashThreads, Keepers <- {}, Installed <- <<>>, Crashers <- Crashers,
    MaxRuntimes <- 2, MaxInstalls <- 1, MaxSamples <- 1, None <- Nil, rt <- s1,
    weak <- s2, transition <- s3, attached <- s4, sinks <- s5, me <- s6, crash <- s7
Drains == INSTANCE RootDrains WITH
    Stores <- {1, 2}, Clocks <- {1, 2, 3}, MaxOperations <- 2, U8 <- 3, U32 <- 7,
    facet <- s1, sub <- s2, op <- s3, timer <- s4, hub <- s5, join <- s6, arg <- s7
Pair == INSTANCE ThreadedRoot WITH
    Callers <- Callers, Kids <- {}, Sketches <- Sketches,
    SketchOf <- [c \in Callers |-> CHOOSE s \in Sketches : TRUE],
    RuntimeOf <- [c \in Callers |-> Nil], MaxRegs <- 3, MaxRoots <- 1,
    MaxMemories <- 2, MaxThreads <- 1, Slices <- 1, MaxGuestThreads <- 2,
    MaxRuns <- 2, MayAbandon <- TRUE, Reasons <- {"cancelled"}, None <- Nil,
    broker <- s1, tickers <- s2, epoch <- s3, session <- s4, ledger <- s5, at <- s6,
    run <- s7, kid <- s8, due <- s9, runs <- s10
Terminal == INSTANCE Terminals WITH
    MaxEvents <- 2, MaxQueued <- 3, MaxRepeat <- 2, MaxPending <- 5,
    MaxConsumed <- 15, MaxRecords <- 2, MaxStarts <- 2, Room <- 2, facet <- s1,
    host <- s2, console <- s3, tty <- s4, keys <- s5, pty <- s6, conpty <- s7,
    sidecar <- s8, value <- s9
Symbols == INSTANCE Symbolization WITH
    MaxServers <- 2, MaxResponse <- 2, MaxAggregate <- 3, Pipe <- 1, MaxInput <- 2,
    facet <- s1, host <- s2, walk <- s3, servers <- s4, split <- s5, client <- s6,
    value <- s7
Snapshot == INSTANCE Snapshots WITH
    Siblings <- {1, 2}, MaxRounds <- 2, MaxTicks <- 4, UnwindLimit <- 1, MaxPids <- 3,
    facet <- s1, host <- s2, sig <- s3, sus <- s4, res <- s5, ring <- s6, trace <- s7,
    value <- s8
Signals == INSTANCE AsyncSignals WITH
    Waiters <- Waiters, Cancellers <- Cancellers, Idle <- 2, MaxTime <- 4,
    cancelled <- s1, canceller <- s2, now <- s3, last <- s4, reporter <- s5,
    ready <- s6, pc <- s7, heard <- s8, felt <- s9, deadline <- s10, late <- s11,
    verdict <- s12
Locks == INSTANCE AsyncLocks WITH
    Tasks <- LockTasks, Permits <- 3, MaxLocks <- 2, kind <- s1, locks <- s2,
    handle <- s3, queue <- s4, want <- s5, got <- s6, guard <- s7, consumed <- s8
Blocking == INSTANCE AsyncTasks WITH
    Tasks <- Tasks, MaxBlockingThreads <- 2, MaxOperations <- 1, kind <- s1,
    work <- s2, handle <- s3, detached <- s4, abort <- s5, asked <- s6, stopped <- s7,
    result <- s8, caller <- s9, strays <- s10
Channels == INSTANCE AsyncChannels WITH
    Producers <- Producers, Subscribers <- Subscribers, Capacity <- 1, MaxSends <- 3,
    kind <- s1, inRuntime <- s2, senders <- s3, open <- s4, made <- s5, parked <- s6,
    ring <- s7, base <- s8, cursor <- s9, since <- s10, early <- s11, blocked <- s12,
    fate <- s13
Polling == INSTANCE TaskPolling WITH
    MaxBranches <- 4, Scopes <- Scopes, NoValue <- NoValue, MaxDepth <- 3,
    facet <- s1, order <- s2, enabled <- s3, ready <- s4, waker <- s5, turn <- s6,
    woken <- s7, behind <- s8, outcome <- s9, winner <- s10, slot <- s11,
    value <- s12, alive <- s13, stack <- s14, borrowed <- s15

Init ==
    \/ /\ which = "identity" /\ Identity!Init
       /\ s11 = 0 /\ s12 = 0 /\ s13 = 0 /\ s14 = 0 /\ s15 = 0 /\ s16 = 0 /\ s17 = 0
       /\ s18 = 0 /\ s19 = 0 /\ s20 = 0 /\ s21 = 0 /\ s22 = 0 /\ s23 = 0 /\ s24 = 0
       /\ s25 = 0 /\ s26 = 0
    \/ /\ which = "lifetime" /\ Lifetime!Init
    \/ /\ which = "spawn" /\ Spawn!Init
       /\ s10 = 0 /\ s11 = 0 /\ s12 = 0 /\ s13 = 0 /\ s14 = 0 /\ s15 = 0 /\ s16 = 0
       /\ s17 = 0 /\ s18 = 0 /\ s19 = 0 /\ s20 = 0 /\ s21 = 0 /\ s22 = 0 /\ s23 = 0
       /\ s24 = 0 /\ s25 = 0 /\ s26 = 0
    \/ /\ which = "traced" /\ Traced!Init
       /\ s9 = 0 /\ s10 = 0 /\ s11 = 0 /\ s12 = 0 /\ s13 = 0 /\ s14 = 0 /\ s15 = 0
       /\ s16 = 0 /\ s17 = 0 /\ s18 = 0 /\ s19 = 0 /\ s20 = 0 /\ s21 = 0 /\ s22 = 0
       /\ s23 = 0 /\ s24 = 0 /\ s25 = 0 /\ s26 = 0
    \/ /\ which = "wire" /\ Wire!Init
       /\ s9 = 0 /\ s10 = 0 /\ s11 = 0 /\ s12 = 0 /\ s13 = 0 /\ s14 = 0 /\ s15 = 0
       /\ s16 = 0 /\ s17 = 0 /\ s18 = 0 /\ s19 = 0 /\ s20 = 0 /\ s21 = 0 /\ s22 = 0
       /\ s23 = 0 /\ s24 = 0 /\ s25 = 0 /\ s26 = 0
    \/ /\ which = "sinks" /\ Sinks!Init
       /\ s7 = 0 /\ s8 = 0 /\ s9 = 0 /\ s10 = 0 /\ s11 = 0 /\ s12 = 0 /\ s13 = 0
       /\ s14 = 0 /\ s15 = 0 /\ s16 = 0 /\ s17 = 0 /\ s18 = 0 /\ s19 = 0 /\ s20 = 0
       /\ s21 = 0 /\ s22 = 0 /\ s23 = 0 /\ s24 = 0 /\ s25 = 0 /\ s26 = 0
    \/ /\ which = "records" /\ Records!Init
       /\ s8 = 0 /\ s9 = 0 /\ s10 = 0 /\ s11 = 0 /\ s12 = 0 /\ s13 = 0 /\ s14 = 0
       /\ s15 = 0 /\ s16 = 0 /\ s17 = 0 /\ s18 = 0 /\ s19 = 0 /\ s20 = 0 /\ s21 = 0
       /\ s22 = 0 /\ s23 = 0 /\ s24 = 0 /\ s25 = 0 /\ s26 = 0
    \/ /\ which = "drains" /\ Drains!Init
       /\ s8 = 0 /\ s9 = 0 /\ s10 = 0 /\ s11 = 0 /\ s12 = 0 /\ s13 = 0 /\ s14 = 0
       /\ s15 = 0 /\ s16 = 0 /\ s17 = 0 /\ s18 = 0 /\ s19 = 0 /\ s20 = 0 /\ s21 = 0
       /\ s22 = 0 /\ s23 = 0 /\ s24 = 0 /\ s25 = 0 /\ s26 = 0
    \/ /\ which = "pair" /\ Pair!Init
       /\ s11 = 0 /\ s12 = 0 /\ s13 = 0 /\ s14 = 0 /\ s15 = 0 /\ s16 = 0 /\ s17 = 0
       /\ s18 = 0 /\ s19 = 0 /\ s20 = 0 /\ s21 = 0 /\ s22 = 0 /\ s23 = 0 /\ s24 = 0
       /\ s25 = 0 /\ s26 = 0
    \/ /\ which = "terminal" /\ Terminal!Init
       /\ s10 = 0 /\ s11 = 0 /\ s12 = 0 /\ s13 = 0 /\ s14 = 0 /\ s15 = 0 /\ s16 = 0
       /\ s17 = 0 /\ s18 = 0 /\ s19 = 0 /\ s20 = 0 /\ s21 = 0 /\ s22 = 0 /\ s23 = 0
       /\ s24 = 0 /\ s25 = 0 /\ s26 = 0
    \/ /\ which = "symbols" /\ Symbols!Init
       /\ s8 = 0 /\ s9 = 0 /\ s10 = 0 /\ s11 = 0 /\ s12 = 0 /\ s13 = 0 /\ s14 = 0
       /\ s15 = 0 /\ s16 = 0 /\ s17 = 0 /\ s18 = 0 /\ s19 = 0 /\ s20 = 0 /\ s21 = 0
       /\ s22 = 0 /\ s23 = 0 /\ s24 = 0 /\ s25 = 0 /\ s26 = 0
    \/ /\ which = "snapshot" /\ Snapshot!Init
       /\ s9 = 0 /\ s10 = 0 /\ s11 = 0 /\ s12 = 0 /\ s13 = 0 /\ s14 = 0 /\ s15 = 0
       /\ s16 = 0 /\ s17 = 0 /\ s18 = 0 /\ s19 = 0 /\ s20 = 0 /\ s21 = 0 /\ s22 = 0
       /\ s23 = 0 /\ s24 = 0 /\ s25 = 0 /\ s26 = 0
    \/ /\ which = "signals" /\ Signals!Init
       /\ s13 = 0 /\ s14 = 0 /\ s15 = 0 /\ s16 = 0 /\ s17 = 0 /\ s18 = 0 /\ s19 = 0
       /\ s20 = 0 /\ s21 = 0 /\ s22 = 0 /\ s23 = 0 /\ s24 = 0 /\ s25 = 0 /\ s26 = 0
    \/ /\ which = "locks" /\ Locks!Init
       /\ s9 = 0 /\ s10 = 0 /\ s11 = 0 /\ s12 = 0 /\ s13 = 0 /\ s14 = 0 /\ s15 = 0
       /\ s16 = 0 /\ s17 = 0 /\ s18 = 0 /\ s19 = 0 /\ s20 = 0 /\ s21 = 0 /\ s22 = 0
       /\ s23 = 0 /\ s24 = 0 /\ s25 = 0 /\ s26 = 0
    \/ /\ which = "blocking" /\ Blocking!Init
       /\ s11 = 0 /\ s12 = 0 /\ s13 = 0 /\ s14 = 0 /\ s15 = 0 /\ s16 = 0 /\ s17 = 0
       /\ s18 = 0 /\ s19 = 0 /\ s20 = 0 /\ s21 = 0 /\ s22 = 0 /\ s23 = 0 /\ s24 = 0
       /\ s25 = 0 /\ s26 = 0
    \/ /\ which = "channels" /\ Channels!Init
       /\ s14 = 0 /\ s15 = 0 /\ s16 = 0 /\ s17 = 0 /\ s18 = 0 /\ s19 = 0 /\ s20 = 0
       /\ s21 = 0 /\ s22 = 0 /\ s23 = 0 /\ s24 = 0 /\ s25 = 0 /\ s26 = 0
    \/ /\ which = "polling" /\ Polling!Init
       /\ s16 = 0 /\ s17 = 0 /\ s18 = 0 /\ s19 = 0 /\ s20 = 0 /\ s21 = 0 /\ s22 = 0
       /\ s23 = 0 /\ s24 = 0 /\ s25 = 0 /\ s26 = 0

NextIdentity == which = "identity" /\ Identity!Next /\ UNCHANGED <<which, s11, s12, s13, s14, s15, s16, s17, s18, s19, s20, s21, s22, s23, s24, s25, s26>>
NextLifetime == which = "lifetime" /\ Lifetime!Next /\ UNCHANGED <<which>>
NextSpawn == which = "spawn" /\ Spawn!Next /\ UNCHANGED <<which, s10, s11, s12, s13, s14, s15, s16, s17, s18, s19, s20, s21, s22, s23, s24, s25, s26>>
NextTraced == which = "traced" /\ Traced!Next /\ UNCHANGED <<which, s9, s10, s11, s12, s13, s14, s15, s16, s17, s18, s19, s20, s21, s22, s23, s24, s25, s26>>
NextWire == which = "wire" /\ Wire!Next /\ UNCHANGED <<which, s9, s10, s11, s12, s13, s14, s15, s16, s17, s18, s19, s20, s21, s22, s23, s24, s25, s26>>
NextSinks == which = "sinks" /\ Sinks!Next /\ UNCHANGED <<which, s7, s8, s9, s10, s11, s12, s13, s14, s15, s16, s17, s18, s19, s20, s21, s22, s23, s24, s25, s26>>
NextRecords == which = "records" /\ Records!Next /\ UNCHANGED <<which, s8, s9, s10, s11, s12, s13, s14, s15, s16, s17, s18, s19, s20, s21, s22, s23, s24, s25, s26>>
NextDrains == which = "drains" /\ Drains!Next /\ UNCHANGED <<which, s8, s9, s10, s11, s12, s13, s14, s15, s16, s17, s18, s19, s20, s21, s22, s23, s24, s25, s26>>
NextPair == which = "pair" /\ Pair!Next /\ UNCHANGED <<which, s11, s12, s13, s14, s15, s16, s17, s18, s19, s20, s21, s22, s23, s24, s25, s26>>
NextTerminal == which = "terminal" /\ Terminal!Next /\ UNCHANGED <<which, s10, s11, s12, s13, s14, s15, s16, s17, s18, s19, s20, s21, s22, s23, s24, s25, s26>>
NextSymbols == which = "symbols" /\ Symbols!Next /\ UNCHANGED <<which, s8, s9, s10, s11, s12, s13, s14, s15, s16, s17, s18, s19, s20, s21, s22, s23, s24, s25, s26>>
NextSnapshot == which = "snapshot" /\ Snapshot!Next /\ UNCHANGED <<which, s9, s10, s11, s12, s13, s14, s15, s16, s17, s18, s19, s20, s21, s22, s23, s24, s25, s26>>
NextSignals == which = "signals" /\ Signals!Next /\ UNCHANGED <<which, s13, s14, s15, s16, s17, s18, s19, s20, s21, s22, s23, s24, s25, s26>>
NextLocks == which = "locks" /\ Locks!Next /\ UNCHANGED <<which, s9, s10, s11, s12, s13, s14, s15, s16, s17, s18, s19, s20, s21, s22, s23, s24, s25, s26>>
NextBlocking == which = "blocking" /\ Blocking!Next /\ UNCHANGED <<which, s11, s12, s13, s14, s15, s16, s17, s18, s19, s20, s21, s22, s23, s24, s25, s26>>
NextChannels == which = "channels" /\ Channels!Next /\ UNCHANGED <<which, s14, s15, s16, s17, s18, s19, s20, s21, s22, s23, s24, s25, s26>>
NextPolling == which = "polling" /\ Polling!Next /\ UNCHANGED <<which, s16, s17, s18, s19, s20, s21, s22, s23, s24, s25, s26>>
Next ==
    \/ NextIdentity
    \/ NextLifetime
    \/ NextSpawn
    \/ NextTraced
    \/ NextWire
    \/ NextSinks
    \/ NextRecords
    \/ NextDrains
    \/ NextPair
    \/ NextTerminal
    \/ NextSymbols
    \/ NextSnapshot
    \/ NextSignals
    \/ NextLocks
    \/ NextBlocking
    \/ NextChannels
    \/ NextPolling
Spec == Init /\ [][Next]_vars



\* Every registered execution has a ticker of the running generation; permits,
\* reservations and active counts are those of the callers that hold them; the end of
\* a root waits for its clocks and keeps its result; and what a contained worker is
\* sent and reports arrives as it was sent and is honoured (wasm/mod.rs,
\* operations.rs, worker_protocol.rs, worker.rs).
ExecutionsAreAccountedFor ==
    /\ which = "pair" => Pair!EveryRegistrationIsTicked /\ Pair!AccountsAreHeld
    /\ which = "drains" => Drains!TimersAreDrained /\ Drains!ResultsAndArgumentsHold
    /\ which = "wire" => Wire!CodecIsFaithful /\ Wire!AssembledAsSent /\ Wire!ContainedRunIsFaithful
    /\ which = "traced" => Traced!ReportsAreHonoured /\ Traced!NothingOutlivesTheLease



\* A task of the async engine that must wake is woken, a key is held once, a channel
\* keeps its values, abandoned work stops, and a race polls fairly (async_engine.rs).
TasksAreServed ==
    /\ which = "signals" => /\ Signals!CancelledTaskIsWoken
                            /\ Signals!CancellationWins
                            /\ Signals!StallIsJudgedByProgress
    /\ which = "locks" => Locks!KeyIsHeldOnce
    /\ which = "blocking" => Blocking!AbandonedWorkStops /\ Blocking!EntropyIsBounded
    /\ which = "channels" => Channels!ChannelKeepsItsValues /\ Channels!ParkedSendersAreServed
    /\ which = "polling" => /\ Polling!ParkedRaceIsWoken
                            /\ Polling!WinnerIsFirstReady
                            /\ Polling!BindingFollowsTheScope
==============================================================================
